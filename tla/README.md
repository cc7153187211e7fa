# Revpd, verified

Revpd is a gateway in front of RDP machines. A client connects to one TCP port; nothing is
forwarded until the account behind the connection has passed a second factor. This directory
holds TLA+ models of the program, the TLC configurations that check them on small instances,
and the theorems about them that TLAPS checks for every instance. Every definition is a
translation of the Go source; `PROJECT.json` names the lines each one stands for.

## Inventory

| Component | Source | State it keeps | Operations |
|---|---|---|---|
| Store | `internal/store`, SQL migrations | accounts, `user_targets`, machines, `grants`, `redirect_tokens`, `jit_requests`, `rdp_sessions`, factors, lockouts, settings, audit rows | one SQL statement each, on a pool of one connection |
| Relay | `internal/proxy/relay` | `perIP` slots, one goroutine per connection | accept, peek, decide, dial, pump, tarpit, release |
| Policy engine | `internal/policy` | wake single-flight map, nothing else in memory | Authorize, AuthorizeToken, Authenticate, Review, Unlock, Opened, Closed |
| Sessions and lockout | `internal/auth` | `sessions` rows; failure counters in memory | Start, Promote, Lookup, Destroy, Fail, Succeed, Locked, Sweep |
| Second factors | `internal/mfa/*`, `store/backup.go`, `store/webauthn.go` | TOTP secret and last counter, backup codes, passkeys, Duo pushes | verify, claim, enrol, regenerate, delete |
| Portal API | `internal/api` | pending enrolments and passkey challenges in memory | login, MFA, unlock, setup, administration, settings, update |
| Push approval | `internal/mfa/duo` | none; the transaction lives at Duo | start, poll |
| Audit log | `internal/audit` | a hash chain of rows, written by two processes | Append, Verify |
| Updater | `internal/update` | staging directory, request file, backups, state file | Check, Stage, Request, Apply, rollback, Restore, finish |
| Notifier | `internal/notify` | queue of 64, token bucket, suppressed counts | Handle, Run, deliver |
| Address check | `internal/netcheck` | published state, configured host | SetHost, Refresh, Run, check |
| Wake on LAN | `internal/wol`, `policy.wake` | the map of wakes under way | packet, probe, settle, join |
| RDP login sequence | `internal/proxy/rdp` | one protocol exchange | negotiate, credentials, redirect |
| RD Gateway tunnel | `internal/proxy/rdgw` | one protocol exchange | handshake, tunnel, authorise, channel |
| Settings | `internal/config`, `store/settings.go` | settings rows, configuration in memory | load, save, restart pending |
| Command line | `cmd/revpd` | none (edits the database and the files beside the service) | serve, housekeeping, user, target, access, session, service and uninstall commands, the menu |
| Backup and restore | `internal/backup`, `cmd/revpd/manage.go` | archives; the files of the installation | backup, restore |
| Crypto, discovery, web interface | `internal/crypto`, `internal/discover`, `web` | none the gateway relies on | |

**How they interact.** The relay calls the policy engine through an interface; the policy engine
calls the store, the audit log, the wake code and, when approval is on, the Duo channel. The portal
calls the same policy engine (`Unlock`) and the session code. Service and command line are two
processes on one SQLite file. The audit log feeds the notifier through a callback. The updater is
two processes that talk through files: an unprivileged half in the service and a privileged one
started by systemd.

**What is hard.** The database is the only thing most components share, and almost every operation
is several statements with other handlers' statements between them. So the recurring question is:
what was read, what was checked, what can have changed since, and which conditional `UPDATE` has the
last word. Beside that: waits for humans with a deadline (the hold), retries and claims of one-time
secrets, restarts that lose memory but not rows, and an updater and a restore that can die between
any two writes of a file.

**What makes each component correct**, in one line each:

- *Relay and policy*: nobody is forwarded without a second factor for the account and address used;
  a lock, a lost access right and a refusal hold from the moment they should; slots and session rows
  match the connections that exist; every held connection is eventually settled.
- *Sessions and factors*: a one-time secret admits one login; a session past MFA belongs to one
  login and dies with a lock; slow and fast guessing both meet the lockout.
- *Passwords, passkeys, setup*: no lock vanishes without proof or lasts for ever; one challenge opens
  one door, and a passkey the account of its owner; exactly one first administrator.
- *Audit and notifier*: one chain, no fork, no gap, whoever writes; every event is delivered or counted.
- *Settings and address check*: whatever two administrators do at once, the process runs with a valid
  configuration; a published state ends up belonging to the configured host.
- *Wake and RDP login*: one attempt for all who ask; nobody is passed on to a machine that did not
  answer or without the phone's answer; everybody leaves.
- *Updater*: at every instant a binary that can run is installed and the way back is to the one that
  ran before; what was verified is what is installed, but for a staging between the check and the copy.
- *Backup, restore, uninstall*: database, log and key stay together; what was committed is in the
  backup, what was in the backup comes back, and data goes only when that was agreed to.

The hazards, line by line, are in `PROJECT.json`.

## Modules

| Module | What it models |
|---|---|
| `GrantStore` | The tables that decide who reaches which machine, and each SQL statement on them as one operator. |
| `Gateway` | Relay, policy engine, the portal's unlock request, the administrator, housekeeping, the clock, and the service stopping and starting, interleaving statement by statement. |
| `AccessPromise` | What the gateway promises, with no word of how; `Gateway` implements it (run `login`). |
| `SignIn` | Web sessions and factors: password step, second factor at both doors, the wizard's and the passkeys' sessions, enrolment, backup codes, locking. |
| `Lockout`, `Credentials` | The failure counters; and, over them, the setup wizard, passwords at both doors and passkeys. |
| `Wake`, `RDPLogin` | One wake for many callers; and, over it, the RDP login on the wire, approval by push, and unlocks. |
| `AuditLog`, `Notifier`, `EventLog` | The chain with two processes; queue and token bucket; and the two joined by the callback. |
| `Configuration`, `AddressCheck`, `Console` | Layers and validation; the public address; and, over both, settings page and start of the service. |
| `Updater` | The two halves of the updater, the files they meet in, the root command, restarts and crashes. |
| `Install` | Backup, restore, uninstall, menu and service commands beside systemd and a gateway that commits. |
| `MC*` | Small instances: `MCGateway`, `MCSignIn`, `MCCredentials`, `MCRDPLogin`, `MCEventLog`, `MCConsole`, `MCUpdater`, `MCInstall`. |
| `*Proofs` | Theorems: `GatewayProofs`, `SignInProofs`, `CredentialsProofs`, `RDPLoginProofs`, `EventLogProofs`, `ConsoleProofs`, `UpdaterProofs`, `InstallProofs`. |

An operator whose comment begins with "Mutant" is a plausible bug in the definition that follows it.
`PROJECT.json` pairs each with the property it breaks.

### GrantStore and Gateway

A table is a set of rows. `store.Open` limits the pool to one connection, so one statement is one
atomic step; everything a handler does between two statements is local. A TCP connection is a
process with a program counter `pc[c]`, a source address and a local record `dec[c]` of what it has
read: the stale values are in there. `slots` is `perIP`. The steps are named after the calls they
stand for (`ActiveGrant`, `TargetByID`, `UserByID`, `CheckReach`, `MarkConsumed` are
`Engine.Authorize` in order). Which path a connection takes after its first refusal follows
`relay.handle`: a refused routing token is final, otherwise the RDP login if that is configured,
otherwise an approval if that is, otherwise the tarpit.

The unlock request of the portal is a second kind of process (`web[r]`) with the same
read-then-write shape. Locking an account is two statements (`SetStatus`, later `RevokeGrants`), as in
`handleUserStatus`. `Stop` loses all memory and no row; `Start` runs `MarkStaleSessionsClosed` before
the relay listens again, as `cmdServe` does.

Four history variables are read by no action: who passed MFA or approved from where (`mfa`), which
connections a token admitted (`spent`), and what each connection could have seen of accounts and
access rights since it arrived (`sawActive`, `sawReach`). They are what the properties speak of,
because the rows themselves are deleted and rewritten.

Abstractions: a routing token nobody minted is `None`; a machine that does not answer, a failed
protocol exchange and a refused password are one disjunct that returns; `auth.require_second_factor`
set to false makes `LoginFactor` a factor the account does not owe, and the properties then speak of
the login. A database statement may fail wherever the code refuses or logs on failure
(`LookupFails`, `MarkConsumed`, `IssueFollowOn`, `IssueJIT`, `ReviewRefused`); the write that closes a
session record is taken to succeed while the service runs.

### SignIn

The same shape at the web login: `pc[q]` and `req[q]` are a request and what it has read. `Verify`
(of a code against the row read earlier) and `ClaimTOTPCounter` are separate steps, as are
`OpenBackupCodes` and `ClaimBackupCode`, so everything that can happen between the check and the claim
happens. Codes are numbered by enrolment and time step, which makes "this code" a value a property can
name. A session is matched by token and stage, as `stageHash` does. `Promote` is two statements, and so
is locking an account. The password itself is a guard: a wrong one changes nothing here.

Every caller of `Start` is here: the password step, `Promote`, the setup wizard (`SetupAdmin`, the count and the
insert of one transaction) and a passkey login (`PasskeyLoginFinish`), which is read from the owner of the key
before its account is loaded. So is every change of a factor behind `authed`: enrolment, its confirmation, and
registering and deleting a passkey (`Changes`). Which response a passkey login is accepted on is decided in
`Credentials`, and deleting accounts in `Gateway`; accounts made by `CreateUser` have no factor. `admitted` (which
secret a request spent), `vouched` (which passkey it presented, or that it created the first administrator) and
`started` (which request started which session) are histories; `FactorsNeedProof` is about all three. It is
stated for `auth.require_second_factor` on throughout: where it was off, sessions on the password alone exist.

### Lockout and Credentials

`failures` is the map of `Manager`; `Fail`, `Succeed`, `Locked` and `SweepLockouts` are its methods, with
the doubling and its cap. `Credentials` calls them as the two doors do: both ask `ip:` and
`user:`; the portal counts and clears `mfa:` and `ip:` at the second factor, the RDP login `ip:` and `user:`; each call
is a step (`AskAddress`, `AskAccount`, `Settling`), because the mutex is released in between. Which of
password, code and signature is right is a choice of the client. Over RDP the factor may be ",push", which needs
nothing enrolled. `totp` stands for whatever codes an account has: nothing stores a backup code before a TOTP
secret, and nothing removes the secret.

`SetupAdmin` and `CreateFirstAdmin` are the check of an empty gateway and the insert that repeats it in one
statement; `UserAdd` is the command line beside them, and the history `created` the order in which accounts were
made. `challenges` is the map of `challengeStore`, keyed as
the code keys it (an address, or an account), so two browsers behind one address overwrite each other's.
A passkey login is `TakeChallenge`, `FindPasskey`, `LoadOwner`, `UpdateSignCount` and `StartSession`; deleting
one is a count and a delete. A restart empties both maps and keeps the rows. `traffic` says which requests a
behaviour contains, so that three worlds (an empty gateway, passwords, passkeys) share one module without
their product.

### Wake and RDPLogin

`waking` is the entry of `e.waking` for the machine, `done` and `err` the channel and error of each
`wakeState`. Every caller has two programs: `wk`, its wake (begin or join, probe whether it is alive, send,
probe, settle, delete the entry, close the channel), and `wt`, its `waitReady`. Deleting and closing are two
steps, as in the deferred function. `power` has a state between "accepts TCP" and "ready", which is what the
settling time is for. A context that ended is `over`, and only a login's wake runs under the login's own.

`RDPLogin` is `(*Login).run` from the first packet: negotiation, TLS, the connect sequence, PDUs until the
client info, `Authenticate` (a choice), wake, wait, redirection. `ClientFails` may hit at every read and
write. An approval starts a push, polls it and races with the hold and with errors of the service.

### AuditLog, Notifier and EventLog

A hash is the pair it was computed from: what a hash without collisions gives. `mu` covers one process;
between processes there is only the transaction, which SQLite refuses to commit if the other has written
since it began (`InsertAndCommit` or `Retry`). `Announce` calls the watcher after the mutex was released.
`Handle` drops and counts when the queue is full; `Run` takes a token, renders the counts into the message
and clears them, and then delivers with retries. `told`, `reached`, `lost` and `rendered` are histories.

### Configuration, AddressCheck and Console

Six settings stand for the registry: one that a save can make invalid by itself, pairs that only validate
together, one of each way of being applied. `Layer`, `Applies`, `Apply` are the functions of that name in
`internal/config`, with the fall-back of the caller that goes on with the base. `Console` is
`handleSettingsSave`, with each SQL statement a step (clear, key by key; then replace, in one transaction),
`WantedConfig`, and the two calls into the running process; `cmdServe` as far as it loads, overrides and listens; and edits of the
file. `AddressCheck` publishes under a second lock, so that a check in flight can overwrite `SetHost`.

### Updater

A release, its hash and its file are one value, a build; `Torn` is a file somebody is writing. The
files are variables under the names they have (`stagedBin`, `manifest`, `request`, `result`,
`rollback`, `binary`, `tmp`, `saved`), so a crash loses the processes and keeps the files. `job[j]` is a
goroutine of the service or a root command in `Check`, `Stage` or `RequestApply`; `app[a]` is an
applier, either the systemd unit's or the command's own, at the point it has reached in `Apply`,
`rollback`, `Restore` or `RestartService`. The `busy` mutex is per process, which is what it is in the
code; the two halves share no lock. A write by rename is one step, a copy in place two. `Sound` says
which builds stay up; `waitHealthy` may give up on any of them, and never calls an unsound one
healthy. `good` and `before` are histories: the build last seen healthy (or put back by the operator)
and the one it replaced. So are `left.crashed` and `left.overlapped`: whether anything crashed, and whether two
appliers were ever at work at once, which nothing in the code prevents.

Abstractions: the applier reads manifest, hash and version of the staged file in one step (`Verify`),
because a change between these reads only makes it refuse; the copy to the temporary name is one step;
progress counters, version order and the transport of the download are left out, so `Stage` may fetch
any release, as the install button and the command line may.

### Install

A database is the key its secrets are sealed with and the number of its last transaction; the write-ahead
log beside it names the database it continues, which is what SQLite's salt does. Files live in `db`, `wal`,
`env` and `conf`; `service` is what systemd makes of the unit, and a unit that waits for its next start is
`activating`, which `serviceState` does not take for running. A command is a record `cmd` at its next
step: the snapshot and the write of `cmdBackup`, the steps of `cmdRestore` in their order, the questions and the removal of
`cmdUninstall`, and the restart as root that rebuilds the arguments (`ElevatedArgs`). A fault ends a command
anywhere (`CommandDies`), crashes the gateway or restarts the machine. `mixed` and `overlapped` are histories that say
which of the documented dangers has happened: a restore cut off or without a key, and files swapped while
systemd could start the gateway.

## The runs

| Run | Question | Bounds |
|---|---|---|
| `portal` | Type correctness; entry only after MFA; nobody barred gets in; windows do not accumulate; a revocation is final; session rows and slots match the connections, across a stop and a start too | 2 connections from 2 addresses, 1 unlock request, clock to 2, one slot per address, one stop at any point |
| `login` | One token, one admission: `Gateway` implements `AccessPromise` | 3 connections from 2 addresses: two race for the token of the third; clock to 1 |
| `approval` | A refusal holds; a decision is final; every held connection is settled | 2 connections from one address, a hold of 2 ticks, a sweep that can overtake it, fair handlers |
| `sign_in` | A TOTP code and a backup code admit one login each; replaced codes admit none; factors change only in a session whose login proved more than a password | 2 worlds (an account with codes and one with a passkey; no account at all); 2 accounts, 1 passkey, 3 requests; 2 time steps with a skew of 1; 2 enrolments |
| `credentials` | No lock for ever; no lock lifted without proof; the wizard creates the first account or none; one challenge, one door; a passkey opens its owner's account | 3 worlds; 3 requests, 2 names, 1 address; lock after 2 failures, clock to 2, 1 restart, 2 challenges |
| `rdp_login` | One attempt; nobody passed on without an answer of the machine and of the phone; everybody leaves | 4 companies of two or three callers (two logins; a login and an approval; a login and two unlocks; an approval and an unlock); 2 PDUs |
| `settle_skipped` | Violation: a joiner is told the machine is up before it is ready | the same, no fairness |
| `event_log` | The chain verifies; every wanted event is accounted for; the rate is bounded | 3 writers in 2 processes, 4 entries, 2 attempts, queue of 1, burst of 1, refill every 2 ticks, 1 crash, 1 change of settings |
| `console` | Only valid configurations run; one save at a time keeps the rows valid; a save is in force; a check in flight is put right | 2 administrators, 4 kinds of request, 2 saves, 2 starts, 1 edit, 3 resolvers of which one lies, 1 change of address |
| `updater` | A reported outcome leaves a build that stays up; the last healthy build is installed or kept whole; what the last good update replaced can be gone back to; every request is answered | 5 worlds, below |
| `crash_mid_update` | Violation: after a crash the applier rolls back to the bad build | the world with a crash |
| `install` | A log lies beside its database; the gateway holds its database's key; a restore brings everything back; a backup misses nothing committed; data goes only when agreed | 2 commands, 2 faults, 2 transactions, 3 directories, 2 keys, 2 paths, 3 archives from elsewhere |

*Why these bounds.* In `Gateway`, two connections are enough for every property but the token race, because each relates one
connection to rows somebody else wrote; the race needs the login that mints and two that redeem.
The clock needs two ticks for a grant to expire, be extended and expire again. In `approval` `MaxTime`
is 0 because nothing but the hold needs time there: the clock still moves under a hold that has yet to
run out. One account and one machine suffice for the properties as stated because rows of other
accounts only add failed matches; the theorems cover every number of them. The account is no administrator,
so what it may reach is given and taken away; that administrators reach everything (`CanReach`) is left to the
theorems.

In `sign_in`, three requests are a password step, a second factor and an enrolment, or three logins for
one code; two steps are a code that is burned and one that is not. In `credentials`, a lock needs two
failures, an expiry and a failure after it; a challenge needs two that use it and a third request that
changes the passkeys in between. Two accounts behind the one address are what makes counters and
challenges shared.

In `rdp_login`, three callers are the least in which one begins, one joins and one arrives between the
deletion of the entry and the close of the channel. In `event_log`, two goroutines of one process meet the
mutex and the third writer the transaction; a queue of one is full with two events waiting. In `console`,
two saves overlap or follow each other, and two starts put what the first left behind to use; `Everything`
has a save that changes two settings that only validate together, one that clears, one that does both and
one with a value nobody takes.

The worlds of `updater`: `TwoStagers`, two goroutines, two stagings and a settings restart under the path
unit (two is the least in which one staging races with the application of the other); `OneCrash`, a crash
or reboot at any point of up to three updates, one of them bad; `ByCommand`, no path unit, a root command
and a goroutine, three stagings and two rollbacks over three good builds, so that backups have to be pruned;
`TwoInstalls` and `AndBack`, a root command beside the path unit, installing twice, or once with a way back
while the service stages too, so that two appliers come one after the other or meet.

In `install`, two commands are a backup and its restore, or a restore after one that was cut off; two faults
are a crash that leaves a log and one that hits the command after it. The archives brought from elsewhere
have another key, no key, or another data directory.

*Symmetry* is used for connections and requests, which are interchangeable, and only in runs without
liveness. *Deadlock* is checked in the runs of `Gateway` and `SignIn`: the clock stops, but an administrator
can always act. The other systems really stop when nobody asks anything any more: everybody has left,
everything is logged, installed or removed. `MaxTime`, `MaxStops`, `MaxStages`, `MaxCrashes`, `MaxRestarts`,
`MaxRestores`, `MaxEnrols`, `LastStep`, `MaxChallenges`, `MaxSessions`, `MaxCount`, `MaxEntries`, `MaxConfigs`,
`MaxSaves`, `MaxStarts`, `MaxEdits`, `MaxMoves`, `MaxPDUs`, `MaxRows`, `MaxCommands` and `MaxFaults` are the
bounds. Of the type invariants only that of `Gateway` is among the runs' properties. Those of `RDPLogin`,
`SignIn`, `EventLog`, `Install` and `Updater` are proved (`TypeCorrect` of each); those of `Console` and
`Credentials` are proved only in the parts their other theorems rest on (`Shape`, `CountersOK`,
`RowsOwned`, `ChallengesOK`).

**Fairness.** `FairSpec` of `Gateway` asks that the clock ticks and that a handler which can take a step takes
it. A goroutine is scheduled, and each of its waits has a deadline: `HandshakeTimeout` on the peek and
the login, `jit.hold_timeout` on the approval, the boot timeout on the wake, the tarpit's timer. The
human's answer (`Approved`, `Declined`), the client's bytes (`PumpEnds`) and the administrator are
owed by nobody and carry no fairness. In `Updater`, `FairSpec` asks that systemd starts the unit
while a request is there (`PathExistsGlob`), that processes run on (a download has its timeout, `waitHealthy`
its deadline), and that an open dashboard polls the state; no check, staging, crash or command is owed. In
`Console` the timer of the address check fires and a check ends, since its questions have a timeout. In
`RDPLogin` every caller's wake, wait and sequence go on and its deadline passes; machine and phone owe nothing.

## What the findings show

- *A joined wake skips the settling time* (`settle_skipped`). A wake that finds the machine alive ends without
  waiting; whoever joined it takes its nil error for "ready" and never probes.
- *A crash in mid-update defeats the rollback* (`crash_mid_update`). The request is still there, so the
  applier starts again, takes the new build for the previous one, backs that up and goes back to it.
  The build that worked is still in the backup directory (`KnownGoodKept` in `updater`).

## What the models show beside the runs

The models also reach these; no run is spent on them, and the properties that hold are stated so
that they hold with them.

*Gateway.*

- `Unlock` can issue a grant after a lock revoked the account's grants. It admits nobody while the
  account is locked (`NoEntryWhileBarred`) and works again when it is unlocked.
- A hold that ran out is not recorded: `SetJITState` runs under the context that expired (policy.go:206).
- `PendingJITCount` has no caller, so the cap on pending approvals of one address does not exist.
- A decline at Duo comes back as an error, so `Review` records "approval channel error" and never audits
  `ActionJITDenied`.

*Sessions and factors.*

- A lock between the checks of `handleMFA` and `Promote` leaves a full session behind (auth.go:246); it
  resolves again once the account is unlocked within its lifetime.
- A new TOTP secret is in force before it was confirmed (setup.go:211, 231); the confirmation records nothing.
- A re-enrolment sets the counter to zero, so a login that verified against the old secret can claim
  its step after another has burned it. `enrollUser` and `handleEnrollStart` leave other sessions alone.
- Two deletions can both count two passkeys and remove the last factor; a count that fails lets the
  delete through (webauthn.go:185).
- The check of a sign counter and its write are separate, so two logins on one counter both succeed
  (webauthn.go:291) and a slower one moves it back, though store/webauthn.go says it only moves forward.
- Where a second factor is not required, an account whose only factor is a passkey (over RDP, also one with
  backup codes only) is let in on the password, against the comment at login.go:86-90.
- A portal login clears `ip:` and `mfa:` and never `user:`; with a password alone it clears nothing. A login of
  anybody clears the counter of its address. The sweep drops what has not reached the threshold every five
  minutes.

*Wake.* A joiner waits on the channel alone and ignores its own context (policy.go:347), so a login can
outlive its handshake timeout by the wake of another; it leaves in the end (`EverybodyLeaves`).

*Audit log and notifier.*

- Watchers run after the mutex was released, so messages may come in another order than the rows.
- The counts of dropped and suppressed events are cleared before the message that carries them is
  delivered, and are lost with it. What a command appends is never notified.
- `Append` uses the request's context; a client that hangs up can lose an entry. `Verify` does not notice
  that the newest rows were removed.

*Settings and address check.*

- Two saves at once, or one that fails or dies between `ClearSetting` and `ReplaceSettings`, can leave stored
  rows that do not validate together; adminsettings.go:222 says that takes a changed file. Every override is then
  ignored at the next start. The slower of two saves can configure the notifier with the older settings.
- Detection switched off is marked live but goes on asking until a restart (main.go:359, registry.go:112).
- `update.only_when_idle` is marked live but read from the configuration of the start; a reset of
  `update.auto_install` goes back to what was in force at the start, not to the file (update.go:108). The row
  `setup.completed` is reported as an unknown setting at each start.
- `handleNotifyTest` judges the stored settings and sends with the notifier's own.

*Updater.*

- `Apply` hashes the staged file and opens it again to copy it; a staging in between can swap it. What
  is then installed still has to stay up, or the update is rolled back (`OutcomeIsSound`).
- As root, `update install` applies a request the path unit has been started for as well; two appliers
  can back up each other's build. From the moment two are at work (`left.overlapped`) `KnownGoodKept`,
  `OutcomeIsSound` and `UndoPossible` promise nothing, and without that condition TLC finds each violated. Appliers
  that follow one another without meeting keep all three, however many there are.
- `finish` removes whichever request is there. A newer one is dropped with the older one's answer.
- `RequestApply` sets the phase after the request is on disk; if the answer is absorbed in between, the
  phase stays `applying` until the next staging.
- Without the path unit a request of the service waits for a root command. With a torn binary installed by a
  crash the path unit cannot run. After a crash in mid-update neither `UndoPossible` nor the soundness of the
  outcome is promised; both properties say so.

*Installation.*

- `cmdRestore` stops a service that is "running"; one that crash-loops is "activating", and systemd can start
  it while files are swapped. `overlapped` marks these behaviours.
- A restore cut off after it removed the log and before it wrote the database loses what was only in the log;
  one that fails after it stopped the service leaves it stopped. `WriteFile` truncates in place, so a crash
  during a backup loses the older one under that name.
- A backup of a machine with another data directory is restored into the present one, while the configuration
  that comes with it names the other (manage.go:626). Nothing compares key and database at the start.
- `revpd uninstall --yes` typed by a user is run again as root with `--yes` carried over, although the comment
  near manage.go:914 says it is not. From the menu, `errElevated` comes back to the menu, which goes on.

## What is proved

Each theorem holds for every value of the constants under the named assumptions of the modules. Those are the
types of the constants, that `None` is none of the things it stands in for, that bounds are numbers, and: the
enrolled accounts are finitely many (`SignIn`), a row of a removed setting is not in the registry (`Console`),
an archive from elsewhere was whole (`Install`). No theorem has a hypothesis of its own.

Each proof is the usual three steps: an invariant holds initially, every action preserves it (one lemma per
action or group of actions), and it implies the property.
What had to be added to make it inductive:

- `GatewayProofs`, `TypeCorrect`: `TypeOK` is not inductive, because a handler writes rows from the
  fields of its record; `TInv` adds which fields are known at which point (`Complete`) and that a
  connection has an address once it has arrived.
- `EntryPassedMFA`, `BarredStaysOut` and `WindowsBounded` share `SInv`. A connection is
  justified at each point of its handler (`Justified`): past the row it was let in by, its account and key
  are in `mfa`; past the re-read of the account, the account was seen active; past the check of access, the
  access right was seen; and the time it noted has passed. That rests on the rows being justified when they
  are written (`GrantsJustified`, `TokensJustified`, `WebJustified`), on whatever is true of accounts now
  being something a held connection could have seen (`Watching`), and, for the window, on the time in the
  record never being ahead of the clock (otherwise `ConsumeGrant` could reach too far).
- The other theorems of `GatewayProofs` look at one table at a time. `RelaySteps` sums the handler up as a route
  (`Travels`: from where to where a step goes and what it remembers), and `GrantWriters`, `RequestWriters`,
  `RowWriters` and `TokenWriters` list the only statements that touch each table. `RevocationIsFinal` needs
  that the number of a grant is not given twice (`GrantsNumbered`); `RequestsDecidedOnce` and
  `DeclinedStaysOut` where the connection a request is about can still be (`RequestsPlaced`), and that nobody
  comes back from there (`NoWayBack`). `OpenRowsAreForwarded` and `SlotsCounted` are inductive with
  the types. `Counted` includes that the holders at an address are finitely many, so nothing bounds the set of connections.
- `GatewayKeepsPromise`: `Inside` and the variables of the refinement start as `AccessPromise` says, and every
  step is one of its steps or changes nothing it speaks of (`PromiseSteps`, one lemma for each group of
  actions). Entering is permitted by `SInv`, redeeming by `TokensPlaced`: an unused token has admitted nobody,
  and its number is its connection's, which is gone by then.
- `SignInProofs`: `Typed`; `Burned`, a code of the secret in force that admitted somebody is not above the
  account's counter; `Spent`, a backup code that admitted somebody is used or gone, and no number is given
  twice; `Earned`, behind every full session, every request about to start one and every request made under
  one stands proof for that account: a secret spent, a passkey presented, or its creation in the wizard.
- `CredentialsProofs`: `CountersOK` bounds every lock by now; `RowsOwned` and `OwnerKnown` tie a passkey row, and
  what a login has read of one, to `registered`; `ChallengesOK` keeps the challenges that wait, those a login
  holds and those that admitted somebody apart; `FirstOfAll`, while the gateway is empty nobody has created an
  account; `ClearsOwn`, a request about to clear counters has proved itself and clears its own.
  `OnlyProofLifts` is an action property and rests on `ClearsOwn` and on the sweep leaving a running lock alone.
- `RDPLoginProofs`: `TypeOK`, `OneAttempt`, and for each caller `OnItsWay`, which ties its place on the
  wire to what its wake, its wait and the phone have said so far.
- `EventLogProofs`: `Chain`, every row is linked, and a writer that read the head and finds the table
  unchanged still holds the head; `NotifierOK`, the types under `Accounted`, which is inductive with them; `Rate`,
  which counts the messages sent since any earlier one together with the tokens left against the refills
  between that message and the last refill. `AuditTypeOK` and `Bounds` (the queue, the attempts of an alert, whom
  the mutex and the rows name) are inductive with them and give `TypeCorrect`.
- `UpdaterProofs`: `TypeCorrect` holds whatever happens. The three safety properties rest on `WorkInv`: as long as
  no two appliers met, at most one is at work, and a command applies only once it has staged. `UpdateInv`
  then speaks of the one at work. `Consistent` says what is so at every
  line of the applier, also where a crash has cut an earlier one off: a backup is the build
  it is named after or torn, no build has two, and each line knows what was backed up or replaced before it
  (`Phase`). Where nothing crashed, `Settled` adds that the installed file stays up or is being watched, and where
  the build the last update replaced is to be found (`UndoAt`), through pruning and the restore of a backup.
  No step of the argument uses the check of the staged file: swapping it after the check is covered.
- `InstallProofs`: `Shape`, `CommandShape`, `Kinded` and `Quiet` say which command is where and when a
  service can run beside it; `Logs`; `Brings` counts what a restore has put in place so far; `Matched`
  carries the key through it; `Seen` and `Asked` remember what a backup and an uninstall were asked for.
  `Typed` gives `TypeCorrect`: at every cut a file is missing, torn or one the commands read back.
- `ConsoleProofs`: `Shape`, `Valid`, `Unedited`; `Stored` and `InForce` follow one save through its
  statements: what the rows will be when it is through, and what it is about to apply.

Only model-checked: the liveness properties `HeldSettles`, `RequestAnswered`, `StateCatchesUp` and
`EverybodyLeaves`. They hold under fairness, which speaks of `ENABLED`, and that is out of the prover's
reach. Every other property of a passing run is the statement of a theorem. The two violation runs refute what
comments claim; nothing is to be proved there.

## Not modelled

- The RD Gateway tunnel (`internal/proxy/rdgw`): nothing in the program calls the package, and its
  `Authorizer` has no implementation, so there is no system to model it in.
- Parsers of RDP and X.224 packets, CBOR, configuration files and version strings: pure functions of their input.
  The models distinguish what their result decides.
- Cryptography: a token is a name nobody guesses, a hash the value it was made from, a signature a choice.
- Network discovery and the web interface: they only read, or keep nothing the gateway relies on.
- Listings, tables, prompts, the text of messages, and the bytes the relay copies.
- Two accounts behind one address key in `Gateway` (grants.go:74): the instance it needs, two users, two grants
  and two addresses, is beyond the bounds of the runs. The theorems of `GatewayProofs` hold for it all the
  same; which of the two grants decides is not a property.
