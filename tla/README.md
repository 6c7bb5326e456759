# A formal model of decept-agent-linux

TLA+ modules, TLC configurations and TLAPS proofs for the Linux deception agent
in `src/src`. Source paths below are relative to `src/src`.

## 1. The system

A host runs up to five kinds of process:

| process | source | what it does |
|---|---|---|
| `decept-agent` | `agent/decept-agent.go` | identifies the host, sends heartbeats, supervises the next two, watches everybody's resources |
| `decept-proxy` | `agent/proxy/proxy.go` | receives proxy strategies over Redis, starts and stops proxies, answers with a status |
| `decept-bait` | `agent/bait/bait.go` | receives bait policies over Redis, plants or removes baits, answers with a status |
| `tcpProxy` | `agent/proxy/tcpProxy.go` | one per EDGE strategy: relays a local port to a honeypot |
| relay shell | started by `StartProject` with `sh -c` | one per RELAY strategy |

They share files and no memory. There is no lock and no wait() for children:

* `conf/process-table.json`: name -> process id. Written by `StartProject`,
  `clearProcessTable` and the monitor of decept-agent; read by every process
  that wants to know whether it is still wanted (`MonitForKillSelfTask`).
* `proxy/proxy-table.json`: key -> strategy with its process id. Written by
  decept-proxy, read by every starting tcpProxy.
* the Redis channel of each manager and one channel for the answers, through a
  redigo pool of five connections that does not wait.

### Inventory

| component | state | operations | hard behaviour | correct when |
|---|---|---|---|---|
| process table (`util/comm`) | the JSON file; the kernel's process table | `ReadProcessTable`, `FlushData2File`, `StartProject`, `KillSelf`, `KillProcess` | read-modify-write without lock, truncate then write, kill of id + 1, zombies nobody waits for | an entry names a process started under that name; a successor starts only after its predecessor died |
| supervision (`decept-agent.go`) | package variable `PidTable`, local copies | `prepare`, `moduleLifecycleManagementTask`, `processResourceOccupancyMonitoring`; the modules' `MonitForKillSelfTask` | two goroutines and many processes on one file; crashes between steps | after trouble each module runs once and is recorded |
| resource guards | CPU histories per name; one window per process | `isMemOverloaded`, `isBigTooLong`, `StartMemCpuMonitor` | sliding windows, histories that outlive the process they were taken from | kills exactly those above the limit for long enough |
| decept-proxy | `proxy-table.json`, the strategy at work | `handleProxyAndCallback`, `zombieProcessClean` | tcpProxy races the write of its own strategy; ports checked early | proxies serve their key; answers tell the truth |
| tcpProxy | its strategy, its listener | start, relay of bytes, connect event | half-closed connections, peers that do not read | bytes are relayed in order; no goroutine leaks |
| Redis subscription (`redisUtil.go`) | pool, subscription, a channel of one place | `Listen`, `ListenChannel`, `PublishMsg` | lost connections, bounded pool, blocking channel | no connection leaks; strategies in order and once |
| decept-bait | the history file, the status of the policy | `handleHistBaitAndCallBack`, `insertBaits`, `handleBaitAndCallback` | rewrites a file a shell appends to; truncates it before it writes | no bait inserted again, no user command lost |
| heartbeat, identity, ssh key | `conf/agent`, `private.pem`, `public.pem` | `heartBeat`, `getAgentId`, `prepareAndUploadSshKey`, `GenAndUploadRsaKey` | two goroutines make the id at once; files are created and then written in pieces; uploads are repeated | one identity per host; the centre's key is the one on disk |
| comm messages (`SendMsg`) | a channel, a batch, one goroutine per address | `SendMsg`, `doSend` | a double-checked flag, loop variables shared by goroutines | every message gets into one batch and, in a batch of one address, is written once |
| logger (`util/logger`) | current file, counters, date; a lock | `LogWrite`, `createFreshFile`, `newFile`, `deleteOldLog` | test and write under different locks; two processes on one file; renames and opens that fail | no line lost while files are kept; files bounded; every call returns |
| zero (`util/zero`) | sessions; per connection two channels, a timer and three goroutines | `Serv`, `connectHandler`, `readCoroutine`, `writeCoroutine`, `Unicast`, `Stop` | close against send, a goroutine that waits for itself | messages are handed on in order; sessions are released. No program of the repository serves with it |

`PROJECT.json` lists the components with their status and every hazard with the
line where it bites.

## 2. Modules

```
ProcessTable            process-table.json, the kernel's processes, the shared operations
  Supervisor            decept-agent's goroutines and its modules' watchers
    SupervisorProofs        also for ResourceGuard
  ProxyManager          decept-proxy, tcpProxies, relays
    ProxyManagerProofs
ResourceGuard           the CPU and memory guards
TcpRelay                a tcpProxy at work; implements
  Pipe                      what a relay promises for each direction
    TcpRelayProofs          the refinement, too
RedisListener           listener, handler and connection pool
  RedisListenerProofs
BaitManager             history and file policies
  BaitManagerProofs
AgentIdentity           the agent's id, its heartbeat and its ssh key
  AgentIdentityProofs
FileLogger              log files and their rotation
  FileLoggerProofs
MsgSender               SendMsg, its collector and its senders
ZeroService             SocketService and Conn of util/zero
  EventLink             MsgSender and ZeroService over one network
    EventLinkProofs
MC*                     constants for TLC
```

Every module with code behind it has, for each definition, a source range in the
`map` of `PROJECT.json`. Definitions whose comment starts with "Mutant of" are
small bugs of the definition that follows them. They appear in no specification;
they serve to show that each property can fail.

### ProcessTable

State: `file` (absent, empty, unparsable, `null`, or a table), the kernel
(`status`, `owner`, `parent`, `nextPid`), and per goroutine a program counter
`pc`, the return points `ret` and `after`, and the locals of the operation under
way (`cur`, `victim`, `started`, `table`, `scratch`).

| actions | code |
|---|---|
| `Trunc`, `Write`, `FlushFail` | `FlushData2File`: open with O_TRUNC, then marshal and write; either may fail |
| `ClearRead`, `Signal`, `SignalNext`, `Killed` | `KillSelf`: `clearProcessTable`, SIGKILL of the id and of id + 1, `KillProcess` |
| `ReadStart`, `Fork`, `ForkFail`, `Panic` | `StartProject`: read, kill the recorded instance, start, enter into the map, flush |
| `Spawn`, `Exit`, `Reap` | external: the kernel. Orphans go to init, which reaps at once; other children become zombies |

Goroutines interleave between any two of these steps. Overlapping flushes write
from offset 0 each, so the tail of a longer text may stay (`Written`). A Go map
may be nil: `null` in the file is read without an error, and entering a process
into the nil map panics after the process was started.

Abstractions. One read of the file is atomic: it is far below a page, and a read
that overlaps a flush sees what a read between truncate and write sees. Process
ids do not wrap. What other programs do is limited to taking ids (`Gaps`) and
ports are only held by the agent's own proxies. Failing opens for reading,
errors of kill(2) and tables above 10000 bytes are left out. The 300 ms
`KillProcess` leaves a zombie before it waits for it are one step.

### Supervisor

Threads `Life` (`moduleLifecycleManagementTask`, after the synchronous start-up
in `prepare`) and `Mon` (`processResourceOccupancyMonitoring`), both in the agent
process. `pidTable` is the package variable that both use. `seen` and `todo` are
the range loops under way, `update` the flag that makes the monitor write.

| actions | code |
|---|---|
| `AgentStart`, `BootCreate`, `BootRead`, `BootKill`, `BootKillDone`, `BootDone` | `main`, `prepare` in modes edge and clear |
| `LifeRead`, `LifeCheck`, `LifeZombie`, `LifeStarted` | one round of the lifecycle task |
| `MonRead`, `MonOverload`, `MonFine`, `MonDead`, `MonEnd` | one round of the monitor; the verdict of `isMemOverloaded` is arbitrary, and a fault |
| `Watch` | `MonitForKillSelfTask` of a module that is not recorded |
| `ModuleExit`, `AgentExit`, `Unlucky` | crashes, failed writes, failed starts; each is a fault |

`AgentExit` also stands for the runtime's abort on concurrent use of `PidTable`.

### ProxyManager

Threads `Hand` (`main`'s loop with `handleProxyAndCallback`) and `Clean`
(`zombieProcessClean`). `ptable` is proxy-table.json, `job` the strategy at work,
`queried` the id its key was recorded with on arrival, and `kind`, `stage`,
`serves` say what each proxy process is, how far it has come and for which key
it listens.

Strategies arrive with Pid 0, as the comment at `util/comm/def.go:521` says. UN_EDGE and
UN_RELAY share one branch of the code and one type of the model. A relay runs in
a shell, which may exec it or fork it (`ShellExec`, `ShellFork`). An entry with
Pid 0 counts as absent. decept-proxy's own entry in process-table.json belongs
to Supervisor.

### ResourceGuard

`SelfSample` is one sample of `StartMemCpuMonitor`, `AgentSample` one call of
`isMemOverloaded`. The agent's histories survive the restart of a module
(`Restart`) and end with the agent (`AgentRestart`). Two history variables,
`streak` and `high`, count runs of high samples the plain way. They are what the
windows are compared with. gopsutil errors are left out.

### RedisListener

The pool (`active`, `good`, `bad`, `leaked`) is that of the vendored redigo
(`github.com/gomodule/redigo/redis/pool.go`) with the settings of `NewPool`: no Wait.
The listener is the loop of `Listen`, the handler takes messages from a channel
of one place and answers with `PublishMsg`. A `Get` on an exhausted pool returns
a connection whose every call fails (`"err"`). `TestOnBorrow` never runs, since
idle connections are dropped after 30 seconds and tested after a minute.

### BaitManager

The history file is the sequence of pieces between newlines, each piece a
sequence of commands; so a command that is typed after a bait without a newline
shares its piece. `InsertRead`, `InsertTrunc`, `InsertWrite` are `insertBaits`
and `ioutil.WriteFile`. `Type` is the user's shell. `"rest"` stands for the end
of a longer text that shows after an overwrite, or the beginning of a command. A
write that fails after the truncation (`InsertWriteFail`), or a kill in it
(`Crash`), leaves any initial part of the text (`Cuts`), or none; `InsertFail` is a
file that cannot be read or opened. History variables: `raced` has the commands
that were written during a rewrite or were in the file when one was cut short,
`torn` says whether one was, and `glued` has the baits whose line something else
continued. File policies are their four
steps, each of which may fail.

### TcpRelay and Pipe

Per connection: `pc` is the goroutine `handle`, `cp` its two goroutines of
`copy`, one per side (`client`, `honey`). `rx` is what was received and not read,
`buf` what `io.Copy` holds between its read and its write, `out` what the other
peer has got. `fds` counts the open files of the process.

| actions | code |
|---|---|
| `Accept`, `AcceptFatal` | `proxy`: an Accept that fails ends the process with `log.Fatalf` |
| `DialOk`, `DialFail`, `HandleEnd` | `handle` with its deferred Close calls |
| `ReportOpen`, `ReportFail`, `Publish` | `reportConnectEvent`, whose Redis client is a third descriptor |
| `CopyRead`, `CopyWrite`, `CopyLost`, `CopyEof`, `CopyReset` | `io.Copy` of one direction |
| `Stall` | its Write, which has no deadline, to a peer that has stopped reading for good; it ends only when that peer leaves (`CopyLost`) |
| `Connect`, `Send`, `Finish`, `Leave` | external: the peers, which may half-close, close or abort at any time |
| `Killed` | the process is stopped |

`Pipe` knows nothing of sockets. Each direction (lane) delivers a prefix of what
was sent, in order and once, and tells its receiver of a regular end only after
everything, unless the lane broke. `TcpRelay!Pipes` maps a lane to a connection
and a side: sent are the chunks of that peer, received is `out`, its end is a
peer that finished or left, and the receiver sees a regular end when the
process closes the other socket with nothing unread in it.

### AgentIdentity

`idFile`, `priv` and `pub` are conf/agent, private.pem and public.pem; each may be
absent, empty (created and not yet written, or not a whole first line) or hold a
value. `pem.Encode` writes a key in several calls: `WritePriv` and `WritePub` leave
the first part of a key (`Part`), `EndPriv` and `EndPub` complete it, and a crash or
an error may come before, between and after them. `main` calls
`getAgentId` once and then beats (`Beat`); `ssh` is `prepareAndUploadSshKey`,
which in relay mode runs beside it. `CheckId`, `CreateId`, `WriteId`, `ReadId`,
`IdFails` are `getAgentId`; `CheckKeys` to `PostLost` are `GenAndUploadRsaKey` and
the loop around it (`Failed`, `Sleep`). `EncodePanic` is the slice of
`GetBetweenStr` out of range for an empty public key; `Encode` takes what there is
of a longer one, since `GetBetweenStr` does not insist on the last line. The history
variable `torn` records that two calls of `getAgentId` overlapped, that one failed,
or that the process ended inside of one, and `cut` that the writing of public.pem was
cut short.

### FileLogger

A goroutine in `LogWrite` takes the read lock and tests (`RLock`, `Check`), tests
again and rotates under the write lock (`Lock`, `Find`, `Rename`, `Open`), and writes
under another write lock (`Write`). The tests are those of `needCreateFresh`: the
count of lines, the count of bytes with the line at hand, and the date. `DeleteOld` is
the goroutine that `createFreshFile` starts; `Restart` ends a process at any step.
Files are sets of lines; `fd` follows a file that another process renames.

| failure | code |
|---|---|
| `RenameFail` | os.Rename fails with the file still there: the full or old file is opened again and written on |
| `OpenFail` | the new file cannot be opened: the writer stays closed, the counters stay |
| `OpenBlind` | its Stat fails: it is used with the counters and the date of the old one |
| `OpenUncounted` | its lines cannot be counted: their number stays 0 |

`deleteOldLog` counts 24-hour periods from the last change. A time of the day is not
part of the model, so a file may be removed on, and may be kept for, the whole day on
which the last period ends (`Old`); an os.Remove that fails is ignored, hence any
subset of the old files goes. Left out: a Write that fails on an open file (a full
disk), a restart whose Init fails and which thus has no file logger, and the
repetition of dates (the code compares days of the month).

### MsgSender, ZeroService, EventLink

`MsgSender`: callers (`SendMsg`, `Start`, `Enqueue`), the collector (`Collect`,
`TickFlush`), the range loop of `doSend` (`Loop`) and the goroutines it starts
(`Resolve`, `Dial`, `DialFail`, `WriteMsg`, `SenderClose`). The goroutines read
`addr` and `tm` from the variables of the loop, as they are by then (`cur`). A
group is the set of its messages' places in the batch (`Group`), of which `todo`
is what is still to be written, the lowest place first. With
several addresses in a batch a goroutine may thus serve another group than its
own; what the race detector would call a torn read is one more such outcome and is
left out.

`ZeroService`: `Accept`, `Connect`, `HandleDone`, `HandleMessage`, `Cancel`, `Close`,
`Delete` are `acceptHandler` and `connectHandler` with its deferred calls,
`ReadMessage` to `ReadError` the reader, `WritePacket` to `WriteCancelled` the
writer, `UnicastLoad` and `UnicastSend` the application. A send on a closed channel
panics and ends the process (`Panic`). `heartBeat` is chosen once.

`EventLink` joins them: what `doSend` writes to the address `Home` is what the
service reads (`wire`), and the sender's Close is the end of file the service sees.

## 3. Runs

| run | bounds | properties |
|---|---|---|
| `supervisor` | 2 modules, ids 1..11, the last 8 for after the faults, gaps 0 or 1, 2 faults | `TypeOK`, `EntriesNamed`, `SpawnSafe`, `WedgeStable`, `Converges` |
| `proxy` | 2 keys on one port, ids 1..5, gaps 0 or 1, 2 strategies, 1 fault | `ServesItsKey`, `StopKills`, `DeafStable`, `Settles` |
| `guard` | 1 module and 1 key, loads around each limit, 7 kept samples | `OwnGuardExact`, `NoFalseKill`, `GuardRunsDry` |
| `relay` | 2 connections, 4 descriptors, one client of 2 chunks against 1 | `FdsAccounted`, `ReportedFirst`, `EndHeldBack`, `IsPipe`, `Arrives`, `Released` |
| `redis` | pool of 3, 4 messages, 4 failures of the network | `SlotsAccounted`, `Exhausted`, `InOrder`, `Resubscribes`, `Delivered` |
| `bait` | 2 baits, one of them of three lines, 2 commands, 3 policies, 2 crashes or failing writes | `BaitOnce`, `CommandsKept` |
| `identity` | 2 random ids, 4 pairs of keys, 2 crashes, 1 failing call | `OneIdentity`, `KeysMatch`, `IdentitySticks`, `KeysStick`, `KeyArrives` |
| `logger` | 1 process, 2 goroutines of 2 lines each, of 2 bytes and of 1, files of 2 lines and 4 bytes, 2 numbers a date, 3 days, files kept for 2, 1 fault | `Kept`, `Bounded`, `NotLater`, `TriesAgain`, `Returns` |
| `sender` | 3 callers, 2 addresses, channel of 1, batches of 2 | `PlainBatchExact`, `Dispatched` |
| `link` | 2 messages to one address, channels of 1, 1 accepted connection, 1 Unicast | `TypeOK`, `InOrder`, `Released` |

What they show:

* **EntriesNamed**: under every interleaving, lost update and crash, an id that
  is recorded under a name, in the file or in any copy, was started under it.
* **SpawnSafe**: `StartProject` forks only when the instance it found recorded
  no longer runs.
* **WedgeStable**: a crash between truncate and write leaves a file that nothing
  ever repairs: no module is started any more, across restarts.
* **Converges**: once faults and overlapping rounds stop, the damage heals. Each module runs exactly once
  and is recorded, unless the agent itself is gone (killing id + 1 may hit it)
  or the file is damaged, in which case every module ends itself.
* **ServesItsKey**, **StopKills**, **DeafStable**, **Settles**: a tcpProxy never
  serves another key's strategy although the file changes while it starts; a
  stop answered with success has killed what was recorded; a damaged
  proxy-table.json makes decept-proxy deaf for good; what strategies and faults
  leave behind is sorted out.
* **OwnGuardExact**: the window of `StartMemCpuMonitor` fires exactly with the
  sixth high sample in a row. **NoFalseKill**: the agent kills a module for its
  CPU only after five kept high samples in a row. **GuardRunsDry**: and only with
  the fifth or sixth sample since the agent started.
* **SlotsAccounted**, **Exhausted**, **InOrder**, **Resubscribes**,
  **Delivered**: reconnecting and answering lose no connection; a first Subscribe
  that fails loses one, and after five of those the process stays deaf and mute;
  strategies are carried out in order and once; the listener returns to a
  subscription; what arrived is carried out unless the network fails.
* **BaitOnce**: a bait is in the history file at most once until something else
  continues its line, and at most once as a line of its own unless a write was cut
  short. It is *not* inserted only once: with RandomLine "no" the file ends without a
  newline after the bait, the next command the shell appends is glued to it, and the
  same policy then inserts the bait again, since `insertBaits` looks for a whole line.
  **CommandsKept**: a user's command is lost only when it was typed during a rewrite,
  or was in the file when a write failed or decept-bait died in one.

* **IsPipe**: `TcpRelay` implements `Pipe`: each direction of each connection is
  relayed in order, once and without a gap, and no regular end overtakes data.
  **Arrives**: what one peer sends arrives whatever the other direction does, as long
  as its own receiver reads: a direction that is blocked holds up only itself.
  **FdsAccounted**, **Released**: no path through `handle` leaks a descriptor, and
  when both peers have ended both sockets are given back, unless one of them has
  half-closed, stays, and does not read what is written to it; then they are as soon
  as it leaves. **EndHeldBack**: the end
  of one side is *not* passed on while the other is open, since `copy` never
  half-closes; a peer that waits for the end of the other one waits for ever.
  **ReportedFirst**: nothing is relayed before the connection was reported or the
  report failed.
* **OneIdentity**: heartbeats, uploads and the modules use one id, except after the
  disturbances that `torn` records. **IdentitySticks**: whatever conf/agent then
  holds it keeps, an empty id included. **KeysMatch**, **KeysStick**, **KeyArrives**:
  the centre never has a key but the one in public.pem, which belongs to the private
  key on disk, except that a public.pem whose writing was cut short is uploaded as far
  as it goes and stays the agent's key; a pair left without a public key stays so for
  good; any other gets to the centre.
* **Kept**: rotations, failing calls, restarts and `deleteOldLog` lose no line that
  was written until MaxDays times 24 hours may have passed, with one exception: an old
  file that could not be renamed is opened again, and the `deleteOldLog` of that very
  rotation may remove it while it is written. **Bounded**: a file grows beyond its limit
  of lines only by the goroutines that had passed the test, unless the numbers of its
  date ran out or a rename failed. **NotLater**: a file holds no line of a later date,
  unless the numbers of its date ran out or the Stat of its successor failed.
  **TriesAgain**: after a failed open the next line that is at least as long as the one
  that asked rotates again, except when that one was older than the file. A shorter
  line may pass the test of the size and is then lost. **Returns**: no call waits for
  ever.
* **PlainBatchExact**: in a batch of one address each message is written at most
  once, to its address and in order. For mixed batches the code guarantees nothing.
  **Dispatched**: every message gets into a batch.
* **InOrder** (of `EventLink`): `onMessage` sees a prefix of what `doSend` wrote on a
  connection. **Released**: a session whose peer has closed is released, although
  reader and writer may both be blocked, unless the service has stopped or panicked:
  a send to the closed `sendCh` is possible, and after Stop sessions may stay.

Runs that are expected to fail, each on one property that states what a comment
of the code says:

| run | property | shows |
|---|---|---|
| `supervisor_escape` | `NoEscape` | without any fault a live module drops out of the table, since the monitor writes back a stale copy |
| `logger_overwrite` | `NumberAvailable` | two processes that rotate one log file at once choose the same number, and the second rename replaces the file of the first |

The models show further behaviour that a reader of the code may not expect and
that no run states as a property of its own: `KillSelf` clears the entry before it
kills (`ClearRead` precedes `Signal`); decept-proxy answers with success before
proxy-table.json is written, hence also for a tcpProxy that finds no entry and
exits; a stop is answered with success although the relay behind the recorded
shell may run on (`ShellFork`); a module above 15 percent is logged as "Exit
Now!!!" (`agent/decept-agent.go:357`) and spared (`CpuOverloaded`).

Modules other than Supervisor and EventLink state a `TypeOK` (`STypeOK` in
MsgSender) as the ground of their invariants; it holds under the same
configurations and is not listed there, because their other properties say more.

### Why the bounds are enough

Two modules or keys are the least that can be mixed up, or kill each other
through id + 1. Gaps 0 and 1 give both cases of id + 1: it is the sibling, or it
is not. In `supervisor` three ids, the agent and two modules, are there before
faults stop; `Converges` needs the eight others, as one collateral kill costs
another restart and gaps use up ids. Five ids in `proxy` are decept-proxy, two
proxies, a relay's child and one more. With ids exhausted a
fork in ProxyManager fails, as it does on a real host. Two faults allow a crash
while the damage of another is still unrepaired. Seven samples pass
the lengths five and six at which `isBigTooLong` can answer TRUE. A pool of three serves
listener and handler and still has one to lose. `MaxDrops` exceeds `MaxActive`,
so that exhaustion happens.

Four descriptors let one connection come up with its report and starve the other
at every point, `AcceptFatal` included. Two chunks against one are the least for
an order and for two directions that differ; the second connection only competes
for descriptors, since connections share nothing else. Two crashes allow a crash
during the repair of another one, two faults in `bait` a second one on what the first
left of the file, and four pairs are more than the generations
they permit. With files of two lines or four bytes and lines of one or two bytes either
limit is met first, a shorter line passes where a longer one asks for a rotation, and
two numbers a date run out with four lines; three days exceed by one the days a file
is kept. Three callers and batches of two give mixed batches, full batches and
batches the ticker ends. In `link` one connection carries both messages of a
batch, with every channel at its limit; connections share no state but the table
of sessions.

Deadlock is checked in `redis` and `identity`. In the others the bounds end every behaviour.

### Fairness

* Every goroutine and process is scheduled: weak fairness of each one's steps. The
  proxies of ProxyManager share one condition; each takes a few steps only, so
  none can starve another.
* `CalmDown` is fair: `Converges` is about what happens after the last fault. It
  also ends the races of the two loops: from then on a round of one starts only
  while the other sleeps, as rounds of milliseconds every 5 and every 30 seconds
  normally do. Before it, rounds overlap at every step.
* `LifeRead` and `MonRead` are strongly fair, since after `CalmDown` each is
  enabled only between two rounds of the other: both loops sleep and come round
  again, so neither is overtaken for ever.
* In TcpRelay `handle` and both directions of `copy` are fair, and nothing is assumed
  of the peers: they may neither send, end, leave nor read. A write to a peer that
  has room or has gone returns; one to a peer that has stopped reading may wait for
  ever (`Stall`, which is not fair, disables the fair `CopyWrite`). Dial and the Redis
  client have time limits.
* In AgentIdentity an upload that is tried for ever succeeds at last (strong
  fairness of `Post`); crashes and failing files are not fair.
* In FileLogger and MsgSender calls that were made go on; a ticker ticks.
* In EventLink only handlers and readers are fair. A writer that waits for itself
  and a sender that never closes are thus allowed.
* Nobody has to start decept-agent or decept-proxy, send a strategy, type a
  command, or repair the network: no fairness of those. `Resubscribes` assumes a
  network that stays up.

## 4. Proofs

All theorems hold for every value of the constants that satisfies the named
assumptions: any set of modules, any number of ids, gaps, faults, connections,
messages, writers or keys. Every safety property of the passing runs is proved;
most of those of FileLogger under a hypothesis that is given here.

| module | theorem | statement |
|---|---|---|
| `SupervisorProofs` | `TypeCorrect` | `Spec => []TypeOK` |
| | `EntriesAreNamed` | `Spec => []EntriesNamed` |
| | `SpawnIsSafe` | `Spec => []SpawnSafe` |
| | `WedgeIsStable` | `Spec => WedgeStable` |
| | `OwnGuardIsExact` | `GuardAssumption => (guard!Spec => guard!OwnGuardExact)` |
| | `NoModuleFalselyKilled` | `GuardAssumption => (guard!Spec => guard!NoFalseKill)` |
| | `GuardGoesDry` | `GuardAssumption => (guard!Spec => guard!GuardRunsDry)` |
| `ProxyManagerProofs` | `TypeCorrect` | `Spec => []TypeOK` |
| | `ServesTheRightKey` | `Spec => []ServesItsKey` |
| | `StoppedIsDead` | `Spec => []StopKills` |
| | `DeafForEver` | `Spec => DeafStable` |
| `TcpRelayProofs` | `TypeCorrect` | `Spec => []TypeOK` |
| | `NoDescriptorLeaks` | `Spec => []FdsAccounted` |
| | `NothingUnreported` | `Spec => []ReportedFirst` |
| | `EndsAreHeldBack` | `Spec => []EndHeldBack` |
| | `RelayIsPipe` | `Spec => IsPipe`, the refinement |
| `RedisListenerProofs` | `BooksBalance` | `Spec => []SlotsAccounted` |
| | `DeafWhenExhausted` | `Spec => []Exhausted` |
| | `CarriedOutInOrder` | `Spec => []InOrder` |
| `BaitManagerProofs` | `TypeCorrect` | `Spec => []TypeOK` |
| | `CommandsStay` | `Spec => []CommandsKept` |
| | `BaitsAreSingle` | `Spec => []BaitOnce` |
| `AgentIdentityProofs` | `TypeCorrect` | `Spec => []TypeOK` |
| | `IdentityIsOne` | `Spec => []OneIdentity` |
| | `SettledIdSticks` | `Spec => IdentitySticks` |
| | `CentreHasOurKey` | `Spec => []KeysMatch` |
| | `PairSticks` | `Spec => KeysStick` |
| `FileLoggerProofs` | `TypeCorrect` | `Spec => []TypeOK` |
| | `OpensAgain` | `Spec => []TriesAgain` |
| | `NothingLost` | `(\E p : Alone(p)) => (Spec => []Kept)` |
| | `NumbersAreFree` | `(\E p : Alone(p)) => (Spec => NumberAvailable)` |
| | `DatesAreRight` | `(\E p : Alone(p)) => (Spec => []NotLater)` |
| | `FilesAreBounded` | `(\E p : Alone(p)) => (Spec => []Bounded)` |
| `EventLinkProofs` | `PlainBatchesAreExact` | `SSpec => []PlainBatchExact` |
| | `TypeCorrect` | `Spec => []TypeOK` |
| | `HandedOnInOrder` | `Spec => []InOrder` |

Each proof has the same outline: an inductive invariant, a lemma that `Init`
establishes it, one that every step keeps it, with one case per action, and a
last temporal step. What the invariants add to the properties:

**Supervisor.** The inductive invariant `IInv` is the conjunction of `TypeOK`,
`Control` (which return points a program counter may have, and that both threads
run in the agent or not at all), `FreshIds` (ids from `nextPid` on have never
been used), `EntriesNamed`, `SpawnOK` and `FileOK` (a damaged file records
nothing). `EntriesNamed` alone is not inductive: `StartProject` enters the
id it gets from the kernel into a map it read earlier, and this is harmless only
because the id is fresh, so that no copy can hold it under another name.
`SpawnOK` adds to `SpawnSafe` what holds on the way to the fork, namely which
process is to be killed, and that after the kill it is dead. Deaths are final
since an id is used once.

`WedgeStable` is an action property. With `IInv`, a wedged state has no goroutine
at a program counter from which a flush is reached without another read of the
file, and each read of a damaged file leads to a program counter of the same
kind. It takes one step per action.

**ResourceGuard.** `SupervisorProofs` instantiates it for the supervisor's modules
(`guard`); `GuardAssumption` repeats what ResourceGuard assumes of its constants.
`GuardInv` says that the window and the history have the run of high samples at
their end that the plain counts `streak` and `high` say, neither more nor less
(`LatestRun`), and that a process with six in a row has ended. `RunAppend` and
`RunTail` show that a new sample and the cut at six places keep this.

**ProxyManager.** `Typed` adds to the types which strategy is at work at which
program counter (`Control`) and that ids are used once (`Programs`). `Owned`: an
id in proxy-table.json, or in the copy decept-proxy is about to write, was started
for its key. So it does not matter which version of the file a starting tcpProxy
reads. `Known`: all ids that are written down anywhere are older than `nextPid`,
hence the dead stay dead. `Doomed`: the recorded process is dead from the first
signal of `KillSelf` to the answer.

**TcpRelay.** `FdsInv` counts: the connections that hold at least one, two or three
descriptors are finite sets, and a step moves one connection in or out of them by
exactly the number of descriptors it opens or closes. `EndInv` adds to
`EndHeldBack` what the place of a connection says about its sockets (`Places`) and
why a goroutine of `copy` has ended (`Overs`). `PipeInv` adds `Flow`: as long as the
receiver is there, `out`, `buf` and `rx` one after the other are the chunks 1, 2, ...
up to `sent`; once it has gone, `out` is still a prefix. With it each action of
TcpRelay is, for each lane, a step of `Pipe` or a stutter.

**RedisListener.** `Balance` is `Counts` (the counters are natural numbers within
the pool's size), `Holding` (neither goroutine asks for a connection while it
holds one, and a subscription has a working connection) and
`SlotsAccounted`. `Exhausted` follows by arithmetic from `Balance`. For `InOrder`,
`Queues` says that each place a message passes (wire, listener, channel,
handler) is in order, and that a later place only holds older messages.

**BaitManager.** `Kept`: a command is in the file unless the file is being
rewritten, and then in the text that is about to be written. `Single`: the file and
that text have each bait at most once as a line of its own as long as no write was
cut short; and a bait that nothing has continued is at most once in them, and only as
a line of its own, whatever was cut short. So `insertBaits`, which looks for whole
lines, finds every such bait. `BaitAssumption` says what a bait is made of: its first
line is its own and its further lines hold no other bait, as in the bait of several
lines that the code builds itself (`alibaba`). A custom bait may be any text; one with
a further line that reads like the first line of another bait is left out.

**AgentIdentity.** `KeysInv`: how much of the pair a generation under way has
written; a public key with contents is that of the private key, or its first part
while its writing is under way or after it was cut short; after an upload nothing is
generated. `IdInv`: as long as `getAgentId` is undisturbed (`~torn`), at
most one goroutine makes the id, nobody has seen one by then, and whoever has one
has that of conf/agent. The two action properties follow step by step from the
types alone.

**FileLogger.** `Common` is types, dates that do not exceed today's, and the locks: a
goroutine rotates exactly while it holds the write lock of its process, and its line
still asks for the rotation. This and `Retries` give `TriesAgain`, for any number of
processes: what asked for a rotation with a line of some length asks again with the
same length, since a failed open leaves the counters alone. The others hold for one
process that keeps files for more than a day (`Alone`; 7 or 2 days as configured). With two,
one overwrites the files of the other (the run `logger_overwrite`); with MaxDays 0 or 1
`deleteOldLog` may remove the file that is written to, at midnight. `Files`: which of
the log file and the descriptor exist at each step of a rotation, that a descriptor
without a file comes from a rename that failed, and that the number found is still
free. `Ages` and `Sweeps`: the clean-up does not reach the lines that are to be kept.
`Stamped`: a line that is later than its file is there because the numbers of that date
ran out or a Stat failed. `Sizes`: there is room
below the limit for every goroutine that has passed the test and not yet written. The
set of goroutines is finite (`LogAssumption`); else the limit would say nothing.

**MsgSender and EventLink.** `SenderInv` is the types and how the variables hang
together (`Linked`). `Once`: a message is in one place, the channel, the collector
or one batch. `Exact`: for a batch of one address the range loop takes one round, so
that the variables its goroutine shares with it never change again, and what
this goroutine has written and has still to write are the batch. Nothing of the
kind holds for a mixed batch. `ServiceInv` types the service; `Flow`: what onMessage
has seen, what is in `messageCh`, what the reader holds and what is on the wire are
together what was written.

**Only model-checked.** Liveness under fairness is beyond the prover: `Converges`,
`Settles`, `Resubscribes`, `Delivered`, `Arrives`, `Released` (of TcpRelay and of
EventLink), `KeyArrives`, `Returns`, `Dispatched`. The bounds of the runs are what is
known about these.

## 5. Not modelled

* `HttpPost`, `HttpDownload`, `Unzip`, MD5, `FlushAgentConfig`: plain I/O without a
  state of their own. Their results are the success or failure of the steps that
  call them.
* Machine id (`util/uuid`): parses the DMI tables.
* Logger: formatting, levels, and the console and socket adapters; a Write that fails on
  an open file; a restart whose Init fails.
* zero: the byte layout of a frame and its checksum, the settings of a session.
* Fields that are only sent along: `getIp`, the host name, `ipSelect`.
* Reuse of process ids, after wrap-around or reboot: a recorded id may then
  belong to another program.
* Size: `ReadFile` and `ReadProxyTable` read into 10000 bytes (`util/comm/def.go:199`) and
  panic for larger tables.
* `agent/bait/bait.go:121`: a history policy that is not enabled gets no answer. The model
  drops it as the code does; nothing says that it is to be answered.
* `util/logger/file.go:171`: the logger compares days of the month, so a process
  that logs nothing for a whole month does not see that the date has changed.
* Supervisor and ProxyManager on one process-table.json. Each is checked with its
  own two threads on the table; the product of both state spaces is out of TLC's
  reach at the bounds the properties need. What one loses of the other's entries
  is of the kind `NoEscape` shows for the two threads of decept-agent.

## 6. Plan

1. The composition of ZeroService with several senders at once (`EventLink` has one
   address): that `InOrder` holds per connection does not depend on it, but the
   order in which connections are accepted does.
2. Supervisor and ProxyManager on one process-table.json: TLC cannot reach the
   product, the prover can. `EntriesNamed` is the property to prove of it first.
3. What the proofs of Supervisor and ProxyManager share about ProcessTable as a
   module of lemmas of its own.
