# A verification project for ppass

TLA+ specifications of `ppass`, the small platform-as-a-service in this repository,
with the TLC runs that check them and the TLAPS proofs about them. Paths below are
relative to the repository; `nm` stands for `network/network_manager.go`.

## 1. Inventory

`ppass` is a command line program. There is no daemon: every `create`, `delete`,
`cleanup` or `list` is a process of its own that ends after a second or so, and
nothing keeps two of them from running at the same time. All state is outside of the
program.

| Component | State | Operations | Code |
|---|---|---|---|
| IP address management | the prefix 10.0.0.0/24 and its allocated addresses in Redis, kept by the go-ipam library; an in-memory prefix per process when Redis is unreachable | `GetIpam`, `GetIp`, `ReleaseIp`, `GetOrAcquireEnvoyIp` | `nm:271-382` |
| Workload life cycle | the registry in Redis (`service:<name>`, `database:<name>`: pid, fragment path, address), the processes of the host | `runCreate`, `CreateService`, `CreateDatabase`, `deleteProcess` | `cmd/create.go`, `cmd/delete.go`, `parser/service.go`, `parser/db.go` |
| Envoy gateway | fragments in `/etc/envoy/conf.d`, `/run/envoy-paas.yaml`, `/run/envoy-paas.pid`, the Envoy process | `UpdateLbConfig`, `StartEnvoy`, `StopEnvoy`, `FindPidForEnvoy` | `parser/lb_parser.go`, `nm:210-234`, `nm:384-468`, `utils/network.go` |
| Bridge and veth links | `br0`, the host ends of the links, the interfaces and iptables rules in every network namespace | `CreateBridge`, `ConnectProcessToBridge`, `configureInterfaceInNamespace` | `nm:43-164`, `nm:470-577` |
| cleanup | the `v-*` interfaces of the host | `runCleanup` | `cmd/cleanup.go` |
| cgroups | membership and limits | `Service.cg`, `Database.cg`, `moveProcessToEnvoyCgroup` | `parser/service.go`, `parser/db.go`, `nm:236-269` |
| Container init | the shared `rootfs`: its `app` mount and `.oldroot` directory | `RunContainerInit`, `pivotRoot` | `parser/service.go:19-57` |
| PostgreSQL bootstrap | the data directory, which outlives the workload | `execPostgreSQL` | `parser/db.go:68-115` |
| list | none | reads and prints the registry | `cmd/list.go` |
| Manifests | none | YAML parsing | `parser/service_parser.go`, `parser/db_parser.go` |

How they interact: `create` takes an address, then (for a load-balanced service)
writes the fragment, renders all fragments and restarts Envoy, then starts the
workload, connects it to the bridge and writes the registry. `delete` reads the
registry, releases the address, kills the workload, stops Envoy, removes the
fragment, starts Envoy and removes the entry. Starting Envoy claims 10.0.0.1 in the
pool and connects Envoy to the bridge.

What is hard: commands interleave at every access to Redis, to a file or to a
process; most errors are logged and the command goes on; a command may die between
any two steps and be repeated; pids are remembered in Redis and in a file and may
have been reused; Redis may be unreachable for one access and answer the next. The
hazards are listed, each at its line, in `PROJECT.json`; those that bite in the code as
it is, and that no property can therefore rule out, say so there.

What makes the components correct:

* addresses: no two workloads have the same one; none is lost, or only where the code
  gives up; the gateway's and the bridge's own addresses are not given to workloads; no
  update is overwritten;
* life cycle: a running workload is recorded and a recorded one runs; delete ends a
  workload before it forgets it, and can be repeated;
* gateway: one Envoy that serves, found through the pid file, whose routes are those
  of the recorded services;
* links: a process that is to be connected is attached to the bridge with its address
  and firewall, and connecting another one does not disconnect it;
* container init: a service sees the files of the rootfs and its own directory, and
  none of the host, although many inits share one rootfs;
* data directories: initialised once and completely, served by one server, with the
  rule that lets the bridge's subnet in, and never emptied;
* everything a command starts comes to an end.

## 2. Modules

| Module | What it is |
|---|---|
| `AddressLease` | the abstract specification of address management: a holder is granted an address nobody has, in one step, and returns it |
| `Connection` | the abstract specification of connecting: a process is connected once, by its command, and until it ends |
| `DataDirectory` | the abstract specification of a data directory: initialised once, served by one server at a time, kept |
| `Ipam` | the real allocator: concurrent processes, each in the middle of `GetIpam` and one of `GetIp`, `ReleaseIp`, `GetOrAcquireEnvoyIp`, over go-ipam's optimistic updates |
| `Paas` | the life cycle of workloads: `create`, `delete` and `cleanup` step by step, over registry, address pool, processes, Envoy's files and pid file |
| `Bridge` | how a process is connected to `br0`, netlink call by netlink call, with interface names, concurrent commands and `cleanup` |
| `ContainerInit` | how a service gets its root file system: concurrent inits on the one shared rootfs |
| `Database` | how a database gets its server: `initdb`, `pg_hba.conf` and the lock file of a data directory that outlives the workload |
| `IpamProofs` | theorems about `Ipam` |
| `PaasProofs`, `PaasAddressProofs`, `PaasConcurrentProofs`, `PaasSequentialProofs` | theorems about `Paas`, each module a layer on the one before |
| `BridgeProofs`, `ContainerInitProofs`, `DatabaseProofs` | theorems about those modules |
| `MCIpam`, `MCPaas`, `MCBridge`, `MCContainerInit`, `MCDatabase` | symmetry sets, names and manifests for TLC |

`Paas` is where the components meet. What is a single step there is a module of its
own: taking and returning an address is `Ipam`, connecting a process is `Bridge`,
the container's init is `ContainerInit`, starting a database is `Database`. The
modules are tied by the abstract specifications that they implement:

* `AddressLease`: `Ipam` implements it with the library's reads and writes, `Paas`
  with the lease of a name passing from command to entry and back.
* `Connection`: `Bridge` implements it netlink call by netlink call (`Reachable` and
  `BeingConnected` say what is connected and what is about to be), and `Paas` with
  one step for all calls. This is why `Paas` may leave the calls out: whatever other
  commands do in between, the last missing call of its own command connects a
  process, and nobody but `cleanup` disconnects it.
* `DataDirectory`: `Database` implements it with `initdb`, the lock file and servers
  that may be cut off. This is why `Paas` may start a database without looking at its
  directory.

### Ipam and the code

`Call` enters one of the operations. `Probe` is the 200ms ping of `GetIpam` with the
fallback to memory; `PrefixFrom`, `NewPrefix` and `ReserveBridge` are its three
library calls; `AcquireIP`, `ReleaseIp` and `AcquireEnvoyIp` are the library calls
of the three operations. go-ipam itself is not in the repository and is modelled
from its use: an operation reads the prefix (`ReadPrefix`), computes, and writes
back if the prefix has not changed since (`Commit`); otherwise it starts over, a
bounded number of times (`Conflict`, `MaxAttempts`). The versions that the library
compares are abstracted to the set `stale` of processes whose copy is outdated.
Creating the prefix is taken to be atomic; it fails if the prefix exists, with one
of two errors of which `GetIpam` tolerates one. `lease` is a history variable: the
address that each workload has been told. The in-memory branch is one step, because
nobody else sees it.

### Paas and the code

`cli` holds, for every command slot, where the command is and its local variables; a
slot is reset when the command ends. Every other variable is state that outlives
commands. One action stands for one access to shared state with the code around it,
in the order of the code; `StartEnvoy` is shared by `create` and `delete`, and
`AfterEnvoy` returns to the caller. A manifest is a record.

`GetIp`, `ReleaseIp` and the allocation in `ConnectEnvoy` are single steps that take
effect or give up. That one which takes effect is a single step is what `LeaseSpec`
and the theorem `Refinement` say of the steps in `Ipam`. They give up, as there,

* when the library's attempts are used up by conflicts, which is no fault and can
  happen whenever another command is in progress (`Contended`; how many attempts there
  are, and whether that command is at an update of the prefix right then, is left
  open). Not looked at is the conflict with a `create` of an unknown type alone, which
  is one step here;
* when the pool is exhausted, or, for `GetIp`, with 10.0.0.1 instead of an error, when
  Redis does not answer the probe;
* when Redis goes away between the probe and the answer, before or after the update
  has been made: a fault. `StartEnvoy` then leaves Envoy unconnected if it was `GetIpam`
  that failed.

`create` goes on with an empty address, and `delete` with an address that stays
allocated.

SIGTERM makes Envoy and PostgreSQL shut down (`stopping`) and they exit some time later
(`Stops`). No command waits for that: `delete` does not wait at all, and removes the
pid file, and the 100ms of `StartEnvoy` make sure of nothing, so that the old and the
new Envoy overlap in the model as they do in reality. A service does not react to
SIGTERM: it is PID 1 of its namespace and installs no handler. A service with an empty
address leaves a configuration with an empty socket address (`service.go:175`), on which
Envoy exits as soon as it has started (`Valid`, `SpawnEnvoy`); the command does not
notice.

Abstractions: a process that has exited stays a zombie, its pid taken, until the command
that started it ends (`Held`). Reading all fragments is one step, and so is connecting a
process to the bridge. Two writers of the configuration file do not mix bytes: the later
one wins.

Bounds: `MaxFaults` bounds crashes of commands, Redis outages, exiting processes and
failures to start Envoy. `Pids` is finite; a command is started only if there is a
pid for everything it may start (`Room`), so that no step fails only because the
instance is small. Where this can keep all commands from starting, the configuration
turns the deadlock check off: nobody has to start a command. `OnePerName` says that
the user runs the commands for one workload one after the other and does not create
a name that exists; `Cleanups` says whether `cleanup` is run.

### Bridge and the code

A link is a veth pair, identified by the workload and process it was made for, which
no code sees: it is created, looked up and deleted by `Name`, nine characters of the
workload's name (`Prefix`) and the pid modulo 1000 (`Residue`), and used by its
index once found. `inner` says where the inner end is: in the host's namespace, in a
process's, or in one that is gone, whose interfaces the kernel deletes some time
later (`NamespaceGone`).

`FindBridge`, `AddBridge` and `UpBridge` are `CreateBridge`; a service's command
calls it before the process is started, a database's and Envoy's afterwards. A service
that is not load-balanced (`Unlinked`) is started and left without a link
(`service.go:112`).
`ClearLinks` to `MoveLinkToPID` are `ConnectProcessToBridge`, `Configure` and
`AddRules` are `configureInterfaceInNamespace`. An error ends the command's
connecting, and the command goes on to its end, because all callers only log it.
Calls that follow each other without anybody able to tell them apart are one step:
`LinkSetUp` and `AddrAdd` of `br0`; the two `LinkByName`; the lookups and deletions
of the two ends of an old link; `LinkSetMaster` and `LinkSetUp` of the outer end;
address and `LinkSetUp` of the inner end; the iptables calls. `RunCleanup` takes the
list of interfaces, and `Unlink` deletes one of them by name.

Constants: `Collisions` says whether a process may get interface names that those of
a running process have; `MaxFaults` bounds commands cut off and runs of `cleanup`. A
pid is not used again while a command still refers to a link made for it, since an
index is never reused.

### ContainerInit and the code

`mounts` is a mount namespace per init, what `CLONE_NEWNS` gives it (`Ns`);
`oldroot` is the one directory on the disk that all of them create and remove.
`BindApp` is creating `rootfs/app`, the mount of the service's directory on it, and
the mount of `rootfs` on itself; nothing else looks at these in between.
`MkOldroot`, `PivotRoot`, `Detach` and `RemoveOldroot` are `pivotRoot`, `MountProc`
and `Exec` the rest of `RunContainerInit`. Errors that the code ignores leave the
state as it is. The kernel's rules are external: `pivot_root` needs the directory;
`rmdir` fails on a mount point of the own namespace and detaches what others have
mounted there. The model is about hosts whose mounts are private; where they are
shared, `pivot_root` returns `EINVAL` and no service starts at all, because the code
does not make its own copy private.

### Database and the code

`data` is how complete a data directory is, in the order in which `initdb` makes the
files that the code looks at: directories, `PG_VERSION`, `pg_hba.conf`, all. Its
further stages make no difference to the code. `RunInitdb`, `InitdbReturns`, `AddRule` and
`StartServer` are `execPostgreSQL`; `WaitForNs` and `JoinCgroup` are the calls that
can end the create after the server has been started. `InitdbStep`, `InitdbFails`
and `InitdbKilled` are `initdb`, `ServerUp` and its siblings the server, both
external: a server starts on a complete directory whose lock file names no other
live process, and reads `pg_hba.conf` then. `ServerKilled` is what `delete` does,
and leaves the lock file behind; it may leave backends, too (`lingering`).

Constants: `Overlaps` says whether a name may be created while an earlier create of
it, its `initdb` or its starting server is still at work; `MaxFaults` bounds
processes cut off.

### Fairness

A command in progress takes its next step (`WF_vars(Step(c))`): it is an ordinary
process, and every call it makes is a system call or a Redis command with a timeout.
An init does, too, and so do `initdb` and a starting server in `Database`. The
kernel gets round to deleting the interfaces of a namespace that is gone, and the
backends of a killed server end. Nothing is assumed of the user, who need not start
any command, of Redis, which need not come back, or of crashes.

## 3. Runs

Passing:

| Run | Instance | Shows |
|---|---|---|
| `ipam_exclusive` | 3 processes, 3 host addresses, one of them the bridge's | `TypeOK`; `LeasesExclusive`; the allocator implements `AddressLease` (`LeaseSpec`). Three processes are enough for a writer to be overtaken by two others, and two free addresses for the pool to run out |
| `ipam_outages` | 2 processes, Redis toggles freely | what outages cannot do: `AllocationsPersist`, no lost update; `SharedIsFirst`, only the first address of the pool is ever given twice; `BridgeKept`, the bridge's address stays reserved. `CallsReturn` |
| `paas_sequential` | one command at a time; two load-balanced services and one that is not; 5 pids; 3 host addresses, of which the bridge has one and the gateway claims one, so that the pool runs out and Envoy refuses a configuration; cleanup | everything agrees between commands: addresses (`WorkloadAddressesDistinct`, `AddressesAccounted`), registry and processes (`RecordsLive`), the one Envoy that serves and its pid file (`GatewaySingle`), routes (`WorkloadsRouted`). Five pids are three services and two Envoys; a refused Envoy gives its pid to a service |
| `paas_concurrent` | 2 commands at a time, two databases, 4 pids, 3 host addresses, of which the bridge has one | `LeasesAllocated` and the refinement of `AddressLease` across command, pool and entry (`WorkloadLeases`); `LostOnlyToConflict`: an address is lost only by a release that gives up for conflicts with the other command, which is why `AddressesAccounted` fails here; `WorkloadsTracked`; `SharedOnlyBeforeKill`: two running workloads share an address only between `ReleaseIp` and the kill of a delete; and the refinement of `Connection` (`ProcessesConnected`). A `delete` restarts Envoy also for a database: four pids are two databases, an Envoy and the one that replaces it. Concurrent commands with load-balanced services and cleanup are in the theorems, which are about any manifests, and, for the links, in `bridge` |
| `paas_faults` | two faults per behaviour; a service, a database, a technology that is not implemented; 3 pids, 2 host addresses, so that the pool runs out; cleanup | `DeleteNeverOrphans`: two faults are a delete cut off and something that goes wrong in its repetition; `ProcessesConnected`: only a fault or cleanup keeps a process from being connected |
| `paas_end` | one fault per behaviour; a service with a configured server, a database, an unknown type; 4 pids, 2 host addresses | `CommandsEnd`; `DeleteCompletes` |
| `bridge` | 2 commands at a time; a load-balanced service, one that is not, and the gateway (the two orders of bridge and process, and a process without a link); 2 pids; one command cut off or one run of cleanup | `ConnectedWhenDone`, `BridgeReady`, `LinksLeftAlone`, `CleanupRemovesHanging`, and the refinement of `Connection` (`ProcessesConnected`). Two pids are enough for one to be used again while the links of its first process are still there |
| `container_init` | 3 inits at a time, one killed; a directory, `/app`, and a path that the host does not have | `HostHidden`, `AppOwn`, `OldrootRemoved`, `AloneSucceeds`. Three are enough for one init to remove the directory that a second has just found and a third has its old root on |
| `database` | 2 creates at a time, 2 databases, 3 pids, one process cut off | `DataKept`, `OneServer`, `RemoteAccess`, `CreateServes`, and the refinement of `DataDirectory` (`DirectoriesKept`). The second database is what a pid in a lock file may belong to by now |

Violated, each by what the code does; the findings in `PROJECT.json` quote the line
of the repository that says otherwise:

| Run | What happens |
|---|---|
| `paas_release_before_kill` | a `create` inside a `delete` gets the address of a process that still runs |
| `paas_stale_route` | after `delete` Envoy is restarted on the old configuration |
| `init_script` | Python is started with the path of the script on the host, which the container does not have, unless the script lies in `/app` there, too |

Every property of a passing run has a mutant of a mapped definition that breaks it
(`PROJECT.json`, `mutants`; the operators marked "Mutant of" in the modules).

## 4. What else the models show

These follow from the modules as they stand; a constant of an existing configuration
has to be changed to see them, and no run is kept for them.

Addresses (`Ipam`):

* A workload can be given 10.0.0.1, as long as no Envoy has claimed it
  (`README.md:80` reserves it), and 10.0.0.254, if the process that created the
  prefix dies before it reserves the bridge's address (`nm:316`): no later command
  makes up for it.
* On a new host the first load-balanced service shares 10.0.0.1 with Envoy.
* A release that conflicts with another command until the library gives up loses the
  address: `delete` only logs the error and removes the entry (`nm:334`,
  `delete.go:33` and `67`). `AddressesAccounted` in `paas_concurrent` fails for it, and
  `LostOnlyToConflict` says that nothing else loses one without a fault. In the same way
  a `create` gives up, and goes on with an empty address although there are free ones.
* If Redis goes away after `AcquireIP` has written and before it has answered, the
  address stays allocated and nobody has it.
* With `Outages = TRUE`, `LeasesExclusive` fails, because every process that cannot
  reach Redis starts from an empty pool in its own memory. `SharedIsFirst` says how
  far that goes.

Life cycle (`Paas`):

* A `delete` that is cut off after `ReleaseIp` leaves a workload on an address that
  is free (`paas_sequential` with `MaxFaults = 1`: `AddressesAccounted` fails);
  repeated, it releases the address again, which may be another workload's by then.
* `create` takes an address before it looks at the type, and keeps it if the type is
  unknown (`Unlike` in `paas_sequential`, `AddressesAccounted`).
* `create` for a name in use overwrites the entry: the first process is beyond the
  reach of `delete`, and its address is lost (`OnePerName = FALSE`,
  `WorkloadsTracked`).
* A database of a technology that is declared and not implemented is recorded
  without a pid; its `delete` reads that as pid 0 and kills its own process group
  (`Halfway` in `paas_end`, `DeleteCompletes`).
* When the pool is exhausted, or a `create` gives up for conflicts, a load-balanced
  service gets an empty address, and its fragment the server `:8888`. Envoy refuses the
  configuration rendered from it: the gateway is gone for all services. Deleting the
  service does not bring it back, because `delete` renders nothing; it takes a `create`
  of another load-balanced service after that (`WorkloadsRouted` without
  `Valid(rendered)` in `paas_sequential`).
* The pid file outlives an Envoy that has exited, on its own or because of its
  configuration. If its pid goes to a database, the next restart of the gateway ends the
  database (`RecordsLive` in `paas_sequential` with a database among the manifests). A
  service survives: SIGTERM does not end it.
* Every `delete` makes the old and the new Envoy overlap: it does not wait between
  SIGTERM and the new start. `GatewaySingle` is therefore about those that have not been
  told to stop.
* With two command slots in `paas_sequential`, `GatewaySingle` fails (both commands
  look for the running Envoy before either has written the new pid file), and
  `WorkloadsRouted` fails (the fragments are read and the file is rendered without a
  lock, so that the slower `create` drops the other's route).
* With services only, `RecordsLive` holds for two commands at a time, too
  (`Manifests <- Services` in `paas_concurrent`; the theorem `ServicesLive`).
* With `MaxFaults = 1` in `paas_concurrent`, `WorkloadsTracked` fails, because the
  result of `rdb.Set` (`cmd/create.go:79`) is dropped, and because a `create` that
  dies after the start leaves a process that nothing records.
* `cleanup` disconnects running workloads and Envoy: every interface called `v-*` is
  taken for a hanging one.
* A service with `lb: false` is given an address and never an interface nor a firewall
  (`ExecPythonService` here, `StartProcess` in `Bridge`; `service.go:112`), while
  `README.md:64-72` says that every workload is linked to the bridge and filtered.
  `ConnectedWhenDone` without `Unlinked` fails for it. `Service.cg` never writes the pid
  to `cgroup.procs`.

Links (`Bridge`):

* With `Collisions = TRUE`, two workloads that share `Prefix` and `Residue`,
  `LinksLeftAlone` and `ConnectedWhenDone` fail: connecting the second deletes the
  link of the first. Nine characters with the `v-` leave seven of the name, so that
  `user-db-1` and `user-db-2` need only pids that are equal modulo 1000.
* A workload whose own name starts with `envoy` gets no firewall.
* A workload that has been given an empty address has an interface that is attached to
  the bridge and neither configured nor filtered, contrary to `README.md:71-72`
  (`ConnectedWhenDone` without `procs[p].ip`).
* A command cut off between `LinkAdd` and `AddrAdd` of `br0` leaves a bridge without
  an address, which every later command takes as it is (`MaxFaults = 1`,
  `BridgeReady` without `faults = 0`).

Root file systems (`ContainerInit`):

* Inits that overlap can fail each other: one removes `.oldroot` between another's
  `MkdirAll` and `pivot_root`. The `create` does not notice, and records a service
  that has ended.

Data directories (`Database`):

* An `initdb` cut off by SIGKILL leaves a directory that `initdb` refuses and the
  server, too: the database never starts, and nothing repairs it.
* A create right after a delete may meet backends of the killed server, and fail
  without being told. The same holds if the pid in the lock file is in use again.
* With `Overlaps = TRUE`, `RemoteAccess` fails: a create whose `initdb` goes on
  after its death, and its repetition, which appends the rule before there is a file
  to append it to, and starts the server once there is everything else. `DataKept`
  and `OneServer` hold all the same.
* `Database.cg` ends the command with `log.Fatalf` after the server has been
  started, and leaves a server that is neither connected nor recorded.

## 5. Proofs

Every safety property of a passing run is proved, for the assumptions given with it.
"Any number" below means for all values of the constants that satisfy the named
assumptions of the module.

`IpamProofs`, for every number of processes, attempts and addresses:

* `TypeCorrect` and `Persistence`, with Redis coming and going. The inductive
  invariant `IInv` adds three facts to `TypeOK`. `Fresh`: a copy of the addresses
  that is not `stale` equals what Redis holds, so that a committed write changes one
  address only. `PrefixFirst`: nothing is allocated before the prefix exists, and
  nobody gets past `GetIpam` without it. `EndsReserved`: the network and broadcast
  addresses are allocated, so that the lowest free address is a host address.
  Without `Fresh` a write could undo another one; without the other two `AcquireIP`
  could return address 0.
* `Exclusivity` and `Refinement`, under the assumption `~Outages`. `LInv` adds that
  every leased address is allocated, that leased addresses are distinct, and that a
  call matches the lease it is about; `LeaseMoves` shows that every step grants a
  free address, gives one back, or leaves leases alone.
* `OutageDamage` and `BridgeStays`, with outages: `OInv` is `LInv` for all addresses
  but the first, which is what a process without Redis gives out.

The proofs about `Paas` are layers of one inductive invariant, each of which uses
only what those below say of a step.

| Layer | Says | Assumes | Theorems |
|---|---|---|---|
| `TInv` | types, and `Shape`: what a command carries at each of its steps (create a manifest and no entry, delete an entry and no manifest); without it a register step could store an ill-typed entry | nothing | `TypeCorrect` |
| `DInv` | no two commands are about the same name, the entry a delete has read is still the registered one, and past the kill the recorded pid does not belong to that workload, whoever has it now | `OnePerName` | `NeverOrphans` |
| `AInv` | where every running process of a workload is known: in its entry, unless a delete is past its kill, or in the create that has started it and has yet to record it | and `MaxFaults = 0` | `Tracked` |
| `HInv` | every entry has a pid; an address that a command or an entry holds is allocated and held once; with one command at a time none is held by nobody | and only implemented types and technologies | `LeasesHeld`, `Losses`, `Refinement`; with one command at a time `Accounting` |
| `PInv` | whose process a pid is: one that a command holds is its own process or a dead one, since it is not given out before the command ends, and no two commands hold the same | nothing | `Connections` |
| `Leased` | a workload's interface has the address that its command or entry holds, unless a delete has given that back and is about to kill it | as `HInv` | `SharedBriefly` |
| `EInv` | an entry that is not being deleted names a process with its key, and so does a create past the start: only SIGKILL ends a service, and no key changes hands | as `HInv`, and only services | `ServicesLive` |
| `GatewayKnown` | which gateways serve: none once the old one has been told to stop, at most the new one once it has been started, and otherwise at most the one that the pid file names | `MaxFaults = 0` and one command at a time | `OneGateway` |
| `GivenUp` | nobody has been granted the address that a delete has given back, until it has killed the workload | as `HInv`, and one command at a time | `AddressesDistinct` |
| `RInv` | how a route comes about: from the entry or the create to the fragment, the fragments that have been read, the rendered file, and the Envoy that serves it, if it accepts the file (`Valid(rendered)`) | and `Routable`: a load-balanced service has an automatic server and an upstream of its own | `RoutesReach` |

The assumptions are what the code needs: section 4 says how properties fail with
faults, with a second command that restarts Envoy, with a name that is created twice
and with types that are not implemented. `NeverOrphans` needs `OnePerName` because
the entry of a `create` that runs between the kill and the last step of a `delete`
of the same name is removed. `OneGateway` assumes nothing of the manifests: it holds
with configurations that Envoy refuses, and with a database that gets the pid of an
Envoy that has exited. For services `ServicesLive` says that entries go on naming
running processes; with databases that is false even for one command at a time
(section 4). `Routable` says what `WorkloadsRouted` is about: a
service whose server is configured is routed to that one, and of two that share an
upstream the fragment of one replaces the other's. All layers but the last three
hold for any number of commands at a time. `Connections` assumes nothing at all: it
holds with faults, with `cleanup`, with commands for one name at the same time and
with types that are not implemented. `SharedBriefly` is what is left of
`WorkloadAddressesDistinct` for concurrent commands, which
`paas_release_before_kill` refutes: it places the overlap between two lines of
`delete`.

The lemmas follow the actions: `QuietTyped` deals with the steps that only move a
command on, `ExecTyped`, `KillWorkloadTyped`, `RegisterTyped`, `UnregisterTyped` and
`UnlinkTyped` with the others, and each says at once that types are kept and what
the step changes; the upper layers use these summaries (`DeletionStep`,
`AccountingStep`). `Moves` says how a step moves addresses: it grants one, returns
one, loses one in a release that conflicts with another command, or leaves pool,
commands and entries as they are. `Accounting`, `LeasesHeld`, `Losses` and `Refinement`
have this in common; that the third move needs a second command is why `Accounting`
assumes that there is only one (`OneAtATime`).

`BridgeProofs`, for any number of commands, processes and disturbances:

* `TypeCorrect`, with colliding names.
* `LinksLeft`, if the names of running processes do not collide: who is where in
  connecting which process, that a link with its inner end in a process's namespace
  was made for that process, and that the names of all processes and commands
  differ, so that a name leads to no link of a running process but one's own.
* `WorkloadsConnected`, of processes that are to be linked and have an address, adds
  `Progress`: what has been done to the link at each step of its command, and that no
  other link has its name from `AddLink` on.
* `Connections`, also if names do not collide: the netlink calls implement
  `Connection`, with commands cut off and `cleanup` anywhere. `LInv` keeps what is left
  of `Progress` then. `Belongs`: the inner end of a link is on the host, in the
  namespace of the process it was made for, or gone, and has an address only in the
  second case. `Holds`: from `FindEnds` on a command's name leads to its own link
  only, and no link of its process has an address before `AddRules`. A step is sorted
  by what it does to its own link (`LinkChanges`) before it is mapped to `Connect`,
  `Fail`, `Cut` or a stutter.
* `BridgeConfigured`, because a `br0` without an address has a command on its way to
  give it one, until that is cut off; `HangingRemoved`, because a list of names is
  never carried into another command.

`ContainerInitProofs`, for any number of inits: `TypeCorrect`; `HostFilesHidden` and
`AppMounted`, from what each step has done to the init's own namespace, which others
change only by taking the host's tree off `.oldroot`; `NothingLeft`, if nobody kills
an init.

`DatabaseProofs`, for any number of databases, creates and faults: `TypeCorrect` and
`DataStays`; `SingleServer`, also with overlapping creates, from `Locked`: the lock
file of a directory names its serving server; `DirectoriesAsPromised`, the refinement of
`DataDirectory`, which adds to it that only complete directories are served
(`CompleteServed`) and assumes nothing, either; `RemoteConnections`, if creates of one
name do not overlap, because then no other process works on the directory between
the append and the start.

Assumptions used, besides those above: the named ones of the modules (a subnet of at
least three host addresses for `Ipam` and two for `Paas`; `Nil` is no value of
another kind; the shape of manifests).

The refinements (`LeaseSpec` and `WorkloadLeases`, `ProcessesConnected`,
`DirectoriesKept`) are about safety, which is all that the abstract specifications
state; that a connection or a server comes about at all is liveness.

Only model-checked: liveness (`CallsReturn`, `CommandsEnd`, `DeleteCompletes`,
`AloneSucceeds`, `CreateServes`), since reasoning about fairness is out of the
prover's reach.

## 6. Not modelled

The program's own code is small: some 2200 lines of Go in `cmd`, `network`, `parser`
and `utils`, of which a quarter is a copy that nothing calls. The rest of the tree,
several hundred thousand lines, is the Alpine and Python distribution under
`rootfs/`, which the program mounts for its services and does not contain any of its
logic. The models are of the former only, so that the share of the tree's lines they
stand for is close to zero, and modelling more of it would not say anything about
`ppass`.

Of the program:

* cgroup limits (`Service.cg`, `Database.cg`, `moveProcessToEnvoyCgroup`): written
  to `/sys/fs/cgroup`, errors ignored or only logged, and nothing modelled depends
  on them, apart from the `log.Fatalf` in `Database.cg`, which is;
* Envoy's listen ports, domains and load balancing over several servers;
* `list`, YAML parsing, the command line wiring: no state;
* `cmd/network_manager.go`: an unused copy of `network/network_manager.go`;
* `createVethPair`, `GetNetworkNamespaceForProcess`, `CreateEnvoy`,
  `EnvoyConfig.cg`: never called;
* `scripts/clean_interfaces.sh`: the deletions of `cleanup`, which is modelled;
* `rootfs/` and the binary `private_paas`.

## 7. Plan

Done, in order of importance:

1. `AddressLease`, `Ipam`: the allocator and its refinement.
2. `IpamProofs`: its inductive invariants and the refinement, with and without
   outages.
3. `Paas`: the life cycle, alone, concurrently and with faults.
4. `PaasProofs` to `PaasSequentialProofs`: every safety property of its passing runs.
5. `Bridge` and `BridgeProofs`: links by name.
6. `ContainerInit` and `ContainerInitProofs`: inits on one rootfs.
7. `Database` and `DatabaseProofs`: data directories across creates.
8. `Connection` and `DataDirectory`, with the proofs that `Bridge`, `Paas` and
   `Database` implement them.
9. `PaasConcurrentProofs`: what is left of the sequential properties for commands
   that run at the same time.

Left:

10. A composition of `Paas` with the steps of `Ipam` instead of its single calls, on a
   small instance. `AddressLease` says which addresses are granted and returned, and
   neither when a call gives up nor what the pool holds then; `Paas` has both outcomes
   at every call that `Ipam` could give up (section 2), more of them than there are
   conflicts. A composition would tell which of these the conflicts of the other
   commands' updates can really bring about.
11. What holds for two commands at a time that both restart Envoy: `GatewaySingle`
   and `WorkloadsRouted` fail then, and what the code promises instead would have to
   be found first.
