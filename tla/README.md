# A verification of gecit in TLA+

gecit hides the SNI of TLS connections from middleboxes: it sends a fake
ClientHello with a low TTL ahead of the real one, and resolves names over DoH.
This directory models the parts of it in which an order of events, a crash or
two actors at once can go wrong, checks the models with TLC on small instances
and proves the main safety properties with TLAPS for all of them.
`PROJECT.json` lists the runs, the source lines behind each definition, the
hazards found in the code, the findings and the theorems. Paths below are
relative to the repository (`src/` in `PROJECT.json`).

    tlc -workers 2 -config Host.cfg MCHost             # one run
    tlapm LinuxRun_proofs.tla                          # one module of proofs

## 1. Inventory

| Component | State | Operations | What is hard about it |
|---|---|---|---|
| Linux lifecycle (`cmd/gecit/app/run.go`, `run_linux.go`, `cleanup*.go`, `scripts/install.sh`) | resolv.conf, port 53, attached program, processes | `run`, Ctrl+C, SIGTERM, `cleanup`, the unit's `ExecStopPost` and restart | crashes at any step, failures half-way, two runs, signals before `signal.Notify` |
| Linux system DNS (`pkg/dns/system_linux.go`) | the lines of `/etc/resolv.conf` | `SetSystemDNS`, `RestoreSystemDNS`, `SystemDNSNeedsRestore` | read, truncate, write without a lock; its own output as its input |
| sock_ops program (`pkg/ebpf/bpf/src/sockops.go`) | `conn_state` LRU map, config, target and exclude maps, perf ring, each socket's MSS and callback flag | established callback, header-option callback of each segment | three pieces of state per connection that must change together; eviction; lost events |
| eBPF manager (`pkg/ebpf/manager.go`, `config.go`) | attached program, reader, raw socket, event goroutine | `Start` in seven steps, `Stop`, `readEvents`, `injectFake` | interleaving with kernel callbacks, partial failure, closing under a reader |
| DNS server and DoH (`pkg/dns/server.go`, `doh.go`) | handlers in progress, `ipQueue`, upstream addresses | `handleQuery`, `Resolve` with fallback, `PopDomain` | upstreams failing meanwhile, queries to itself, timeouts |
| Router engine and worker (`pkg/router/engine.go`, `runner_linux.go`) | nftables table, runner, `doneCh`, worker handles | `Start`, rollback, `Stop` | lock regions with work between them, a slow worker, two processes on one table |
| Router packet path (`pkg/router/processor.go`, `packet.go`, `nftables.go`, `runner_linux.go`) | kernel queue, flow table, packet being handled | queue rule, `handlePacket`, `ProcessPacket`, `MarkOnce` | order of fake and packet, expiry and retransmission, table and queue at their limit, Stop under a callback |
| TUN engine of macOS and Windows (`pkg/tun`, `run_tun.go`) | TUN device, stack, routes, connections | `Start`, `Stop`, `injectAndForward`, `pipe` | partial failure, deadlines of two directions, waits for sequence numbers |
| Sequence tracker and capture (`pkg/seqtrack`, `pkg/capture`) | map of ports to sequence numbers | `WaitForSeqAck`, capture callback | a reused port, an answer after its timeout |
| System DNS of macOS and Windows (`pkg/dns/system_*.go`, `cmd/gecit/app/cleanup_*.go`) | each service's DNS setting, the backup file, what the process remembers, Windows' routes | `SetSystemDNS`, `RestoreSystemDNS`, `cleanup` | crashes between saving, setting and restoring; commands that fail unnoticed; a cleanup beside a run |
| Packet building (`pkg/rawsock`, `pkg/fake`) | none | `BuildPacket`, `Checksum`, the fake ClientHello, `ParseSNI` | nested lengths from the network, odd payloads, byte order |
| Router configuration (`cmd/gecit/app/router.go`, `pkg/router/config.go`) | none | flags to `Config`, `Normalized`, `Validate`, `BuildRuleSet` | truncations to 16 bits, zero as "default", normalising twice |
| Command line, status, privileges, probe | none | | |

How they interact: on Linux `ebpfEngine.Start` starts the DNS server, rewrites
resolv.conf, then starts the manager; the manager fills maps that the sock_ops
callbacks read, and these send events over a ring to the manager's goroutine,
which injects through its raw socket. `router run` is a program of its own: the
engine puts queue rules into nftables, the kernel hands packets to the worker's
callback, which asks the Processor, injects and gives its verdict. On macOS and
Windows the TUN handler takes the place of the kernel program and uses the DNS
server's `PopDomain` and the sequence tracker.

What makes each correct: the host can always resolve names, or gets its servers
back (lifecycle); a rewrite loses nothing that matters (system DNS); the fake
goes out once, to the right servers, ahead of the data, and the MSS is shrunk
for the ClientHello only (sock_ops, manager); handles are released on every
path (manager, engine, worker); a table exists exactly as long as somebody
serves it (router engine); the host's own settings are on disk as long as they
are replaced, and come back (macOS, Windows); no bytes crash the parser, and
every fake is a valid packet (packet building); no packet is held for ever, the flow table limits the
injections (packet path); each query is replied to, with an answer if one
upstream is healthy (DNS).

## 2. Modules

| Module | Models | Extends / used by |
|---|---|---|
| `DnsRedirection` | abstract: what gecit promises a host whose DNS it redirects | implemented by `LinuxRun` and `SystemDns` |
| `RouterSwitch` | abstract: what `gecit router run` promises about its rules | implemented by `RouterEngine` |
| `ResolvConfLines` | resolv.conf as a sequence of lines; the three functions on it | `Algorithms_proofs` |
| `ResolvConf` | the same functions on a record of three facts (is it gecit's, which servers are active, which saved) | `LinuxRun` |
| `LinuxRun` | all runs, cleanups and the unit on one host | `LinuxRun_proofs` |
| `SockOps` | kernel side: maps, ring, connections | `EbpfManager` |
| `EbpfManager` | user side, composed with `SockOps` through the maps and the ring | `EbpfManager_proofs` |
| `DnsServer` | queries, fallback, the server's queries to itself, `ipQueue` | `DnsServer_proofs` |
| `RouterEngine` | `Start`/`Stop` calls by threads, worker goroutines, the table | `RouterEngine_proofs` |
| `RouterPackets` | queue rule, worker callback, flow table, worker handles | `RouterPackets_proofs` |
| `TunManager` | Start and Stop of the TUN engine with the DNS server and setting around it | `TunHandler` |
| `TunHandler` | connections, their pipes, the capture and its entries, composed with `TunManager` through the handles and the global tracker | `TunHandler_proofs` |
| `SystemDns` | settings, backup file, routes: runs, cleanups, crashes on macOS and Windows | `SystemDns_proofs` |
| `SniParser` | `ParseSNI`, one step per length field | `FakeHello` |
| `FakeHello` | the fake ClientHello; router mode's check of a payload | `Algorithms_proofs`, `MCAlgorithms` |
| `PacketBytes` | `BuildPacket`: headers and checksums | `Algorithms_proofs` |
| `Configuration` | the router's flags to the configuration in force | `Algorithms_proofs` |
| `MCAlgorithms` | the five modules of pure functions side by side | `Algorithms.cfg` |
| `MCHost` | `LinuxRun` and `SystemDns` side by side | `Host.cfg` |
| `MCRouterUnit` | `RouterEngine` and, side by side with it, a `LinuxRun` that systemd starts | `Router.cfg` |
| other `MC*` | values of the constants for TLC | the `.cfg` files |

Modules that stand side by side share no state: in each behaviour one of them
moves and the others stay as they were first.

**DnsRedirection, RouterSwitch.** The abstract specifications. In
`DnsRedirection` a service (a network service, or the one file) is redirected
only while gecit's server answers and once its own setting is saved; the server
goes before the redirection is undone only when the process dies or undoing
fails. In `RouterSwitch` the rules go in before an engine is on and out after
it; as soon as two processes share the table, what remains is that a table is
never orphaned. Each has a flag (`intact`, `alone`) that an accident of the
detailed model lowers: after it, `DnsRedirection` promises nothing and
`RouterSwitch` only the last part. The refinement mappings (`Promise`, in
`SystemDns` `DnsPromise`) stand at the end of `LinuxRun`, `SystemDns` and
`RouterEngine`. For `LinuxRun`, what a writer holds while it rewrites the file counts as saved.

**ResolvConfLines, ResolvConf.** A line is one of the kinds the code tells
apart: a name server, gecit's marker, a saved line, another comment.
`DigestCommutes` checks that the record of `ResolvConf` is exact: reducing the
lines and then setting or restoring gives the same as setting or restoring and
then reducing. So the lifecycle may use the record. A host whose own server is
127.0.0.1 appears in the line model only: `HostServers` of `LinuxRun` excludes it.

**LinuxRun.** `pc` of a process is the call it is in; reading, truncating and
writing resolv.conf are three steps, as nothing locks the file. `port` is the
socket on 127.0.0.1:53. The constant `Events` says which disturbances a run of
TLC includes: kill, a tear between truncation and write, a signal before
`signal.Notify` (which ends the process in the middle of Start), a killed `ExecStopPost`, power loss, I/O errors, a server that
fails after its start, a host that rewrites the file. `scars` is history: it
records accidents (a torn write, an overwritten write of somebody else,
`SetSystemDNS` on its own output, ...), so that `OnlyKnownLosses` can say that
there are no others. When two writers overlap, the mixture of both contents is
abstracted to the last writer's, with the scar set.

**SockOps, EbpfManager.** A connection has its MSS, its callback flag and its
bytes on the wire; the program has its LRU map entry and counter. The kernel is
taken to call the header-option callback for each data segment of a flagged
socket. The ring and the map have a capacity; an event is lost when the ring is
full or nobody has opened it, and the LRU map evicts entries, some of them
before it is full. The program ignores what `bpf_setsockopt`, the map update and
the callback-flag calls return, and goes on (sockops.go:82, 100, 103, 130, 135):
each of them may be refused alone, for the connections of `Refusable`, and
`refused` is the history of it. An MSS below the kernel's minimum of 88 is such
a refusal: `gecit run` asks for 88 (run.go:27), `NewManager` and README.md:138
name 40 as the default. So a small MSS, the entry and the flag are not one fact:
`ShrunkIsTracked` says which of them a refusal, an eviction or a detach can
separate, and nothing else.
`Start` is one step per call that can fail, with the kernel's callbacks between
them, since the program is attached first. `Stop` closes the reader, waits for
the goroutine, closes the raw socket and detaches. `Load` from idle stands for a
new run of the program. `UpdateEnabled` is not modelled: nothing calls it.

**DnsServer.** A task is a handler goroutine: of a program's query, or of a
query that our own HTTP client has caused because its upstream is a name that
`NewDoHClient` could not look up. Go's resolver is external: it joins concurrent
lookups of one name and gives up a lookup nobody waits for. Such a task waits
for itself; only the client's timeout (`DialTimeout`) lets it go on. `health`
of an upstream changes at any time; "bad" is a reply that is no DNS message,
which ends the query without a fallback.

**RouterEngine.** One step per lock region of `Engine`, and per call between
them; the worker's goroutine opens its handles concurrently. `nft -f` applies a
batch as a whole or not at all. The external `RegisterWithErrorFunc` returns nil
at once, as the library of go.mod does, or blocks until the context is done, as
the tests' runners do. Adding a rule twice leaves two copies; deleting the table
removes all.

**RouterPackets.** A packet is its connection and whether it is our fake; what
ProcessPacket finds in it is the connection's class. The kernel holds packets
that wait and packets handed to the callback; both count for the queue's length.
So do the packets of `stuck`, whose `SetVerdict` failed: `accept` only logs that
(runner_linux.go:137), and the kernel keeps them until the queue is closed. The
connection of such a packet waits for its own retransmission.
Ages replace clock values. `ct original packets 1-6` is `CtWindow`, counted in
data packets. A callback in progress while `Stop` sets `r.queue` and
`r.rawSock` to nil reads the old value or nil: `SendFails`/`Accept` or `Panic`.

**TunManager, TunHandler.** Start and Stop are one thread; each handle it opens
or closes is a step, and a failing step closes what the code closes there. A
connection's handler is `hpc`, the two goroutines of its pipe are `dpc`.
`readPast` and `writePast` are the sides whose deadline has been set to now; a
deadline ahead is not in the state, it may pass whenever nothing can be read. A
chunk of data is one fact, `avail`: what a `Read` of that side would find. The
numbers of a SYN-ACK are the connection they belong to, so that `numbers[c]`
tells whose numbers a fake of `c` carries. Each SYN-ACK that the capture sees is
stored (`processPacket` has no memory), the first one and its retransmissions,
at any time from the dial on, also after `LoadAndDelete` has taken the entry;
`synAcks` counts them up to the bound `MaxSynAcks`. `Capturable` are the connections the
capture's filter (source port 443, IPv4) lets pass. The three sends of a fake
are one step that may send fewer. A handler whose tracker is taken away between
its check and its call ends the process (`NilTracker`).

**SystemDns.** A setting is the list of static servers, empty for DHCP's. The
backup file is a sequence of words: on macOS the servers and then the service's
name, on Windows one server and the interface. Both platforms share the steps;
where they differ, an action has a conjunct on `platform`. On macOS Stop
restores what the process remembers, on Windows what the file says. Commands
(`networksetup`, `netsh`) are external: refused for what is no address or no
service, and failing at any time; the code ignores their errors except for the
one that redirects. `accidents` is history, as `scars` is in `LinuxRun`.
The routes and the TUN device are in `TunManager`; here only the routes that Windows keeps after a
crash, and cleanup deletes, are a variable.

What a host loses with this code is visible in the accidents that `HostRestored`
and `DnsPromiseKept` excuse or do not speak of: Windows keeps only the first of
several servers, and makes DHCP's server a static one (`narrowed`); on macOS a
run after a crash gives `networksetup` the service's name together with the
servers, is refused, and saves 127.0.0.1 (`unread`); cleanup on macOS takes the
second of two servers for the service, restores nothing and removes the file
(`misread`); failures of commands and writes are not noticed (`unset`,
`unsaved`); a cleanup beside a run works on the run's file and routes (`beside`,
`overlap`). The first three need no failing command, and the repository's README
and the help of `gecit cleanup` promise otherwise: `RestoredAsPromised` states
that promise without excusing them, and the run `system_dns_docs` shows it
violated. What `HostRestored` shows is that there are no other ways.
`SavesSetting`, on which `DnsPromiseKept` rests, counts a narrowed save as one.
Accidents are never taken back, so one of an earlier run excuses all that
follows; `CleanupFrees` is about macOS' Wi-Fi and Windows' routes and says
nothing of Windows' DNS.

**SniParser, FakeHello, PacketBytes, Configuration.** Pure functions, on bytes
where a property is about bytes. `SniParser` is a machine with a step for each
field, so that the window Go's slices describe is its state. `FakeHello` leaves
the random bytes at one value; `PacketBytes` has both byte orders of the IP
header (macOS wants the host's); its sums are recursive functions, and a conversion to 16
bits truncates. `Configuration` reduces strings to how the code classifies them,
and lists of ports to sets, since only membership and emptiness matter to the
rules. `MCAlgorithms` puts these and `ResolvConfLines` side by side
for one run: a behaviour is about one of them while the others rest.

## 3. Runs

| Run | Question | Bounds | States |
|---|---|---|---|
| `algorithms` | do the pure functions compute what their references say? | all files of up to 4 lines over 3 servers; 4 hellos, each whole, cut anywhere, continued, with any byte changed to one of 5; payloads of up to 5 bytes, 2 connections, 5 TTLs; up to 4 flags given | 79 k |
| `host` | Linux: are two runs and a cleanup safe together, under all faults, and is `DnsRedirection` implemented? | 2 runs, 1 cleanup, one host server set | 3.2 M together |
| | macOS, Windows: by which accidents alone do hosts lose settings, and is `DnsRedirection` implemented? | 2 services, settings of up to 2 servers, one run and one cleanup at a time, at most 2 kinds of accident | |
| `linux_crash` | do the saved lines survive a crash? *(violated)* | 1 run, 1 cleanup, kill | |
| `system_dns_docs` | do Ctrl+C and cleanup restore everything? *(violated)* | macOS, Windows as in `host`, with DHCP on both services | |
| `ebpf` | manager against kernel: fakes, handles, small MSS | 3 connections (1 excluded, without data), map and ring of 1, 2 segments, calls on 1 connection refusable | 2.7 M |
| `ebpf_order` | is the fake ahead of the data? *(violated)* | the same without refusals | |
| `router` | is `RouterSwitch` implemented, and is every handle closed? | 2 processes, 3 starts in all | 0.6 M together |
| | does systemd always end a redirection to nobody? | 1 run of the unit, two server sets the host alternates | |
| `router_hollow` | does a nil from Start mean a worker? *(violated)* | the engine as in `router` | |
| `router_packets` | is there at most one fake, ahead of its packet, within the table's limit, and a verdict for each packet? | 4 connections, 2 on one port, 1 with a retransmission, table and queue of 2, TTL 1, 2 runs | 1.4 M |
| `dns_server` | is every query replied to, with one healthy upstream answered? | 2 programs, 3 queries, 2 own lookups, 2 upstreams, 1 change of health | 0.9 M |
| `tun` | is the host released, are numbers never a live stranger's, does a pipe end as a whole? | 2 connections, the second of which gets the port of the first; 2 SYN-ACKs of the first | 0.6 M |
| `tun_dedup` | does a connection's SYN-ACK give one fake? *(violated)* | the same with 2 SYN-ACKs of each | |

Why the bounds suffice. The capacities (map, ring, table, queue) are smaller
than the number of connections, so each is full and overflows. Two runs and a
cleanup are enough for every pair of writers, and the second run can start on
what the first left behind, also after it died. Two segments put one byte count
below and one at `RestoreAfterBytes`. Three starts of the router give a second
engine in the middle of the first one's rollback and another start afterwards.
In `ebpf` there is one target port, so that part of `FakedOnce` rests on its
proof. The kernel may refuse calls on one of the two connections that share the
map's entry, and none on the other: what a refusal does concerns the connection
itself and, through the map, the next one. The excluded connection sends nothing,
as it gets neither entry nor event. (The theorems have refusals and data for
every connection.) In `router_packets` one retransmission meets the flow's entry
both before and after it expires, since ticks may come in between, and the
second run meets what the first one left. In `dns_server` two slots let a
given-up lookup go on beside the next. In `tun` the first connection is of any
kind, so that what it leaves behind (an entry, a SYN-ACK seen late or again)
meets the second one; a second SYN-ACK of a connection is the one that matters, a
third would find what it finds; those of the second connection would meet
nobody after it (the theorem has them). Data are not counted, so the peers may
send for ever. One change of health suffices since the initial health is
arbitrary. On macOS and Windows runs and cleanups follow each other without
limit; the CONSTRAINT `FewAccidents` cuts behaviours with more than two of the
seven kinds of accident. Accidents are never taken back, and `HostRestored` and
`DnsPromiseKept` claim something only of states with at most the two kinds
`narrowed` and `beside`, so nothing of what they claim is cut; `CleanupFrees`
allows more kinds and has its proof. Two servers are what the second line of the
backup file needs to be misread. In `algorithms` a hello has every field whose
length is read, and the changed bytes lie below, at and above each length; five
bytes of payload make odd and even ones whose sums carry twice.

`CHECK_DEADLOCK FALSE` stands in the runs whose bounded counters (queries,
transmissions, dials) end the behaviour, and in `algorithms`, where a call that has
returned has no next step.

Each passing run's property has a mutant in `PROJECT.json`: a plausible bug in a
mapped definition that makes TLC find that property violated.

### Fairness

* `router`, the unit's run: a process in a call of its own code goes on, and
  systemd runs `ExecStopPost`; nobody has to launch or signal anything. An outage
  here is a redirection to a port where nobody listens; it ends with the host's own
  servers, or with some server if a torn or overwritten write had lost these. A
  file that a torn write has left without any server is another outage, of which
  `OutageEnds` does not speak: no cleanup ends it, as the marker is gone too.
  `OutageEnds` holds also when a signal ends the run before `signal.Notify`;
  without the unit such a signal leaves DNS redirected, as a kill does, until
  `gecit cleanup`.
* `ebpf`: the threads of Stop and of `readEvents` are scheduled; the kernel owes
  nothing. `StopReturns`: `wg.Wait` ends.
* `router`, the engine: calls and goroutines that can go on are scheduled. `StopReturns`:
  the value of `doneCh` arrives.
* `router_packets`: the library's goroutine goes on. `EveryVerdict`: neither a
  parse error nor a failed SendFake nor the stuck packets of others keep a packet
  in the queue; one whose own `SetVerdict` failed stays until Stop.
* `tun`: each goroutine goes on, a deadline passes if there is nothing to read,
  and a write past its deadline fails. A write within it may block for ever,
  since the peer may not read. `EndsTogether`.
* `dns_server`: each handler goroutine goes on; requests end by the HTTP
  client's 5 seconds. `Answered`.

### What the violated runs show

* `linux_crash`: after a crash the file is in gecit's state. The next `run`
  drops the lines that start with `# gecit`, the saved servers among them, and
  saves 127.0.0.1 in their place. A comment promises that they survive a crash.
  Under systemd `ExecStopPost` prevents it (`NeverStacked`).
* `ebpf_order`: the fake is sent by a goroutine that reads a ring, while the
  application may already write. The README says the order is guaranteed.
* `router_hollow`: the real worker's Start returns nil as soon as it has
  registered; `Engine.Start` takes that for the worker's end, closes it, deletes
  the table and returns nil.
* `tun_dedup`: a SYN-ACK is captured, its numbers are used, it is captured once
  more, and the next connection on the local port gets the same numbers. The
  field `seen`, which capture_darwin.go:17 says is for that, is used by nothing.
* `system_dns_docs`: on Windows with DHCP, Ctrl+C leaves DHCP's server as a
  static one. README.md:104 says that everything is restored. The property falls
  on macOS too: with two servers, a crash and a cleanup leave the service at
  127.0.0.1 and remove the file that knew better (add `platform = "darwin"` to
  `DnsInit` and let `HostSettings` be `{<<a, b>>}`); a crash, a second run and
  Ctrl+C leave 127.0.0.1. README.md:106 and cleanup.go:12 say that cleanup
  restores the settings. The action constraint of this run leaves out a Start
  that fails, so that the trace is one of Ctrl+C on a run that was up.

Two more places where the code does less than is written of it have no run of
their own. They are what a property excuses:

* `os.WriteFile` truncates resolv.conf and then writes it. A run that dies in
  between leaves an empty file without gecit's marker, so `gecit cleanup` finds
  nothing to do, although README.md:106 says that it restores the settings after
  a crash. `OnlyKnownLosses` and `OutageEnds` excuse it by the scar `torn`.
* The setsockopt that should restore the MSS may be refused; the program clears
  the callback and deletes the entry all the same, so that the connection stays
  small, although the header of sockops.go (lines 14-15) says that the MSS is
  restored once the ClientHello has been transmitted. `ShrunkIsTracked` excuses it
  by `refused`.

## 4. Proofs

All theorems hold for every value of the constants under the named
assumptions in the modules (`ProcsAssumption`, `SockOpsAssumption`,
`PacketAssumption`, ...), which state no more than how the constants are typed,
for `PacketBytes` that a packet's length fits the 16 bits IPv4 has for it, and for
`FakeHello` (`ProfilesAssumption`) what every profile in the code does: it has the
extension with the server's name, and its hello fits the record's length field.

**LinuxRun_proofs.** `TypeCorrect`; `PortIsLockAlways`; `OnlyKnownLossesAlways`;
`HijackServedAlways`; `NeverStackedSupervised` (what `router` checks of the unit's
run, under `Supervised`: one run, of the unit, with a cleanup that is not itself
disturbed).
*LockInv* adds to PortIsLock that only a run with DoH is in the calls that need
the port. *LossInv* is needed because recoverability is broken for a moment
inside every WriteFile: it says that what the writer is about to write recovers
to the same servers, and that without the clobbered scar there is one writer.
*ServedInv* names the listener and the calls it can be in, and *StackInv* says
that a run of the unit before its write finds, and has read, a plain file.

In the same module, `PromiseKeptAlways`: `LinuxRun` implements
`DnsRedirection`, provided the host does not rewrite the file itself
(`"host" \notin Events`): its rewrite takes torn and stacked contents away,
so `intact` would rise again, which `DnsRedirection` never allows. *LossInv*
makes the host's setting count as saved while the promise stands; *OrphanInv*
says that a redirection left behind is in the file or being undone. Each step is
shown to be one of six forms (*Allowed*), each form a step of `DnsRedirection`.

**EbpfManager_proofs.** `TypeCorrect`, `RawSockInUseAlways`, `IdleIsCleanAlways`,
`ShrunkIsTrackedAlways`, `RestoredLateAlways`, `ExcludedNeverFakedAlways`,
`FakedOnceAlways`. *HandleInv* fixes the handles of each step of Start and Stop.
*TrackInv* ties a small MSS, the flag, the map entry and the counter together,
as far as no refusal separates them: an entry whose callback flag was not
refused has counted every byte since the first one, and says so until it is
deleted.
*FakeInv* says that a connection is in the ring, in the goroutine's hands or
already faked at most once in all, and that only eligible ones get there; the
exclusion needs that the reader opens after the maps are filled.

**RouterPackets_proofs.** `TypeCorrect`, `PanicOnlyInStopAlways`,
`OncePerWindowAlways`, `WindowCapAlways`, `FakeFirstAlways`. *MarkInv*: what the
history calls recently marked is in the table at the same age (neither purge nor
refusal forgets it); with *CapInv*, the valid entries are at most `MaxFlows`, it
gives both limits. *SentInv*: between SendFake and the verdict the fake is out.
*HandleInv* fixes the handles of Start and Stop.

**RouterEngine_proofs.** `TypeCorrect`, `NothingLeftAlways`, `PromiseKeptAlways`.
*LocalInv*: a runner is known to nobody but its creator until Start publishes
it, and the channel has a value only after its goroutine has ended. *CallInv*:
what an engine has while one call of it is in progress. *LeftInv* lists who has
each handle at each step. *SwitchInv* ties the rules in the kernel to the engines
that use them, and the refinement of `RouterSwitch` follows step by step; it
needs no assumption beyond the types, since with a second process on the table
only the last part of the promise is left.

**DnsServer_proofs.** `TypeCorrect`, `HealthyIsEnoughAlways`, `QueuesAgreeAlways`.
*TaskInv*: a query has seen every failure there is now, and every upstream with
a known address before the one it is at was down; it waits for a name only if
that upstream's address is unknown. A query beyond the last upstream has then
tried all. For the queues, a suffix stays one when both get a name or one loses
its head (`SuffixAppend`, `SuffixTail`).

**SystemDns_proofs.** `TypeCorrect`, `CleanupFreesAlways`, `HostRestoredAlways`,
`PromiseKeptAlways`. *RestoreInv* says, as long as no accident but those of
`Ok` has happened: a setting is the host's own, what a narrowed save kept of
it, or redirected with a file that saves it (*SettingInv*); which steps of a run
have which file (*FileInv*); and a file that a run or a cleanup has read is still
there when it acts on it (*HeldInv*), which is what "overlap" is about.
*RoutesInv* says who may still have to remove the routes on Windows. For the
refinement, each step is shown to be one of seven forms (*Fits*), each form a
step of `DnsRedirection`; an accident lowers `intact`, which it always allows.

**TunHandler_proofs.** `TypeCorrect`, `HostReleasedAlways`, `NilOnlyInStopAlways`,
`SynAckUsedOnceAlways`, `CutOffAlways`. *HandleInv* names the steps before which
each handle can be open, *DnsInv* those with a redirection. *NumbersInv*:
numbers stay on the port of their connection, open connections have different
ports, and who has a stranger's numbers found him closed. *SupplyInv*: the
handlers that were given a connection's numbers, and the entry that holds them,
are together no more than the SYN-ACKs captured of it; a capture adds one for
the entry it writes, and `LoadAndDelete` moves one from the entry to a handler.
*PastInv*: a direction that has ended has set both deadlines of both sides, and
nobody renews those for writing. *CallInv*: who is about to call the tracker has
seen it.

**Algorithms_proofs.** The pure functions, for inputs of any size.

* `RoundTripAlways`, `DigestCommutesAlways`, `NeverServerlessAlways`: the lines
  of resolv.conf. The loop over the lines is the recursive function `Kept`; what
  it selects is shown by induction on its argument (`SelectFacts`, `SelectAll`,
  `SelectBehind`). *LinesInv* says that the file as set is `SetLines` of the
  file before, and that a file with a server keeps one.
* `ConfigSoundAlways`: the router's flags, of any value and given in any number;
  each field's range is followed through truncation, defaults and `Validate`.
* `PacketSoundAlways`: `BuildPacket`, for every connection, TTL, byte order and
  payload that fits. `WordSumIs` reduces the sum of words (with an odd last
  byte) to a sum over bytes, `PatchSum` says that writing a checksum into two
  zero bytes adds it to that sum, `FoldFacts` that a carry added back takes a
  multiple of 65535 away, and that twice is enough; so *Checksummed* bytes
  verify. The rest is where each field lies (`At`, `Block`).
* `NeverPanicsAlways`, for data of any length. *Window*: the window never
  reaches past the data, nor past the record that the data declares once that
  has been entered; each field's guard is what its reads and the window it
  enters need.
* `HelloUnderstoodAlways`, for any profiles: names, suites and extensions of any
  number and order. `HelloLaid` says where each length and type of
  `buildClientHello` lies, `ExtensionHolds` the same of each extension that is not
  left out. *HelloRun*: at each field of a whole hello ParseSNI is at the place
  that has it (*Progress*), and while it skips extensions the one with the name
  is not behind it; of a hello without its end it reads the record's header only.

The library's induction theorems take an operator as a parameter, which the
provers here cannot instantiate. Induction goes instead through `WFMin` of
`WellFoundedInduction`, whose parameters are sets: every non-empty set of
naturals has a least member (`MinNat`), so a set with 0 that goes from each
number to the next is full (`Steps`). That a recursive function satisfies its
equation is proved with it once for each (`KeptDef`, `SumsDef`, and `FlatDef` for
the function inside `FlattenSeq` of the community modules).

The type invariants are part of each of these invariants. But for `DnsTypeOK`
they stand in no run's properties: a run need not repeat what holds
for all values.

Only model-checked: all liveness (`StopReturns`, `OutageEnds`, `EveryVerdict`,
`Answered`, `EndsTogether`), which TLAPS does not handle here.

## 5. Not modelled, and why

* Raw sockets and pcap handles as devices (opening, writing a frame, finding
  the gateway's MAC address): I/O whose only outcome the code looks at is an
  error, which the models of their callers have.
* LAN interfaces and probe targets of the router's configuration: names that are
  passed on. The text of nft's commands.
* The random bytes of the fake ClientHello.
* `UpdateEnabled` of the eBPF manager: nothing calls it.
* Lengths of time in the TUN engine: that a pipe is cut although the other
  direction is busy, or that replies to packets are lost after 30 silent
  seconds, is in the hazard list and not in a property.
* Overlapping calls of one router `Engine`: `router run` has one thread for
  them. `RouterEngine` allows several threads, its runs have one per engine.
* Addresses before and after NAT: a fake made with `--postnat=false` carries the
  LAN address (hazard list).
* UDP and IPv6 in the router: they are accepted without an injection, which is
  what class "other" stands for.
* A `MaxFlows` beyond 32 bits, which `nfqRunner.Start` truncates
  (runner_linux.go:48) after `Validate` has passed it. A worker that fails after
  the grace period: `RouterSwitch` takes an engine for on as long as it has a
  runner. A query that cannot be packed again (server.go:96), which is answered like a
  failed resolution. `QueuesAgree` does not say that an address is queued before
  the program connects to it; the code does not ensure that either.
* Status, probe, privileges, flag parsing, logging: no state.
* The contents of DNS answers and of the DoH requests; caches of the HTTP
  client's connections.

## 6. Plan

1. (done) `ResolvConf*`, `LinuxRun`, `SockOps`, `EbpfManager`, `RouterEngine`,
   with proofs of the first and second group.
2. (done) `RouterPackets` with proofs, `DnsServer`.
3. (done) `TunManager`, `TunHandler` with the sequence tracker, with proofs.
4. (done) `SystemDns` of macOS and Windows on the pattern of `LinuxRun`.
5. (done) The pure functions: `SniParser` with its proof, `FakeHello`,
   `PacketBytes`, `Configuration`.
6. (done) Abstract specifications `DnsRedirection` and `RouterSwitch` with their
   refinements. Left: an at-most-once injector that `RouterPackets` and
   `EbpfManager` both implement.
7. (done) Proofs of `RouterEngine`, `DnsServer` and of the refinements of
   `LinuxRun` and `RouterEngine`, and of `SystemDns` with its refinement.
8. (done) Proofs of the pure functions.
