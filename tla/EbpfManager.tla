------------------------------ MODULE EbpfManager ------------------------------
(***************************************************************************)
(* pkg/ebpf/manager.go and config.go: the Manager that loads and attaches  *)
(* the program of SockOps, fills its maps, reads its events in a goroutine *)
(* and sends the fakes, composed with the kernel side.  The steps of Start *)
(* and Stop interleave with connections, events and the goroutine.         *)
(***************************************************************************)
EXTENDS SockOps

CONSTANTS
    TargetPortsCfg,     \* Config.Ports
    ExcludeIPsCfg       \* Config.ExcludeIPs: the DoH upstreams

ASSUME ManagerAssumption ==
    /\ TargetPortsCfg \subseteq Ports
    /\ ExcludeIPsCfg \subseteq IPs

VARIABLES
    mpc,        \* the step of Start or Stop the manager is about to take
    rawSock,    \* m.rawSock is an open socket
    gpc,        \* readEvents: "none", "read", "inject" or "gone"
    current,    \* the connection injectFake is called for, or {}
    faked       \* history: per connection, the bytes on the wire at each fake

vars == <<sockOpsVars, mpc, rawSock, gpc, current, faked>>
managerVars == <<mpc, rawSock, gpc, current, faked>>

StartSteps == {"attach", "config", "ports", "exclude", "reader", "raw", "spawn"}
StopSteps  == {"close", "wait", "closeRaw", "detach"}

TypeOK ==
    /\ SockOpsTypeOK
    /\ mpc \in {"idle", "running"} \cup StartSteps \cup StopSteps
    /\ rawSock \in BOOLEAN
    /\ gpc \in {"none", "read", "inject", "gone"}
    /\ current \subseteq Conns
    /\ faked \in [Conns -> Seq(Nat)]

Init ==
    /\ SockOpsInit
    /\ mpc = "idle"
    /\ rawSock = FALSE
    /\ gpc = "none"
    /\ current = {}
    /\ faked = [c \in Conns |-> <<>>]

-----------------------------------------------------------------------------
(***************************************************************************)
(* Start.  LoadSockops creates the maps, empty and disabled; every push is *)
(* one Update per key; from the attachment on, an error means m.Stop.      *)
(***************************************************************************)
Load ==
    /\ mpc = "idle"
    /\ mpc' = "attach"
    /\ enabled' = FALSE
    /\ targetPorts' = {} /\ excludeIps' = {}
    /\ tracked' = {} /\ bytesSent' = [c \in Conns |-> 0]
    /\ UNCHANGED <<attached, ringVars, connVars, forgotten, rawSock, gpc, current, faked>>

Attach ==
    /\ mpc = "attach"
    /\ \/ attached' = TRUE /\ mpc' = "config"
       \/ attached' = attached /\ mpc' = "idle"         \* AttachCgroup fails
    /\ UNCHANGED <<mapVars, ringVars, connVars, forgotten, rawSock, gpc, current, faked>>

pushConfig ==
    /\ mpc = "config"
    /\ enabled' = TRUE
    /\ mpc' = "ports"
    /\ UNCHANGED <<attached, targetPorts, excludeIps, tracked, bytesSent, ringVars,
                   connVars, forgotten, rawSock, gpc, current, faked>>

pushTargetPorts ==
    /\ mpc = "ports"
    /\ \/ /\ \E p \in TargetPortsCfg \ targetPorts : targetPorts' = targetPorts \cup {p}
          /\ UNCHANGED mpc
       \/ /\ TargetPortsCfg = targetPorts
          /\ mpc' = "exclude"
          /\ UNCHANGED targetPorts
    /\ UNCHANGED <<attached, enabled, excludeIps, tracked, bytesSent, ringVars,
                   connVars, forgotten, rawSock, gpc, current, faked>>

pushExcludeIPs ==
    /\ mpc = "exclude"
    /\ \/ /\ \E ip \in ExcludeIPsCfg \ excludeIps : excludeIps' = excludeIps \cup {ip}
          /\ UNCHANGED mpc
       \/ /\ ExcludeIPsCfg = excludeIps
          /\ mpc' = "reader"
          /\ UNCHANGED excludeIps
    /\ UNCHANGED <<attached, enabled, targetPorts, tracked, bytesSent, ringVars,
                   connVars, forgotten, rawSock, gpc, current, faked>>

OpenReaderEarly ==          \* mutant: the reader is opened before the pushes end
    /\ mpc \in {"exclude", "reader"}
    /\ reading' = TRUE
    /\ mpc' = IF mpc = "reader" THEN "raw" ELSE mpc
    /\ UNCHANGED <<attached, mapVars, events, connVars, forgotten, rawSock, gpc, current, faked>>

OpenReader ==
    /\ mpc = "reader"
    /\ reading' = TRUE
    /\ mpc' = "raw"
    /\ UNCHANGED <<attached, mapVars, events, connVars, forgotten, rawSock, gpc, current, faked>>

OpenRawSock ==
    /\ mpc = "raw"
    /\ rawSock' = TRUE
    /\ mpc' = "spawn"
    /\ UNCHANGED <<sockOpsVars, gpc, current, faked>>

Spawn ==
    /\ mpc = "spawn"
    /\ gpc' = "read"
    /\ mpc' = "running"
    /\ UNCHANGED <<sockOpsVars, rawSock, current, faked>>

StartFailsDirty ==          \* mutant: a failed Start returns without m.Stop
    /\ mpc \in {"config", "ports", "exclude", "reader", "raw"}
    /\ mpc' = "idle"
    /\ UNCHANGED <<sockOpsVars, rawSock, gpc, current, faked>>

StartFails ==
    /\ mpc \in {"config", "ports", "exclude", "reader", "raw"}
    /\ mpc' = "close"
    /\ UNCHANGED <<sockOpsVars, rawSock, gpc, current, faked>>

-----------------------------------------------------------------------------
(***************************************************************************)
(* Stop, by the engine or by a failed Start: close the reader, wait for    *)
(* the goroutine, close the socket, then detach and drop the maps.         *)
(***************************************************************************)
Stop ==
    /\ mpc = "running"
    /\ mpc' = "close"
    /\ UNCHANGED <<sockOpsVars, rawSock, gpc, current, faked>>

CloseReader ==
    /\ mpc = "close"
    /\ reading' = FALSE /\ events' = <<>>
    /\ mpc' = "wait"
    /\ UNCHANGED <<attached, mapVars, connVars, forgotten, rawSock, gpc, current, faked>>

DoNotWait ==                \* mutant: Stop without m.wg.Wait
    /\ mpc = "wait"
    /\ mpc' = "closeRaw"
    /\ UNCHANGED <<sockOpsVars, rawSock, gpc, current, faked>>

Wait ==
    /\ mpc = "wait"
    /\ gpc \in {"none", "gone"}
    /\ mpc' = "closeRaw"
    /\ UNCHANGED <<sockOpsVars, rawSock, gpc, current, faked>>

CloseRaw ==
    /\ mpc = "closeRaw"
    /\ rawSock' = FALSE
    /\ mpc' = "detach"
    /\ UNCHANGED <<sockOpsVars, gpc, current, faked>>

Detach ==
    /\ mpc = "detach"
    /\ attached' = FALSE
    /\ tracked' = {}
    /\ forgotten' = forgotten \cup tracked
    /\ gpc' = "none"
    /\ mpc' = "idle"
    /\ UNCHANGED <<enabled, targetPorts, excludeIps, bytesSent, ringVars, connVars,
                   rawSock, current, faked>>

-----------------------------------------------------------------------------
(***************************************************************************)
(* The goroutine readEvents.  Any error of Read ends it, and the only one  *)
(* that is expected is that of a closed reader.                            *)
(***************************************************************************)
Read ==
    /\ gpc = "read"
    /\ reading /\ events # <<>>
    /\ current' = {Head(events)}
    /\ events' = Tail(events)
    /\ gpc' = "inject"
    /\ UNCHANGED <<attached, mapVars, reading, connVars, forgotten, mpc, rawSock, faked>>

ReadFailsIgnored ==         \* mutant: errors of Read are skipped
    /\ gpc = "read"
    /\ UNCHANGED vars

ReadFails ==
    /\ gpc = "read"
    /\ gpc' = "gone"
    /\ UNCHANGED <<sockOpsVars, mpc, rawSock, current, faked>>

injectAgain ==              \* mutant: the event is handled twice
    /\ gpc = "inject"
    /\ \E c \in current : faked' = [faked EXCEPT ![c] = Append(@, wire[c])]
    /\ \/ current' = {} /\ gpc' = "read"
       \/ UNCHANGED <<current, gpc>>
    /\ UNCHANGED <<sockOpsVars, mpc, rawSock>>

injectFake ==
    /\ gpc = "inject"
    /\ \E c \in current :
          \/ faked' = [faked EXCEPT ![c] = Append(@, wire[c])]
          \/ UNCHANGED faked                \* SendFake fails: a warning, no retry
    /\ current' = {}
    /\ gpc' = "read"
    /\ UNCHANGED <<sockOpsVars, mpc, rawSock>>

Start == \/ Load \/ Attach \/ pushConfig \/ pushTargetPorts \/ pushExcludeIPs
         \/ OpenReader \/ OpenRawSock \/ Spawn \/ StartFails

StopStep == CloseReader \/ Wait \/ CloseRaw \/ Detach

readEvents == Read \/ ReadFails \/ injectFake

Next == \/ Start \/ Stop \/ StopStep
        \/ readEvents
        \/ Kernel /\ UNCHANGED managerVars

Spec == Init /\ [][Next]_vars

(***************************************************************************)
(* Stop runs to its end, and the goroutine is scheduled: it takes the next *)
(* event or notices that the reader has been closed.                       *)
(***************************************************************************)
ReadClosed == ReadFails /\ ~reading

FairSpec == Spec /\ WF_vars(StopStep) /\ WF_vars(injectFake) /\ WF_vars(ReadClosed)

-----------------------------------------------------------------------------
(***************************************************************************)
(* No fake is ever sent to an excluded address, not even for a connection  *)
(* made while the maps are being filled: the program is live before        *)
(* pushExcludeIPs, but the events of that time have no reader and are lost. *)
(***************************************************************************)
ExcludedNeverFaked ==
    \A c \in Conns : RemoteIp4[c] \in ExcludeIPsCfg => faked[c] = <<>>

(***************************************************************************)
(* A connection gets at most one fake, and only to a port in the set.      *)
(***************************************************************************)
FakedOnce ==
    \A c \in Conns : /\ Len(faked[c]) <= 1
                     /\ faked[c] # <<>> => RemotePort[c] \in TargetPortsCfg

(* The callback runs for every segment of c, and has seen all of its bytes. *)
Counted(c) ==
    writeHdrFlag[c] /\ bytesSent[c] = wire[c] /\ wire[c] <= RestoreAfterBytes

(***************************************************************************)
(* A connection with a shrunk MSS is in the map and its bytes are counted, *)
(* so that its MSS will be restored.  It is left with a small MSS only     *)
(* when its entry was evicted or went away with the program, or when the   *)
(* kernel refused its entry, its callback flag or the restored MSS.  An    *)
(* entry whose callback was not refused counts all bytes from the first,   *)
(* and no entry stays behind once the MSS is restored.                     *)
(***************************************************************************)
ShrunkIsTracked ==
    \A c \in Conns :
        /\ mss[c] = "small" => \/ c \in tracked /\ Counted(c)
                               \/ c \in forgotten
                               \/ refused[c] \cap {"entry", "flag", "restore"} # {}
        /\ c \in tracked => /\ c \notin forgotten
                            /\ mss[c] = "small" \/ "shrink" \in refused[c]
                            /\ Counted(c) \/ (~writeHdrFlag[c] /\ "flag" \in refused[c])

(***************************************************************************)
(* The MSS is back to normal only when more than RestoreAfterBytes have    *)
(* been sent, so the ClientHello has left in small segments.               *)
(***************************************************************************)
RestoredLate ==
    \A c \in Conns : mss[c] = "normal" => wire[c] > RestoreAfterBytes

(***************************************************************************)
(* m.rawSock is not nil while injectFake uses it: Stop closes the reader   *)
(* and waits for the goroutine before it closes the socket.                *)
(***************************************************************************)
RawSockInUse == gpc \in {"read", "inject"} => rawSock

(***************************************************************************)
(* When the manager is idle everything a Start acquired is released, also  *)
(* after a Start that failed half-way.                                     *)
(***************************************************************************)
IdleIsClean ==
    mpc = "idle" => ~attached /\ ~reading /\ ~rawSock /\ gpc = "none" /\ tracked = {}

(***************************************************************************)
(* Stop returns: wg.Wait is not forever.                                   *)
(***************************************************************************)
StopReturns == mpc = "close" ~> mpc = "idle"

(***************************************************************************)
(* README.md:186: "the fake packet is sent before the application can      *)
(* write any data. This guarantees correct ordering".                      *)
(***************************************************************************)
FakeBeforeData == \A c \in Conns : \A k \in DOMAIN faked[c] : faked[c][k] = 0

-----------------------------------------------------------------------------
(***************************************************************************)
(* The inductive invariants behind these properties (EbpfManager_proofs).  *)
(* HandleInv: which step of Start or Stop each handle belongs to.          *)
(***************************************************************************)
HandleInv ==
    /\ reading => mpc \in {"raw", "spawn", "running", "close"}
    /\ attached => mpc \notin {"idle", "attach"}
    /\ rawSock => mpc \in {"spawn", "running", "close", "wait", "closeRaw"}
    /\ mpc = "spawn" => rawSock
    /\ gpc # "none" => mpc \in {"running", "close", "wait", "closeRaw", "detach"}
    /\ gpc \in {"read", "inject"} => rawSock /\ mpc \in {"running", "close", "wait"}
    /\ tracked # {} => Active

(* What the map knows of each connection. *)
TrackInv ==
    /\ ShrunkIsTracked
    /\ RestoredLate
    /\ \A c \in Conns : state[c] = "new" => /\ wire[c] = 0 /\ mss[c] = "default"
                                           /\ c \notin tracked \cup forgotten

(* The connections whose fake is still to be sent, or has been. *)
Eligible(c) ==
    /\ RemoteIp4[c] \notin ExcludeIPsCfg
    /\ RemotePort[c] \in TargetPortsCfg
    /\ state[c] # "new"

FakeInv ==
    /\ mpc = "reader" \/ reading => ExcludeIPsCfg \subseteq excludeIps
    /\ ~reading => events = <<>>
    /\ targetPorts \subseteq TargetPortsCfg
    /\ \A j \in DOMAIN events : /\ Eligible(events[j])
                                /\ faked[events[j]] = <<>>
                                /\ events[j] \notin current
    /\ \A j, k \in DOMAIN events : events[j] = events[k] => j = k
    /\ \A c \in current : /\ Eligible(c)
                          /\ faked[c] = <<>>
                          /\ \A d \in current : c = d
    /\ gpc # "inject" => current = {}
    /\ \A c \in Conns : /\ Len(faked[c]) <= 1
                        /\ faked[c] # <<>> => Eligible(c)
=============================================================================
