------------------------------- MODULE TunManager -------------------------------
(***************************************************************************)
(* The engine of macOS and Windows (run_tun.go) and the Manager it starts  *)
(* and stops (pkg/tun/manager.go): raw socket, sequence tracker, network   *)
(* monitors, TUN device and stack, around them the DNS server and the      *)
(* host's DNS setting.  Start and Stop run in one thread; each acquisition *)
(* or release is a step, since connections are handled meanwhile           *)
(* (TunHandler).                                                           *)
(***************************************************************************)
EXTENDS FiniteSets

(***************************************************************************)
(* raw: m.rawSock.  capture: the tracker's pcap handle and goroutine.      *)
(* netmon, ifmon: the monitors.  device: the TUN device.  routes: the      *)
(* device has started and traffic is routed to it.  stack: the stack is    *)
(* allocated.  served: it has started and accepts connections.             *)
(***************************************************************************)
Handles == {"raw", "capture", "netmon", "ifmon", "device", "routes", "stack", "served"}

StartPcs == {"redirect", "raw", "track", "monitors", "netmon", "ifmon", "device",
             "stack", "startDevice", "startStack"}
UndoPcs == {"undoRestore", "undoListen"}
StopPcs == {"closeStack", "closeDevice", "closeRaw", "closeIf", "closeNet", "untrack",
            "restore", "unlisten"}
\* failed, stopped: the call has returned.  dead: the process has panicked
Pcs == {"down", "up", "failed", "stopped", "dead"} \cup StartPcs \cup UndoPcs \cup StopPcs

VARIABLES
    dohEnabled,     \* e.dohEnabled
    pc,             \* the step Start or Stop is about to take
    open,           \* the handles the process holds
    tracker,        \* globalSeqTracker is not nil
    listening,      \* the DNS server has 127.0.0.1:53
    redirected,     \* the host's DNS is 127.0.0.1
    unrestored,     \* history: RestoreSystemDNS has failed
    diedAt          \* history: the step the process died at, "up" if it has not

managerVars == <<dohEnabled, pc, open, tracker, listening, redirected, unrestored, diedAt>>
dnsVars == <<listening, redirected, unrestored>>

ManagerTypeOK ==
    /\ dohEnabled \in BOOLEAN
    /\ pc \in Pcs
    /\ open \subseteq Handles
    /\ tracker \in BOOLEAN
    /\ tracker => "capture" \in open
    /\ listening \in BOOLEAN
    /\ redirected \in BOOLEAN
    /\ unrestored \in BOOLEAN
    /\ diedAt \in Pcs

ManagerInit ==
    /\ dohEnabled \in BOOLEAN
    /\ pc = "down"
    /\ open = {}
    /\ tracker = FALSE
    /\ listening = FALSE
    /\ redirected = FALSE
    /\ unrestored = FALSE
    /\ diedAt = "up"

-----------------------------------------------------------------------------
(***************************************************************************)
(* tunEngine.Start, up to the call of mgr.Start.                           *)
(***************************************************************************)
StartPlain ==
    /\ pc = "down"
    /\ ~dohEnabled
    /\ pc' = "raw"
    /\ UNCHANGED <<dohEnabled, open, tracker, dnsVars, diedAt>>

Listen ==
    /\ pc = "down"
    /\ dohEnabled
    /\ \/ listening' = TRUE /\ pc' = "redirect"
       \/ pc' = "failed" /\ UNCHANGED listening
    /\ UNCHANGED <<dohEnabled, open, tracker, redirected, unrestored, diedAt>>

Redirect ==
    /\ pc = "redirect"
    /\ \/ redirected' = TRUE /\ pc' = "raw" /\ UNCHANGED listening
       \/ listening' = FALSE /\ pc' = "failed" /\ UNCHANGED redirected
    /\ UNCHANGED <<dohEnabled, open, tracker, unrestored, diedAt>>

(***************************************************************************)
(* Manager.Start.  A step opens a handle, or fails, closes some of what    *)
(* the earlier ones have opened and has tunEngine.Start undo the rest.     *)
(***************************************************************************)
Fail(closed) ==
    /\ open' = open \ closed
    /\ pc' = IF dohEnabled THEN "undoRestore" ELSE "failed"

StartUnchanged == UNCHANGED <<dohEnabled, dnsVars, diedAt>>

OpenRaw ==
    /\ pc = "raw"
    /\ \/ open' = open \cup {"raw"} /\ pc' = "track"
       \/ Fail({})
    /\ UNCHANGED tracker /\ StartUnchanged

(* Without a tracker Start goes on, and every fake gets placeholders. *)
StartSeqTracker ==
    /\ pc = "track"
    /\ pc' = "monitors"
    /\ \/ open' = open \cup {"capture"} /\ tracker' = TRUE
       \/ UNCHANGED <<open, tracker>>
    /\ StartUnchanged

CreateMonitors ==
    /\ pc = "monitors"
    /\ \/ pc' = "netmon" /\ UNCHANGED open
       \/ Fail({"raw"})
    /\ UNCHANGED tracker /\ StartUnchanged

StartNetworkMonitor ==
    /\ pc = "netmon"
    /\ \/ open' = open \cup {"netmon"} /\ pc' = "ifmon"
       \/ Fail({"raw"})
    /\ UNCHANGED tracker /\ StartUnchanged

StartInterfaceMonitor ==
    /\ pc = "ifmon"
    /\ \/ open' = open \cup {"ifmon"} /\ pc' = "device"
       \/ Fail({"raw", "netmon"})
    /\ UNCHANGED tracker /\ StartUnchanged

OpenDevice ==
    /\ pc = "device"
    /\ \/ open' = open \cup {"device"} /\ pc' = "stack"
       \/ Fail({"raw"})
    /\ UNCHANGED tracker /\ StartUnchanged

NewStack ==
    /\ pc = "stack"
    /\ \/ open' = open \cup {"stack"} /\ pc' = "startDevice"
       \/ Fail({"raw", "device"})
    /\ UNCHANGED tracker /\ StartUnchanged

StartDevice ==
    /\ pc = "startDevice"
    /\ \/ open' = open \cup {"routes"} /\ pc' = "startStack"
       \/ Fail({"raw", "device", "stack"})
    /\ UNCHANGED tracker /\ StartUnchanged

StartStackKeepsDevice ==    \* mutant: the device is left open
    /\ pc = "startStack"
    /\ \/ open' = open \cup {"served"} /\ pc' = "up"
       \/ Fail({"raw"})
    /\ UNCHANGED tracker /\ StartUnchanged

(* The stack is not closed when it fails to start. *)
StartStack ==
    /\ pc = "startStack"
    /\ \/ open' = open \cup {"served"} /\ pc' = "up"
       \/ Fail({"raw", "device", "routes"})
    /\ UNCHANGED tracker /\ StartUnchanged

(***************************************************************************)
(* tunEngine.Start after mgr.Start has failed: errors are ignored.         *)
(***************************************************************************)
RestoreSystemDNS ==
    \/ redirected' = FALSE /\ UNCHANGED unrestored
    \/ unrestored' = TRUE /\ UNCHANGED redirected

UndoRestore ==
    /\ pc = "undoRestore"
    /\ RestoreSystemDNS
    /\ pc' = "undoListen"
    /\ UNCHANGED <<dohEnabled, open, tracker, listening, diedAt>>

UndoListen ==
    /\ pc = "undoListen"
    /\ listening' = FALSE
    /\ pc' = "failed"
    /\ UNCHANGED <<dohEnabled, open, tracker, redirected, unrestored, diedAt>>

-----------------------------------------------------------------------------
(***************************************************************************)
(* Manager.Stop; Cancel is the signal in runEngine with what it sets off   *)
(* first.  The tracker is forgotten, its capture goes on.                  *)
(***************************************************************************)
Cancel ==
    /\ pc = "up"
    /\ pc' = "closeStack"
    /\ UNCHANGED <<dohEnabled, open, tracker, dnsVars, diedAt>>

Cancelled == pc \in StopPcs \cup {"stopped"}    \* m.ctx is done

Closes(from, closed, to) ==
    /\ pc = from
    /\ open' = open \ closed
    /\ pc' = to
    /\ UNCHANGED <<dohEnabled, tracker, dnsVars, diedAt>>

CloseStack == Closes("closeStack", {"stack", "served"}, "closeDevice")
CloseDevice == Closes("closeDevice", {"device", "routes"}, "closeRaw")
CloseRaw == Closes("closeRaw", {"raw"}, "closeIf")
CloseMonitors ==
    \/ Closes("closeIf", {"ifmon"}, "closeNet")
    \/ Closes("closeNet", {"netmon"}, "untrack")

Untrack ==
    /\ pc = "untrack"
    /\ tracker' = FALSE
    /\ pc' = IF dohEnabled THEN "restore" ELSE "stopped"
    /\ UNCHANGED <<dohEnabled, open, dnsVars, diedAt>>

Restore ==
    /\ pc = "restore"
    /\ RestoreSystemDNS
    /\ pc' = "unlisten"
    /\ UNCHANGED <<dohEnabled, open, tracker, listening, diedAt>>

Unlisten ==
    /\ pc = "unlisten"
    /\ listening' = FALSE
    /\ pc' = "stopped"
    /\ UNCHANGED <<dohEnabled, open, tracker, redirected, unrestored, diedAt>>

(* The process dies: the kernel closes its handles, the host's DNS stays. *)
Die ==
    /\ pc' = "dead"
    /\ diedAt' = pc
    /\ open' = {}
    /\ tracker' = FALSE
    /\ listening' = FALSE
    /\ UNCHANGED <<dohEnabled, redirected, unrestored>>

StartSteps ==
    \/ StartPlain \/ Listen \/ Redirect \/ OpenRaw \/ StartSeqTracker \/ CreateMonitors
    \/ StartNetworkMonitor \/ StartInterfaceMonitor \/ OpenDevice \/ NewStack
    \/ StartDevice \/ StartStack \/ UndoRestore \/ UndoListen

StopSteps ==
    \/ CloseStack \/ CloseDevice \/ CloseRaw \/ CloseMonitors \/ Untrack
    \/ Restore \/ Unlisten

-----------------------------------------------------------------------------
(***************************************************************************)
(* Whatever step has failed, when Start or Stop has returned no traffic is *)
(* routed to a device without a reader and no lookup to a port without a   *)
(* server, unless the DNS setting itself could not be restored.  Only      *)
(* handles that carry no traffic stay behind: the capture, which nobody    *)
(* stops, the monitors, and the stack that failed to start.                *)
(***************************************************************************)
HostReleased ==
    pc \in {"failed", "stopped"} =>
        /\ redirected => unrestored
        /\ ~listening
        /\ open \subseteq {"capture", "netmon", "ifmon", "stack"}
        /\ pc = "stopped" => open \subseteq {"capture"}
        /\ "stack" \in open => "ifmon" \in open
=============================================================================
