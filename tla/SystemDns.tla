------------------------------- MODULE SystemDns -------------------------------
(***************************************************************************)
(* The host's DNS settings on macOS (networksetup) and Windows (netsh):    *)
(* pkg/dns/system_darwin.go and system_windows.go, the engine that calls   *)
(* them (run_tun.go; TunManager has the rest of its Start and Stop), and   *)
(* `gecit cleanup` (cleanup_darwin.go, cleanup_windows.go), which a user   *)
(* may run at any time.  The run and the cleanup die at any step, commands *)
(* and writes of the backup file fail, the default route moves to another  *)
(* service.  One run at a time: a second one cannot bind 127.0.0.1:53.     *)
(***************************************************************************)
EXTENDS Naturals, Sequences

CONSTANTS
    Services,   \* network services (macOS), interfaces (Windows)
    DefaultService,   \* "Wi-Fi" or "Ethernet": what cleanup assumes
    Addrs,      \* addresses of other DNS servers
    Loopback,      \* 127.0.0.1
    Dhcp,       \* the word that asks for DHCP's servers: "empty", "dhcp"
    Lease,      \* the address DHCP gives
    HostSettings    \* the settings a host may have: lists of static servers

ASSUME WordsAssumption ==
    /\ DefaultService \in Services
    /\ Lease \in Addrs
    /\ Loopback \notin Addrs
    /\ Dhcp \notin Addrs \cup {Loopback}
    /\ Services \cap (Addrs \cup {Loopback, Dhcp}) = {}
    /\ HostSettings \subseteq Seq(Addrs)

(***************************************************************************)
(* A setting is the list of static servers, empty when DHCP's are used.    *)
(* The backup file is a sequence of lines, each a word; there is one file  *)
(* or none.                                                                *)
(***************************************************************************)
BackupLines == Addrs \cup Services \cup {Loopback, Dhcp}
NoFile == {}
IsFile(f) == f = NoFile \/ \E c \in f : c \in Seq(BackupLines) /\ f = {c}

VARIABLES
    platform,   \* "darwin" or "windows"
    own,        \* the settings the host had before gecit
    setting,    \* each service's DNS setting
    active,     \* the service with the default route
    backup,     \* the backup file
    routes,     \* traffic is routed to the TUN device
    rpc,        \* the step of the run, "down" when there is none
    svc,        \* savedService, savedInterface
    savedDNS,   \* macOS: the setting SetSystemDNS has read
    held,       \* per process: the backup file as read
    cpc,        \* the step of the cleanup
    orphaned,   \* history: services left redirected by a run that died
    accidents   \* history: what went wrong, see Accidents

hostVars == <<platform, own>>
runVars == <<svc, savedDNS>>
dnsVars == <<platform, own, setting, active, backup, routes, rpc, svc, savedDNS, held, cpc,
             orphaned, accidents>>

(***************************************************************************)
(* The accidents that excuse a loss.  narrowed: Windows saved less than    *)
(* the setting.  unread: a run overwrote the backup, or saved an empty     *)
(* one, while a service was redirected.  unsaved: the backup could not be  *)
(* written, or only truncated.  unset: a command that should have restored *)
(* a setting failed.  misread: cleanup took a server for the service.      *)
(* beside: a cleanup and a run were alive at the same time.  overlap:      *)
(* a run started in the middle of a cleanup, or cleanup read or changed    *)
(* something of a live one, or of one that had started meanwhile.          *)
(***************************************************************************)
Accidents == {"narrowed", "unread", "unsaved", "unset", "misread", "beside", "overlap"}

SetDnsPcs == {"detect", "readBack", "putBack", "get", "truncate", "write", "point"}
StopDnsPcs == {"reread", "undo", "remove", "unlisten"}
DnsPcs == {"down", "route", "up"} \cup SetDnsPcs \cup StopDnsPcs
CleanupPcs == {"idle", "routes", "read", "undo", "remove", "fallback"}

DnsTypeOK ==
    /\ platform \in {"darwin", "windows"}
    /\ own \in [Services -> HostSettings]
    /\ setting \in [Services -> Seq(Addrs \cup {Loopback})]
    /\ active \in Services
    /\ IsFile(backup)
    /\ routes \in BOOLEAN
    /\ rpc \in DnsPcs
    /\ svc \in Services
    /\ savedDNS \in Seq(Addrs \cup {Loopback})
    /\ DOMAIN held = {"run", "cleanup"}
    /\ IsFile(held["run"]) /\ IsFile(held["cleanup"])
    /\ cpc \in CleanupPcs
    /\ orphaned \subseteq Services
    /\ accidents \subseteq Accidents

DnsInit ==
    /\ platform \in {"darwin", "windows"}
    /\ own \in [Services -> HostSettings]
    /\ setting = own
    /\ active \in Services
    /\ backup = NoFile
    /\ routes = FALSE
    /\ rpc = "down"
    /\ svc = DefaultService
    /\ savedDNS = <<>>
    /\ held = [p \in {"run", "cleanup"} |-> NoFile]
    /\ cpc = "idle"
    /\ orphaned = {}
    /\ accidents = {}

-----------------------------------------------------------------------------
Accident(b, scar) == IF b THEN {scar} ELSE {}
Redirected == {s \in Services : setting[s] = <<Loopback>>}

(***************************************************************************)
(* networksetup -setdnsservers, netsh interface ip set dns: refused if an  *)
(* argument is not an address, or if the service does not exist; and they  *)
(* may fail.                                                               *)
(***************************************************************************)
ValidWords(s, words) ==
    /\ s \in Services
    /\ words = <<Dhcp>> \/ words \in Seq(Addrs \cup {Loopback})

CommandUnchecked(s, words, ok) ==       \* mutant: whatever is asked for becomes the setting
    /\ setting' = IF ok THEN [setting EXCEPT ![s] = words] ELSE setting
    /\ orphaned' = {t \in orphaned : setting'[t] = <<Loopback>>}

Command(s, words, ok) ==
    /\ setting' = IF ok /\ ValidWords(s, words)
                  THEN [setting EXCEPT ![s] = IF words = <<Dhcp>> THEN <<>> ELSE words]
                  ELSE setting
    /\ orphaned' = {t \in orphaned : setting'[t] = <<Loopback>>}

ReadBackup(p) == held' = [held EXCEPT ![p] = backup]
DropHeld(p) == held' = [held EXCEPT ![p] = NoFile]

(* The words a setting is given with; none at all asks for DHCP's servers. *)
WordsFor(servers) == IF servers = <<>> THEN <<Dhcp>> ELSE servers

Prev(c) == IF c = <<>> THEN Dhcp ELSE c[1]
ServiceAssumed(c, default) == default       \* mutant: the second line is not read
Service(c, default) == IF Len(c) >= 2 THEN c[2] ELSE default

-----------------------------------------------------------------------------
(***************************************************************************)
(* SetSystemDNS, after dns.Start has bound the port: finds the service,    *)
(* puts back what a crashed run left in the backup file, saves the setting *)
(* and replaces it.                                                        *)
(***************************************************************************)
Listen ==
    /\ rpc = "down"
    /\ rpc' = "detect"
    /\ accidents' = accidents \cup (IF cpc # "idle" THEN {"beside", "overlap"} ELSE {})
    /\ UNCHANGED <<hostVars, setting, active, backup, routes, runVars, held, cpc, orphaned>>

Detect ==
    /\ rpc = "detect"
    /\ \/ svc' = active /\ rpc' = "readBack"
       \/ platform = "windows" /\ rpc' = "unlisten" /\ UNCHANGED svc
    /\ UNCHANGED <<hostVars, setting, active, backup, routes, savedDNS, held, cpc, orphaned,
                   accidents>>

ReadBack ==
    /\ rpc = "readBack"
    /\ ReadBackup("run")
    /\ rpc' = "putBack"
    /\ UNCHANGED <<hostVars, setting, active, backup, routes, runVars, cpc, orphaned, accidents>>

(***************************************************************************)
(* macOS passes every word of the file, the service's name among them, for *)
(* the service that is active now: networksetup refuses that.              *)
(***************************************************************************)
PutBackCommand(c) ==
    CASE platform = "darwin" /\ c \notin {<<>>, <<Loopback>>} -> {<<svc, c>>}
      [] platform = "windows" /\ Len(c) >= 2 /\ Prev(c) # Loopback -> {<<c[2], <<c[1]>>>>}
      [] OTHER -> {}

PutBack ==
    /\ rpc = "putBack"
    /\ LET commands == UNION {PutBackCommand(c) : c \in held["run"]} IN
        \/ \E a \in commands, ok \in BOOLEAN : Command(a[1], a[2], ok)
        \/ commands = {} /\ UNCHANGED <<setting, orphaned>>
    /\ DropHeld("run")
    /\ rpc' = "get"
    /\ UNCHANGED <<hostVars, active, backup, routes, runVars, cpc, accidents>>

(* Without the current setting macOS goes on, and saves nothing. *)
Get ==
    /\ rpc = "get"
    /\ platform = "darwin"
    /\ \/ savedDNS' = setting[svc] /\ rpc' = "truncate" /\ UNCHANGED accidents
       \/ rpc' = "point" /\ accidents' = accidents \cup {"unsaved"} /\ UNCHANGED savedDNS
    /\ UNCHANGED <<hostVars, setting, active, backup, routes, svc, held, cpc, orphaned>>

(***************************************************************************)
(* getCurrentDNS: the first address netsh shows that is not a loopback     *)
(* one, of DHCP's servers too; "dhcp" if there is none or netsh fails.     *)
(***************************************************************************)
getCurrentDNS(s) ==
    CASE setting[s] = <<>> -> {<<>>, <<Lease>>}
      [] setting[s] = <<Loopback>> -> {<<>>}
      [] OTHER -> {<<>>, <<setting[s][1]>>}

GetCurrent ==
    /\ rpc = "get"
    /\ platform = "windows"
    /\ savedDNS' \in getCurrentDNS(svc)
    /\ rpc' = "truncate"
    /\ accidents' = accidents \cup Accident(savedDNS' # setting[svc], "narrowed")
    /\ UNCHANGED <<hostVars, setting, active, backup, routes, svc, held, cpc, orphaned>>

(* os.WriteFile: the error is ignored, wherever it comes from. *)
TruncateBackup ==
    /\ rpc = "truncate"
    /\ \/ backup' = {<<>>} /\ rpc' = "write"
          /\ accidents' = accidents \cup Accident(Redirected # {}, "unread")
       \/ rpc' = "point" /\ accidents' = accidents \cup {"unsaved"} /\ UNCHANGED backup
    /\ UNCHANGED <<hostVars, setting, active, routes, runVars, held, cpc, orphaned>>

WriteBackup ==
    /\ rpc = "write"
    /\ \/ backup' = {Append(WordsFor(savedDNS), svc)} /\ UNCHANGED accidents
       \/ accidents' = accidents \cup {"unsaved"} /\ UNCHANGED backup
    /\ rpc' = "point"
    /\ UNCHANGED <<hostVars, setting, active, routes, runVars, held, cpc, orphaned>>

(* If the setting cannot be replaced, Start stops the server and fails. *)
Point ==
    /\ rpc = "point"
    /\ \/ /\ setting' = [setting EXCEPT ![svc] = <<Loopback>>]
          /\ orphaned' = orphaned \ {svc}
          /\ rpc' = "route"
       \/ rpc' = "unlisten" /\ UNCHANGED <<setting, orphaned>>
    /\ UNCHANGED <<hostVars, active, backup, routes, runVars, held, cpc, accidents>>

-----------------------------------------------------------------------------
(***************************************************************************)
(* mgr.Start and mgr.Stop, of which the routes matter here, and            *)
(* RestoreSystemDNS, whose errors are ignored: macOS restores what the     *)
(* process remembers, Windows what the file says.                          *)
(***************************************************************************)
Restoring == IF platform = "darwin" THEN "undo" ELSE "reread"

MgrStartTun ==
    /\ rpc = "route"
    /\ \/ routes' = TRUE /\ rpc' = "up"
       \/ rpc' = Restoring /\ UNCHANGED routes
    /\ UNCHANGED <<hostVars, setting, active, backup, runVars, held, cpc, orphaned, accidents>>

MgrStopTun ==
    /\ rpc = "up"
    /\ routes' = FALSE
    /\ rpc' = Restoring
    /\ UNCHANGED <<hostVars, setting, active, backup, runVars, held, cpc, orphaned, accidents>>

Reread ==
    /\ rpc = "reread"
    /\ ReadBackup("run")
    /\ rpc' = "undo"
    /\ UNCHANGED <<hostVars, setting, active, backup, routes, runVars, cpc, orphaned, accidents>>

CommandRestored(ok) ==
    IF platform = "darwin"
    THEN Command(svc, WordsFor(savedDNS), ok)
    ELSE \/ \E c \in held["run"] : Command(Service(c, svc), <<Prev(c)>>, ok)
         \/ held["run"] = NoFile /\ Command(svc, <<Dhcp>>, ok)

(* Without a file Windows has nothing to remove. *)
Undo ==
    /\ rpc = "undo"
    /\ \E ok \in BOOLEAN :
        /\ CommandRestored(ok)
        /\ accidents' = accidents \cup Accident(~ok, "unset")
    /\ rpc' = IF platform = "windows" /\ held["run"] = NoFile THEN "unlisten" ELSE "remove"
    /\ DropHeld("run")
    /\ UNCHANGED <<hostVars, active, backup, routes, runVars, cpc>>

RemoveBackup ==
    /\ rpc = "remove"
    /\ backup' = NoFile
    /\ rpc' = "unlisten"
    /\ UNCHANGED <<hostVars, setting, active, routes, runVars, held, cpc, orphaned, accidents>>

(* dns.Stop, after which the process ends and its memory is gone. *)
Forget == svc' = DefaultService /\ savedDNS' = <<>> /\ DropHeld("run")

UnlistenEarly ==    \* mutant: the server stops before the setting is restored
    /\ rpc \in {"undo", "unlisten"}
    /\ rpc' = "down"
    /\ Forget
    /\ UNCHANGED <<hostVars, setting, active, backup, routes, cpc, orphaned, accidents>>

Unlisten ==
    /\ rpc = "unlisten"
    /\ rpc' = "down"
    /\ Forget
    /\ UNCHANGED <<hostVars, setting, active, backup, routes, cpc, orphaned, accidents>>

(* Windows may keep the routes of a device that is gone. *)
Crash ==
    /\ rpc # "down"
    /\ rpc' = "down"
    /\ Forget
    /\ routes' \in (IF platform = "darwin" THEN {FALSE} ELSE {FALSE, routes})
    /\ orphaned' = Redirected
    /\ accidents' = accidents \cup Accident(rpc = "write", "unsaved")
    /\ UNCHANGED <<hostVars, setting, active, backup, cpc>>

-----------------------------------------------------------------------------
(***************************************************************************)
(* `gecit cleanup`.  On macOS it takes the first two lines of the file for *)
(* the server and the service: with a second server it restores nothing    *)
(* and still removes the file.                                             *)
(***************************************************************************)
CleanupStarts ==
    /\ cpc = "idle"
    /\ cpc' = IF platform = "windows" THEN "routes" ELSE "read"
    /\ accidents' = accidents \cup Accident(rpc # "down", "beside")
    /\ UNCHANGED <<hostVars, setting, active, backup, routes, rpc, runVars, held, orphaned>>

Overlapping(changed) == Accident(rpc # "down" /\ changed, "overlap")

CleanRoutes ==
    /\ cpc = "routes"
    /\ cpc' = "read"
    /\ \/ routes' = FALSE /\ accidents' = accidents \cup Overlapping(routes)
       \/ UNCHANGED routes /\ accidents' = accidents \cup {"unset"}
    /\ UNCHANGED <<hostVars, setting, active, backup, rpc, runVars, held, orphaned>>

CleanReadBackup ==
    /\ cpc = "read"
    /\ ReadBackup("cleanup")
    /\ cpc' = CASE backup # NoFile -> "undo"
                 [] platform = "darwin" -> "fallback"
                 [] OTHER -> "idle"
    /\ accidents' = accidents \cup Overlapping(backup # NoFile)
    /\ UNCHANGED <<hostVars, setting, active, backup, routes, rpc, runVars, orphaned>>

CleanUndo ==
    /\ cpc = "undo"
    /\ cpc' = "remove"
    /\ \E c \in held["cleanup"], ok \in BOOLEAN :
        LET s == Service(c, DefaultService) IN
        /\ Command(s, <<Prev(c)>>, ok)
        /\ accidents' = accidents \cup Overlapping(TRUE) \cup Accident(~ok, "unset")
                          \cup Accident(~ValidWords(s, <<Prev(c)>>), "misread")
    /\ UNCHANGED <<hostVars, active, backup, routes, rpc, runVars, held>>

CleanRemoveOnly ==      \* mutant: what a damaged file leaves redirected is not looked at
    /\ cpc = "remove"
    /\ backup' = NoFile
    /\ cpc' = "idle"
    /\ DropHeld("cleanup")
    /\ accidents' = accidents \cup Overlapping(TRUE)
    /\ UNCHANGED <<hostVars, setting, active, routes, rpc, runVars, orphaned>>

CleanRemove ==
    /\ cpc = "remove"
    /\ backup' = NoFile
    /\ cpc' = IF platform = "darwin" THEN "fallback" ELSE "idle"
    /\ DropHeld("cleanup")
    /\ accidents' = accidents \cup Overlapping(TRUE)
    /\ UNCHANGED <<hostVars, setting, active, routes, rpc, runVars, orphaned>>

(* macOS: Wi-Fi is reset to DHCP if it is still redirected. *)
CleanFallback ==
    /\ cpc = "fallback"
    /\ cpc' = "idle"
    /\ LET stuck == setting[DefaultService] = <<Loopback>> IN
        \/ /\ stuck
           /\ Command(DefaultService, <<Dhcp>>, TRUE)
           /\ accidents' = accidents \cup Accident(rpc # "down" \/ backup # NoFile, "overlap")
        \/ ~stuck /\ UNCHANGED <<setting, orphaned, accidents>>
        \/ UNCHANGED <<setting, orphaned>> /\ accidents' = accidents \cup {"unset"}
    /\ UNCHANGED <<hostVars, active, backup, routes, rpc, runVars, held>>

CleanDies ==
    /\ cpc # "idle"
    /\ cpc' = "idle"
    /\ DropHeld("cleanup")
    /\ UNCHANGED <<hostVars, setting, active, backup, routes, rpc, runVars, orphaned, accidents>>

(* The default route moves to another service. *)
Move ==
    /\ active' \in Services \ {active}
    /\ UNCHANGED <<hostVars, setting, backup, routes, rpc, runVars, held, cpc, orphaned, accidents>>

Run ==
    \/ Listen \/ Detect \/ ReadBack \/ PutBack \/ Get \/ GetCurrent \/ TruncateBackup \/ WriteBackup
    \/ Point \/ MgrStartTun \/ MgrStopTun \/ Reread \/ Undo \/ RemoveBackup \/ Unlisten \/ Crash

Cleanup ==
    \/ CleanupStarts \/ CleanRoutes \/ CleanReadBackup \/ CleanUndo \/ CleanRemove
    \/ CleanFallback \/ CleanDies

DnsNext == Run \/ Cleanup \/ Move

DnsSpec == DnsInit /\ [][DnsNext]_dnsVars

-----------------------------------------------------------------------------
(***************************************************************************)
(* Between runs, when no file is left for cleanup, every service has its   *)
(* own setting again, after any sequence of runs, crashes and cleanups     *)
(* without an accident.  It does not say that a host gets back what the    *)
(* documentation promises: of several servers Windows keeps the first, and *)
(* DHCP may become its server (excused within these limits), and on macOS  *)
(* a run after a crash (unread) and a cleanup of two servers (misread)     *)
(* lose the setting: see RestoredAsPromised.                               *)
(***************************************************************************)
HostRestored ==
    /\ rpc = "down" /\ cpc = "idle" /\ backup = NoFile
    /\ accidents \subseteq {"narrowed", "beside"}
    => \A s \in Services :
        \/ setting[s] = own[s]
        \/ /\ "narrowed" \in accidents
           /\ \/ setting[s] \in {<<>>, <<Lease>>}
              \/ own[s] # <<>> /\ setting[s] = <<own[s][1]>>

(***************************************************************************)
(* README.md:104: "Press `Ctrl+C` to stop - everything is restored (DNS,   *)
(* routes, BPF programs)"; README.md:106: "If gecit crashes, run `sudo     *)
(* gecit cleanup` to restore system settings."  When Stop has come to the  *)
(* end of RestoreSystemDNS, and when a cleanup with nothing alive beside   *)
(* it has, every service has its own setting and no route is left, if      *)
(* nothing has failed: narrowed, unread and misread are no failures, they  *)
(* are what the code does.                                                 *)
(***************************************************************************)
RestoredAsPromised ==
    [][ /\ \/ RemoveBackup
           \/ (CleanReadBackup \/ CleanRemove \/ CleanFallback) /\ cpc' = "idle"
        /\ accidents' \subseteq {"narrowed", "unread", "misread"}
        => setting' = own /\ ~routes' ]_dnsVars

(***************************************************************************)
(* A cleanup that goes through, without a run beside it and with all its   *)
(* commands obeyed, leaves neither gecit's routes on Windows nor Wi-Fi     *)
(* redirected on macOS, whatever the file said and whoever had damaged it. *)
(***************************************************************************)
CleanupFrees ==
    [][ /\ (CleanReadBackup \/ CleanRemove \/ CleanFallback) /\ cpc' = "idle"
        /\ accidents' \cap {"beside", "unset"} = {}
        => IF platform = "darwin"
           THEN setting'[DefaultService] # <<Loopback>>
           ELSE ~routes' ]_dnsVars

(***************************************************************************)
(* The backup file saves a service's setting if it names the service and   *)
(* what undoes its redirection.                                            *)
(***************************************************************************)
SavesSetting(s) ==
    \E c \in backup :
        /\ Len(c) >= 2 /\ c[Len(c)] = s
        /\ \/ SubSeq(c, 1, Len(c) - 1) = WordsFor(own[s])
           \/ "narrowed" \in accidents /\ Prev(c) \in {Dhcp, Lease, WordsFor(own[s])[1]}

(* Except after an accident, this is the promise of DnsRedirection. *)
DnsPromise == INSTANCE DnsRedirection WITH
    served <- rpc # "down",
    redirected <- Redirected,
    saved <- {s \in Services : SavesSetting(s)},
    intact <- accidents \subseteq {"narrowed", "beside"}

DnsPromiseKept == DnsPromise!Spec
=============================================================================
