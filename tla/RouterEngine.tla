------------------------------ MODULE RouterEngine ------------------------------
(***************************************************************************)
(* pkg/router/engine.go and the Start and Stop of runner_linux.go: router  *)
(* mode's nftables table, its NFQUEUE worker, and the Engine that installs *)
(* and removes both.  An engine is a process (`gecit router run`); the     *)
(* table is the host's and all of them use the same one.  A thread calls   *)
(* Start and Stop of its engine; each lock region is one step, and what    *)
(* happens between two of them interleaves.                                *)
(*                                                                         *)
(* go-nfqueue is external: its Register starts the callbacks and either    *)
(* returns nil or blocks until the context is done.                        *)
(***************************************************************************)
EXTENDS Naturals, FiniteSets

CONSTANTS
    Engines,
    Threads,
    EngineOf,       \* [Threads -> Engines]
    Runners,        \* bound: the runners created in all, one per Start
    Creator,        \* [Runners -> Threads]: the thread whose Start creates it
    None,
    RegisterModes   \* what Register may do: "returns", "blocks"

ASSUME EngineAssumption ==
    /\ EngineOf \in [Threads -> Engines]
    /\ Creator \in [Runners -> Threads]
    /\ None \notin Runners
    /\ RegisterModes \subseteq {"returns", "blocks"}

VARIABLES
    rules,      \* copies of the rules in the nftables table, 0: no table
    runner,     \* per engine: e.runner, None when nil.  cancel, doneCh and
                \* rulesInstalled are set and cleared together with it
    pc,         \* per thread: the step of Start or Stop it is about to take
    local,      \* per thread: the runner of its call
    rpc,        \* per runner: the step of its goroutine
    doneCh,     \* per runner: the channel's value, "empty" if none
    cancelled,  \* per runner: its context is done
    rawSock,    \* per runner: r.rawSock is open
    queue,      \* per runner: r.queue is open
    result,     \* per thread: the error its Start has received and will return
    scars       \* history, see Scars

vars == <<rules, runner, pc, local, rpc, doneCh, cancelled, rawSock, queue, result, scars>>
runnerVars == <<rpc, doneCh, cancelled, rawSock, queue>>

(***************************************************************************)
(* crashed: an engine died and left its table.  undeleted: a teardown      *)
(* failed.  shared: two engines used the table at once.  overlap: two      *)
(* calls of one engine were in progress at once.  raced: runner.Stop ran   *)
(* before runner.Start had ended.                                          *)
(***************************************************************************)
Scars == {"crashed", "undeleted", "shared", "overlap", "raced"}

Results == {"nil", "err"}
RollbackPcs == {"rbClear", "rbQueue", "rbRaw", "rbTear"}
StopPcs == {"stQueue", "stRaw", "stRecv", "stTear"}
Pcs == {"idle", "setup", "publish", "select", "up"} \cup RollbackPcs \cup StopPcs
WorkPcs == {"raw", "open", "register"}
RunnerPcs == {"unused", "new", "blocked", "done"} \cup WorkPcs

TypeOK ==
    /\ rules \in Nat
    /\ runner \in [Engines -> Runners \cup {None}]
    /\ pc \in [Threads -> Pcs]
    /\ local \in [Threads -> Runners \cup {None}]
    /\ rpc \in [Runners -> RunnerPcs]
    /\ doneCh \in [Runners -> {"empty"} \cup Results]
    /\ cancelled \in [Runners -> BOOLEAN]
    /\ rawSock \in [Runners -> BOOLEAN]
    /\ queue \in [Runners -> BOOLEAN]
    /\ result \in [Threads -> Results]
    /\ scars \subseteq Scars

Init ==
    /\ rules = 0
    /\ runner = [e \in Engines |-> None]
    /\ pc = [t \in Threads |-> "idle"]
    /\ local = [t \in Threads |-> None]
    /\ rpc = [r \in Runners |-> "unused"]
    /\ doneCh = [r \in Runners |-> "empty"]
    /\ cancelled = [r \in Runners |-> FALSE]
    /\ rawSock = [r \in Runners |-> FALSE]
    /\ queue = [r \in Runners |-> FALSE]
    /\ result = [t \in Threads |-> "nil"]
    /\ scars = {}

-----------------------------------------------------------------------------
Goto(t, l) == pc' = [pc EXCEPT ![t] = l]
Mark(b, scar) == IF b THEN {scar} ELSE {}
Mine(t) == runner[EngineOf[t]]
Engine(r) == EngineOf[Creator[r]]

InCall(t) == pc[t] \notin {"idle", "up"}

Overlaps(t) == \E u \in Threads \ {t} : EngineOf[u] = EngineOf[t] /\ InCall(u)

(* The table is in use by another engine than t's. *)
Shares(t) ==
    \/ \E e \in Engines \ {EngineOf[t]} : runner[e] # None
    \/ \E u \in Threads : EngineOf[u] # EngineOf[t] /\ InCall(u) /\ pc[u] # "setup"

(***************************************************************************)
(* Start: the guard, then newRunner and the setup batch, which nft applies *)
(* as a whole or not at all, then the lock region that publishes the       *)
(* runner; the worker's goroutine starts right after it.                   *)
(***************************************************************************)
StartCheck(t) ==
    /\ pc[t] = "idle"
    /\ Mine(t) = None       \* else ErrAlreadyRunning
    /\ Goto(t, "setup")
    /\ scars' = scars \cup Mark(Overlaps(t), "overlap")
    /\ UNCHANGED <<rules, runner, local, runnerVars, result>>

Setup(t, r) ==
    /\ pc[t] = "setup"
    /\ rpc[r] = "unused" /\ Creator[r] = t
    /\ rules' = rules + 1
    /\ rpc' = [rpc EXCEPT ![r] = "new"]
    /\ local' = [local EXCEPT ![t] = r]
    /\ scars' = scars \cup Mark(Shares(t), "shared")
    /\ Goto(t, "publish")
    /\ UNCHANGED <<runner, doneCh, cancelled, rawSock, queue, result>>

SetupFails(t) ==
    /\ pc[t] = "setup"
    /\ Goto(t, "idle")
    /\ UNCHANGED <<rules, runner, local, runnerVars, result, scars>>

Publish(t) ==
    /\ pc[t] = "publish"
    /\ runner' = [runner EXCEPT ![EngineOf[t]] = local[t]]
    /\ rpc' = [rpc EXCEPT ![local[t]] = "raw"]
    /\ Goto(t, "select")
    /\ UNCHANGED <<rules, local, doneCh, cancelled, rawSock, queue, result, scars>>

(* The worker has ended within the grace period: Start rolls back. *)
SelectDone(t) ==
    LET r == local[t] IN
    /\ pc[t] = "select"
    /\ doneCh[r] # "empty"
    /\ doneCh' = [doneCh EXCEPT ![r] = "empty"]
    /\ result' = [result EXCEPT ![t] = doneCh[r]]
    /\ Goto(t, "rbClear")
    /\ UNCHANGED <<rules, runner, local, rpc, cancelled, rawSock, queue, scars>>

(* The grace period has ended: Start returns nil. *)
SelectGrace(t) ==
    /\ pc[t] = "select"
    /\ Goto(t, "up")
    /\ UNCHANGED <<rules, runner, local, runnerVars, result, scars>>

-----------------------------------------------------------------------------
(***************************************************************************)
(* The teardown batch.  Deleting a table that is not there is an error.    *)
(***************************************************************************)
Teardown ==
    \/ rules > 0 /\ rules' = 0 /\ UNCHANGED scars
    \/ rules' = rules /\ scars' = scars \cup Mark(rules > 0, "undeleted")

(* runner.Stop: the queue, then the raw socket, each if it is not nil. *)
CloseQueue(t) ==
    LET r == local[t] IN
    /\ queue' = [queue EXCEPT ![r] = FALSE]
    /\ scars' = scars \cup Mark(rpc[r] \in WorkPcs, "raced")
    /\ UNCHANGED <<rules, runner, local, rpc, doneCh, cancelled, rawSock, result>>

KeepRaw(t) ==               \* mutant: the raw socket is left open
    UNCHANGED <<rules, runner, local, runnerVars, result, scars>>

CloseRaw(t) ==
    /\ rawSock' = [rawSock EXCEPT ![local[t]] = FALSE]
    /\ UNCHANGED <<rules, runner, local, rpc, doneCh, cancelled, queue, result, scars>>

RollbackKeeps(t) ==         \* mutant: the fields are not cleared
    /\ pc[t] = "rbClear"
    /\ Goto(t, "rbQueue")
    /\ UNCHANGED <<rules, runner, local, runnerVars, result, scars>>

(* rollbackStartup, after the worker has ended within the grace period. *)
RollbackClear(t) ==
    /\ pc[t] = "rbClear"
    /\ runner' = [runner EXCEPT ![EngineOf[t]] = None]
    /\ Goto(t, "rbQueue")
    /\ UNCHANGED <<rules, local, runnerVars, result, scars>>

RollbackQueue(t) == pc[t] = "rbQueue" /\ CloseQueue(t) /\ Goto(t, "rbRaw")
RollbackRaw(t)   == pc[t] = "rbRaw" /\ CloseRaw(t) /\ Goto(t, "rbTear")

(* Start returns the worker's error, or that of the rollback, or neither. *)
RollbackTeardown(t) ==
    /\ pc[t] = "rbTear"
    /\ Teardown
    /\ Goto(t, IF result[t] = "nil" /\ rules > 0 /\ rules' = 0 THEN "up" ELSE "idle")
    /\ local' = [local EXCEPT ![t] = None]
    /\ result' = [result EXCEPT ![t] = "nil"]
    /\ UNCHANGED <<runner, runnerVars>>

-----------------------------------------------------------------------------
(***************************************************************************)
(* Stop takes what its engine has; cancels, stops the runner, waits for    *)
(* the value of its channel and removes the table.  With nothing to take   *)
(* it returns.                                                             *)
(***************************************************************************)
StopNoCancel(t) ==          \* mutant: the context is not cancelled
    LET r == Mine(t) IN
    /\ pc[t] \in {"idle", "up"}
    /\ runner' = [runner EXCEPT ![EngineOf[t]] = None]
    /\ local' = [local EXCEPT ![t] = r]
    /\ scars' = scars \cup Mark(r # None /\ Overlaps(t), "overlap")
    /\ Goto(t, IF r = None THEN "idle" ELSE "stQueue")
    /\ UNCHANGED <<rules, rpc, doneCh, cancelled, rawSock, queue, result>>

StopTake(t) ==
    LET r == Mine(t) IN
    /\ pc[t] \in {"idle", "up"}
    /\ runner' = [runner EXCEPT ![EngineOf[t]] = None]
    /\ local' = [local EXCEPT ![t] = r]
    /\ cancelled' = [q \in Runners |-> cancelled[q] \/ q = r]
    /\ scars' = scars \cup Mark(r # None /\ Overlaps(t), "overlap")
    /\ Goto(t, IF r = None THEN "idle" ELSE "stQueue")
    /\ UNCHANGED <<rules, rpc, doneCh, rawSock, queue, result>>

StopQueue(t) == pc[t] = "stQueue" /\ CloseQueue(t) /\ Goto(t, "stRaw")
StopRaw(t)   == pc[t] = "stRaw" /\ CloseRaw(t) /\ Goto(t, "stRecv")

StopReceive(t) ==
    LET r == local[t] IN
    /\ pc[t] = "stRecv"
    /\ doneCh[r] # "empty"
    /\ doneCh' = [doneCh EXCEPT ![r] = "empty"]
    /\ Goto(t, "stTear")
    /\ UNCHANGED <<rules, runner, local, rpc, cancelled, rawSock, queue, result, scars>>

StopTeardown(t) ==
    /\ pc[t] = "stTear"
    /\ Teardown
    /\ Goto(t, "idle")
    /\ local' = [local EXCEPT ![t] = None]
    /\ UNCHANGED <<runner, runnerVars, result>>

-----------------------------------------------------------------------------
(***************************************************************************)
(* The goroutine: nfqRunner.Start, and the value it leaves in doneCh.      *)
(***************************************************************************)
End(r, v) ==
    /\ rpc' = [rpc EXCEPT ![r] = "done"]
    /\ doneCh' = [doneCh EXCEPT ![r] = v]

OpenRaw(r) ==
    /\ rpc[r] = "raw"
    /\ \/ /\ rawSock' = [rawSock EXCEPT ![r] = TRUE]
          /\ rpc' = [rpc EXCEPT ![r] = "open"]
          /\ UNCHANGED doneCh
       \/ End(r, "err") /\ UNCHANGED rawSock
    /\ UNCHANGED <<rules, runner, pc, local, cancelled, queue, result, scars>>

OpenQueue(r) ==
    /\ rpc[r] = "open"
    /\ \/ /\ queue' = [queue EXCEPT ![r] = TRUE]
          /\ rpc' = [rpc EXCEPT ![r] = "register"]
          /\ UNCHANGED <<doneCh, rawSock>>
       \/ /\ rawSock[r]                         \* else panic: nil rawSock
          /\ rawSock' = [rawSock EXCEPT ![r] = FALSE]
          /\ End(r, "err")
          /\ UNCHANGED queue
    /\ UNCHANGED <<rules, runner, pc, local, cancelled, result, scars>>

Register(r) ==
    /\ rpc[r] = "register"
    /\ queue[r]                                 \* else panic: nil queue
    /\ \/ End(r, "err")
       \/ "returns" \in RegisterModes /\ End(r, "nil")
       \/ /\ "blocks" \in RegisterModes
          /\ rpc' = [rpc EXCEPT ![r] = "blocked"]
          /\ UNCHANGED doneCh
    /\ UNCHANGED <<rules, runner, pc, local, cancelled, rawSock, queue, result, scars>>

(* A blocked Register ends with its context, or when its queue is closed. *)
Unblock(r) ==
    /\ rpc[r] = "blocked"
    /\ cancelled[r] \/ ~queue[r]
    /\ End(r, "err")
    /\ UNCHANGED <<rules, runner, pc, local, cancelled, rawSock, queue, result, scars>>

(***************************************************************************)
(* A process ends without Stop: SIGKILL, SIGTERM (runRouterEngine is       *)
(* notified of Interrupt only), or a panic.  Its handles are closed.       *)
(***************************************************************************)
Dies(e) ==
    /\ pc' = [t \in Threads |-> IF EngineOf[t] = e THEN "idle" ELSE pc[t]]
    /\ local' = [t \in Threads |-> IF EngineOf[t] = e THEN None ELSE local[t]]
    /\ runner' = [runner EXCEPT ![e] = None]
    /\ rpc' = [r \in Runners |->
                   IF Engine(r) = e /\ rpc[r] # "unused" THEN "done" ELSE rpc[r]]
    /\ rawSock' = [r \in Runners |-> rawSock[r] /\ Engine(r) # e]
    /\ queue' = [r \in Runners |-> queue[r] /\ Engine(r) # e]
    /\ scars' = scars \cup {"crashed"}
    /\ result' = [t \in Threads |-> IF EngineOf[t] = e THEN "nil" ELSE result[t]]
    /\ UNCHANGED <<rules, doneCh, cancelled>>

Crash(e) == (\E t \in Threads : EngineOf[t] = e /\ pc[t] # "idle") /\ Dies(e)

(* runner.Start goes on with a field that runner.Stop has set to nil. *)
Panic(r) ==
    /\ \/ rpc[r] = "open" /\ ~rawSock[r]
       \/ rpc[r] = "register" /\ ~queue[r]
    /\ Dies(Engine(r))

-----------------------------------------------------------------------------
ThreadStep(t) ==
    \/ (\E r \in Runners : Setup(t, r)) \/ SetupFails(t) \/ Publish(t)
    \/ SelectDone(t) \/ SelectGrace(t)
    \/ RollbackClear(t) \/ RollbackQueue(t) \/ RollbackRaw(t) \/ RollbackTeardown(t)
    \/ StopQueue(t) \/ StopRaw(t) \/ StopReceive(t) \/ StopTeardown(t)

RunnerStep(r) == OpenRaw(r) \/ OpenQueue(r) \/ Register(r) \/ Unblock(r) \/ Panic(r)

Next ==
    \/ \E t \in Threads : StartCheck(t) \/ StopTake(t) \/ ThreadStep(t)
    \/ \E r \in Runners : RunnerStep(r)
    \/ \E e \in Engines : Crash(e)

Spec == Init /\ [][Next]_vars

(***************************************************************************)
(* Calls and goroutines that can go on are scheduled; nobody has to call.  *)
(***************************************************************************)
EngineFairness ==
    /\ \A t \in Threads : WF_vars(ThreadStep(t))
    /\ \A r \in Runners : WF_vars(RunnerStep(r))

FairSpec == Spec /\ EngineFairness

-----------------------------------------------------------------------------
(***************************************************************************)
(* The engines keep what RouterSwitch promises: an engine that runs has    *)
(* its rules in the kernel, no path of Start, its rollback or Stop removes *)
(* them while it does, and the table is never orphaned: while it exists an *)
(* engine or a call has it to remove, unless a process died or nft failed  *)
(* to delete it.  It takes two processes, or overlapping calls of one, to  *)
(* remove the rules of an engine that runs; even then none is orphaned.    *)
(***************************************************************************)
Promise == INSTANCE RouterSwitch WITH
    installed <- rules > 0,
    on <- {e \in Engines : runner[e] # None},
    busy <- {EngineOf[t] : t \in {u \in Threads : InCall(u) /\ pc[u] # "setup"}},
    alone <- scars \cap {"shared", "overlap"} = {},
    left <- scars \cap {"crashed", "undeleted"} # {}

PromiseKept == Promise!Spec

(***************************************************************************)
(* Nothing is left of a runner that its engine has forgotten: no goroutine *)
(* and no open handle, also after a Start that failed half-way.  Handles   *)
(* can leak only when runner.Stop ran in the middle of runner.Start.       *)
(***************************************************************************)
Held(r) == runner[Engine(r)] = r \/ \E t \in Threads : local[t] = r

NothingLeft ==
    "overlap" \notin scars =>
        \A r \in Runners : ~Held(r) =>
            /\ rpc[r] \notin WorkPcs \cup {"blocked"}
            /\ "raced" \notin scars => ~rawSock[r] /\ ~queue[r]

(***************************************************************************)
(* Stop returns: the worker ends once its context is cancelled, and its    *)
(* value is there to receive unless an overlapping Start has taken it.     *)
(***************************************************************************)
StopReturns ==
    \A t \in Threads : pc[t] = "stQueue" ~> pc[t] = "idle" \/ "overlap" \in scars

(***************************************************************************)
(* engine.go:86: "Start validates config, installs nftables state, and     *)
(* launches the NFQUEUE worker."  When it returns nil, that is the case.   *)
(***************************************************************************)
StartLaunches ==
    \A t \in Threads : pc[t] = "up" => runner[EngineOf[t]] # None
=============================================================================
