-------------------------- MODULE RouterEngine_proofs --------------------------
(***************************************************************************)
(* Router mode's engine and worker, for any number of processes, threads   *)
(* and starts: what a call holds, that nothing of a runner is left behind, *)
(* and that RouterSwitch is implemented.                                   *)
(***************************************************************************)
EXTENDS RouterEngine, TLAPS

(***************************************************************************)
(* A runner is known to its creator only until Start publishes it, and the *)
(* channel has a value only after the goroutine has ended.                 *)
(***************************************************************************)
LocalInv ==
    /\ \A t \in Threads :
          /\ pc[t] \in {"idle", "setup"} => local[t] = None
          /\ InCall(t) /\ pc[t] # "setup" => local[t] # None
          /\ local[t] # None => Engine(local[t]) = EngineOf[t]
          /\ pc[t] = "publish" => rpc[local[t]] = "new"
          /\ pc[t] \in RollbackPcs \cup {"stTear"} => rpc[local[t]] = "done"
    /\ \A e \in Engines : runner[e] # None => Engine(runner[e]) = e
    /\ \A r \in Runners :
          /\ rpc[r] \in {"unused", "new"} =>
                /\ \A e \in Engines : runner[e] # r
                /\ \A t \in Threads : local[t] = r => pc[t] = "publish"
          /\ rpc[r] = "unused" => \A t \in Threads : local[t] # r
          /\ rpc[r] = "new" => \A t, u \in Threads : local[t] = r /\ local[u] = r => t = u
          /\ doneCh[r] # "empty" => rpc[r] = "done"

(* One call of an engine at a time: what the engine has meanwhile. *)
CallInv ==
    "overlap" \notin scars =>
        /\ \A t, u \in Threads : EngineOf[t] = EngineOf[u] /\ InCall(t) /\ InCall(u) => t = u
        /\ \A t \in Threads :
              /\ InCall(t) /\ pc[t] \notin {"select", "rbClear"} => Mine(t) = None
              /\ pc[t] \in {"select", "rbClear"} => Mine(t) = local[t]

(* Who has a runner whose goroutine goes on, or one of its handles. *)
HasIt(r, pcs) == runner[Engine(r)] = r \/ \E t \in Threads : local[t] = r /\ pc[t] \in pcs

Known(r) ==
    /\ rpc[r] \in WorkPcs \cup {"blocked"} => HasIt(r, {"stQueue", "stRaw", "stRecv"})
    /\ "raced" \notin scars =>
          /\ rpc[r] \in WorkPcs => HasIt(r, {"stQueue"})
          /\ queue[r] => HasIt(r, {"stQueue", "rbQueue"})
          /\ rawSock[r] => HasIt(r, {"stQueue", "stRaw", "rbQueue", "rbRaw"})

LeftInv == "overlap" \notin scars => \A r \in Runners : Known(r)

-----------------------------------------------------------------------------
LEMMA Typing == TypeOK /\ LocalInv /\ [Next]_vars => TypeOK'
<1> SUFFICES ASSUME TypeOK, LocalInv, [Next]_vars PROVE TypeOK'
    OBVIOUS
<1>a. ASSUME NEW t \in Threads, NEW l \in Pcs, Goto(t, l)
      PROVE  pc' \in [Threads -> Pcs]
    BY <1>a DEF Goto, TypeOK
<1>b. ASSUME NEW b, NEW scar \in Scars, scars' = scars \cup Mark(b, scar)
      PROVE  scars' \subseteq Scars
    BY <1>b DEF Mark, TypeOK
<1>c. \A e \in Engines, r \in Runners \cup {None} :
          [runner EXCEPT ![e] = r] \in [Engines -> Runners \cup {None}]
    BY DEF TypeOK
<1>d. \A t \in Threads, r \in Runners \cup {None} :
          [local EXCEPT ![t] = r] \in [Threads -> Runners \cup {None}]
    BY DEF TypeOK
<1>e. \A r \in Runners, l \in RunnerPcs : [rpc EXCEPT ![r] = l] \in [Runners -> RunnerPcs]
    BY DEF TypeOK
<1>f. \A r \in Runners, v \in {"empty"} \cup Results :
          [doneCh EXCEPT ![r] = v] \in [Runners -> {"empty"} \cup Results]
    BY DEF TypeOK
<1>g. \A r \in Runners, b \in BOOLEAN :
          /\ [rawSock EXCEPT ![r] = b] \in [Runners -> BOOLEAN]
          /\ [queue EXCEPT ![r] = b] \in [Runners -> BOOLEAN]
    BY DEF TypeOK
<1>h. \A t \in Threads : EngineOf[t] \in Engines /\ runner[EngineOf[t]] \in Runners \cup {None}
    BY EngineAssumption DEF TypeOK
<1>0. ASSUME Teardown PROVE rules' \in Nat /\ scars' \subseteq Scars
    <2>1. rules' \in Nat
        BY <1>0 DEF Teardown, TypeOK
    <2>2. scars' \subseteq scars \cup {"undeleted"}
        BY <1>0 DEF Teardown, Mark
    <2>3. QED BY <2>1, <2>2 DEF TypeOK, Scars
<1>p. /\ {"idle", "setup", "publish", "select", "up"} \subseteq Pcs
      /\ RollbackPcs \cup StopPcs \subseteq Pcs
      /\ {"rbClear", "rbQueue", "rbRaw", "rbTear"} \subseteq Pcs
      /\ {"stQueue", "stRaw", "stRecv", "stTear"} \subseteq Pcs
    BY DEF Pcs, RollbackPcs, StopPcs
<1>q. /\ {"new", "blocked", "done", "raw", "open", "register"} \subseteq RunnerPcs
      /\ {"nil", "err"} \subseteq Results
    BY DEF RunnerPcs, WorkPcs, Results
<1>s. {"overlap", "shared", "raced", "crashed", "undeleted"} \subseteq Scars
    BY DEF Scars
<1>1. ASSUME NEW t \in Threads, StartCheck(t) PROVE TypeOK'
    BY <1>1, <1>a, <1>b, <1>p, <1>s DEF StartCheck, TypeOK, runnerVars
<1>2. ASSUME NEW t \in Threads, StopTake(t) PROVE TypeOK'
    <2>1. pc' \in [Threads -> Pcs]
        BY <1>2, <1>a, <1>p DEF StopTake
    <2>2. scars' \subseteq Scars
        BY <1>2, <1>b, <1>s DEF StopTake
    <2>3. runner' \in [Engines -> Runners \cup {None}] /\ local' \in [Threads -> Runners \cup {None}]
        BY <1>2, <1>c, <1>d, <1>h DEF StopTake, Mine
    <2>4. cancelled' \in [Runners -> BOOLEAN]
        BY <1>2 DEF StopTake
    <2>5. QED BY <1>2, <2>1, <2>2, <2>3, <2>4 DEF StopTake, TypeOK
<1>3. ASSUME NEW t \in Threads, NEW r \in Runners, Setup(t, r) PROVE TypeOK'
    <2>1. pc' \in [Threads -> Pcs]
        BY <1>3, <1>a, <1>p DEF Setup
    <2>2. scars' \subseteq Scars
        BY <1>3, <1>b, <1>s DEF Setup
    <2>3. rpc' \in [Runners -> RunnerPcs] /\ local' \in [Threads -> Runners \cup {None}]
        BY <1>3, <1>d, <1>e, <1>q DEF Setup
    <2>4. rules' \in Nat
        BY <1>3 DEF Setup, TypeOK
    <2>5. QED BY <1>3, <2>1, <2>2, <2>3, <2>4 DEF Setup, TypeOK
<1>4. ASSUME NEW t \in Threads, SetupFails(t) \/ SelectGrace(t) PROVE TypeOK'
    BY <1>4, <1>a, <1>p DEF SetupFails, SelectGrace, TypeOK, runnerVars
<1>5. ASSUME NEW t \in Threads, Publish(t) PROVE TypeOK'
    <2>1. pc' \in [Threads -> Pcs]
        BY <1>5, <1>a, <1>p DEF Publish
    <2>2. local[t] \in Runners
        BY <1>5 DEF Publish, LocalInv, InCall, TypeOK
    <2>3. rpc' \in [Runners -> RunnerPcs] /\ runner' \in [Engines -> Runners \cup {None}]
        BY <1>5, <2>2, <1>c, <1>e, <1>h, <1>q DEF Publish
    <2>4. QED BY <1>5, <2>1, <2>3 DEF Publish, TypeOK
<1>6. ASSUME NEW t \in Threads, SelectDone(t) PROVE TypeOK'
    <2>1. local[t] \in Runners
        BY <1>6 DEF SelectDone, LocalInv, InCall, TypeOK
    <2>2. pc' \in [Threads -> Pcs]
        BY <1>6, <1>a, <1>p DEF SelectDone
    <2>3. doneCh' \in [Runners -> {"empty"} \cup Results] /\ result' \in [Threads -> Results]
        BY <1>6, <1>f, <2>1 DEF SelectDone, TypeOK
    <2>4. QED BY <1>6, <2>2, <2>3 DEF SelectDone, TypeOK
<1>i. ASSUME NEW t \in Threads, CloseQueue(t), pc' \in [Threads -> Pcs] PROVE TypeOK'
    <2>1. queue' \in [Runners -> BOOLEAN]
        BY <1>i DEF CloseQueue, TypeOK
    <2>2. scars' \subseteq Scars
        BY <1>b, <1>i, <1>s DEF CloseQueue
    <2>3. QED BY <1>i, <2>1, <2>2 DEF CloseQueue, TypeOK
<1>j. ASSUME NEW t \in Threads, CloseRaw(t), pc' \in [Threads -> Pcs] PROVE TypeOK'
    <2>1. rawSock' \in [Runners -> BOOLEAN]
        BY <1>j DEF CloseRaw, TypeOK
    <2>2. QED BY <1>j, <2>1 DEF CloseRaw, TypeOK
<1>7. ASSUME NEW t \in Threads, RollbackClear(t) PROVE TypeOK'
    BY <1>7, <1>a, <1>c, <1>h, <1>p DEF RollbackClear, TypeOK, runnerVars
<1>8. ASSUME NEW t \in Threads, RollbackTeardown(t) \/ StopTeardown(t) PROVE TypeOK'
    <2>1. pc' \in [Threads -> Pcs]
        BY <1>8, <1>a, <1>p DEF RollbackTeardown, StopTeardown
    <2>2. rules' \in Nat /\ scars' \subseteq Scars
        BY <1>0, <1>8 DEF RollbackTeardown, StopTeardown
    <2>3. local' \in [Threads -> Runners \cup {None}]
        BY <1>8, <1>d DEF RollbackTeardown, StopTeardown
    <2>4. result' \in [Threads -> Results]
        BY <1>8, <1>q DEF RollbackTeardown, StopTeardown, TypeOK
    <2>5. QED BY <1>8, <2>1, <2>2, <2>3, <2>4
              DEF RollbackTeardown, StopTeardown, TypeOK, runnerVars
<1>9. ASSUME NEW t \in Threads, RollbackQueue(t) \/ StopQueue(t) PROVE TypeOK'
    BY <1>9, <1>a, <1>i, <1>p DEF RollbackQueue, StopQueue
<1>10. ASSUME NEW t \in Threads, RollbackRaw(t) \/ StopRaw(t) PROVE TypeOK'
    BY <1>10, <1>a, <1>j, <1>p DEF RollbackRaw, StopRaw
<1>11. ASSUME NEW t \in Threads, StopReceive(t) PROVE TypeOK'
    <2>1. pc' \in [Threads -> Pcs]
        BY <1>11, <1>a, <1>p DEF StopReceive
    <2>2. doneCh' \in [Runners -> {"empty"} \cup Results]
        BY <1>11 DEF StopReceive, TypeOK
    <2>3. QED BY <1>11, <2>1, <2>2 DEF StopReceive, TypeOK
<1>k. ASSUME NEW r \in Runners, NEW v \in Results, End(r, v)
      PROVE  /\ rpc' \in [Runners -> RunnerPcs]
             /\ doneCh' \in [Runners -> {"empty"} \cup Results]
    BY <1>k, <1>e, <1>f, <1>q DEF End
<1>12. ASSUME NEW r \in Runners, OpenRaw(r) PROVE TypeOK'
    <2>1. rpc' \in [Runners -> RunnerPcs] /\ doneCh' \in [Runners -> {"empty"} \cup Results]
        BY <1>12, <1>e, <1>k, <1>q DEF OpenRaw, TypeOK
    <2>2. rawSock' \in [Runners -> BOOLEAN]
        BY <1>12, <1>g DEF OpenRaw, TypeOK
    <2>3. QED BY <1>12, <2>1, <2>2 DEF OpenRaw, TypeOK
<1>13. ASSUME NEW r \in Runners, OpenQueue(r) PROVE TypeOK'
    <2>1. rpc' \in [Runners -> RunnerPcs] /\ doneCh' \in [Runners -> {"empty"} \cup Results]
        BY <1>13, <1>e, <1>k, <1>q DEF OpenQueue, TypeOK
    <2>2. rawSock' \in [Runners -> BOOLEAN] /\ queue' \in [Runners -> BOOLEAN]
        BY <1>13, <1>g DEF OpenQueue, TypeOK
    <2>3. QED BY <1>13, <2>1, <2>2 DEF OpenQueue, TypeOK
<1>14. ASSUME NEW r \in Runners, Register(r) \/ Unblock(r) PROVE TypeOK'
    <2>1. rpc' \in [Runners -> RunnerPcs] /\ doneCh' \in [Runners -> {"empty"} \cup Results]
        BY <1>14, <1>e, <1>k, <1>q DEF Register, Unblock, TypeOK
    <2>2. QED BY <1>14, <2>1 DEF Register, Unblock, TypeOK
<1>15. ASSUME NEW e \in Engines, Dies(e) PROVE TypeOK'
    <2>1. pc' \in [Threads -> Pcs] /\ local' \in [Threads -> Runners \cup {None}]
        BY <1>15, <1>p DEF Dies, TypeOK
    <2>2. rpc' \in [Runners -> RunnerPcs] /\ result' \in [Threads -> Results]
        BY <1>15, <1>q DEF Dies, TypeOK
    <2>3. rawSock' \in [Runners -> BOOLEAN] /\ queue' \in [Runners -> BOOLEAN]
        BY <1>15 DEF Dies
    <2>4. runner' \in [Engines -> Runners \cup {None}]
        BY <1>15, <1>c DEF Dies
    <2>5. QED BY <1>15, <1>s, <2>1, <2>2, <2>3, <2>4 DEF Dies, TypeOK
<1>16. CASE UNCHANGED vars
    BY <1>16 DEF vars, TypeOK
<1>17. \A r \in Runners : Engine(r) \in Engines
    BY EngineAssumption DEF Engine
<1>18. QED
    BY <1>1, <1>2, <1>3, <1>4, <1>5, <1>6, <1>7, <1>8, <1>9, <1>10, <1>11, <1>12, <1>13,
       <1>14, <1>15, <1>16, <1>17
    DEF Next, ThreadStep, RunnerStep, Crash, Panic

LEMMA LocalStep == TypeOK /\ LocalInv /\ [Next]_vars => LocalInv'
<1> SUFFICES ASSUME TypeOK, LocalInv, [Next]_vars PROVE LocalInv'
    OBVIOUS
<1> USE EngineAssumption
    DEF TypeOK, LocalInv, Goto, InCall, Engine, RollbackPcs, WorkPcs, runnerVars
<1>1. ASSUME NEW t \in Threads, StartCheck(t) PROVE LocalInv'
    BY <1>1 DEF StartCheck
<1>2. ASSUME NEW t \in Threads, StopTake(t) PROVE LocalInv'
    BY <1>2 DEF StopTake, Mine
<1>3. ASSUME NEW t \in Threads, NEW r \in Runners, Setup(t, r) PROVE LocalInv'
    BY <1>3 DEF Setup
<1>4. ASSUME NEW t \in Threads, SetupFails(t) \/ SelectGrace(t) PROVE LocalInv'
    BY <1>4 DEF SetupFails, SelectGrace
<1>5. ASSUME NEW t \in Threads, Publish(t) PROVE LocalInv'
    BY <1>5 DEF Publish
<1>6. ASSUME NEW t \in Threads, SelectDone(t) PROVE LocalInv'
    BY <1>6 DEF SelectDone
<1>7. ASSUME NEW t \in Threads, RollbackClear(t) \/ RollbackQueue(t) \/ RollbackRaw(t)
      PROVE  LocalInv'
    BY <1>7 DEF RollbackClear, RollbackQueue, RollbackRaw, CloseQueue, CloseRaw
<1>8. ASSUME NEW t \in Threads, RollbackTeardown(t) PROVE LocalInv'
    BY <1>8 DEF RollbackTeardown
<1>9. ASSUME NEW t \in Threads, StopQueue(t) \/ StopRaw(t) PROVE LocalInv'
    BY <1>9 DEF StopQueue, StopRaw, CloseQueue, CloseRaw
<1>10. ASSUME NEW t \in Threads, StopReceive(t) \/ StopTeardown(t) PROVE LocalInv'
    BY <1>10 DEF StopReceive, StopTeardown
<1>11. ASSUME NEW r \in Runners, OpenRaw(r) \/ OpenQueue(r) PROVE LocalInv'
    BY <1>11 DEF OpenRaw, OpenQueue, End
<1>12. ASSUME NEW r \in Runners, Register(r) \/ Unblock(r) PROVE LocalInv'
    BY <1>12 DEF Register, Unblock, End
<1>13. ASSUME NEW e \in Engines, Dies(e) PROVE LocalInv'
    BY <1>13 DEF Dies
<1>14. CASE UNCHANGED vars
    BY <1>14 DEF vars
<1>15. \A r \in Runners : Engine(r) \in Engines
    BY DEF Engine
<1> HIDE DEF TypeOK, LocalInv, Goto, InCall
<1>16. QED
    BY <1>1, <1>2, <1>3, <1>4, <1>5, <1>6, <1>7, <1>8, <1>9, <1>10, <1>11, <1>12, <1>13,
       <1>14, <1>15
    DEF Next, ThreadStep, RunnerStep, Crash, Panic

LEMMA CallStep == TypeOK /\ LocalInv /\ CallInv /\ [Next]_vars => CallInv'
<1> SUFFICES ASSUME TypeOK, LocalInv, CallInv, [Next]_vars PROVE CallInv'
    OBVIOUS
<1> USE EngineAssumption
    DEF TypeOK, LocalInv, CallInv, Goto, InCall, Mine, Mark, RollbackPcs, StopPcs, runnerVars
<1>1. ASSUME NEW t \in Threads, StartCheck(t) PROVE CallInv'
    BY <1>1 DEF StartCheck, Overlaps
<1>2. ASSUME NEW t \in Threads, StopTake(t) PROVE CallInv'
    BY <1>2 DEF StopTake, Overlaps
<1>3. ASSUME NEW t \in Threads, NEW r \in Runners, Setup(t, r) PROVE CallInv'
    BY <1>3 DEF Setup
<1>4. ASSUME NEW t \in Threads, SetupFails(t) \/ SelectGrace(t) PROVE CallInv'
    BY <1>4 DEF SetupFails, SelectGrace
<1>5. ASSUME NEW t \in Threads, Publish(t) PROVE CallInv'
    BY <1>5 DEF Publish
<1>6. ASSUME NEW t \in Threads, SelectDone(t) PROVE CallInv'
    BY <1>6 DEF SelectDone
<1>7. ASSUME NEW t \in Threads, RollbackClear(t) PROVE CallInv'
    BY <1>7 DEF RollbackClear
<1>8. ASSUME NEW t \in Threads, RollbackQueue(t) \/ StopQueue(t) PROVE CallInv'
    <2>1. CASE RollbackQueue(t)
        BY <2>1 DEF RollbackQueue, CloseQueue
    <2>2. CASE StopQueue(t)
        BY <2>2 DEF StopQueue, CloseQueue
    <2>3. QED BY <1>8, <2>1, <2>2
<1>9. ASSUME NEW t \in Threads, RollbackRaw(t) \/ StopRaw(t) PROVE CallInv'
    <2>1. CASE RollbackRaw(t)
        BY <2>1 DEF RollbackRaw, CloseRaw
    <2>2. CASE StopRaw(t)
        BY <2>2 DEF StopRaw, CloseRaw
    <2>3. QED BY <1>9, <2>1, <2>2
<1>10. ASSUME NEW t \in Threads, StopReceive(t) PROVE CallInv'
    BY <1>10 DEF StopReceive
<1>11. ASSUME NEW t \in Threads, RollbackTeardown(t) \/ StopTeardown(t) PROVE CallInv'
    <2>1. /\ UNCHANGED runner /\ ("overlap" \in scars <=> "overlap" \in scars')
          /\ pc'[t] \in {"idle", "up"} /\ \A u \in Threads \ {t} : pc'[u] = pc[u]
          /\ \A u \in Threads \ {t} : local'[u] = local[u]
        BY <1>11 DEF RollbackTeardown, StopTeardown, Teardown
    <2>2. QED BY <2>1
<1>12. ASSUME NEW r \in Runners, OpenRaw(r) \/ OpenQueue(r) PROVE CallInv'
    <2>1. UNCHANGED <<runner, pc, local, scars>>
        BY <1>12 DEF OpenRaw, OpenQueue
    <2>2. QED BY <2>1
<1>13. ASSUME NEW r \in Runners, Register(r) \/ Unblock(r) PROVE CallInv'
    BY <1>13 DEF Register, Unblock, End
<1>14. ASSUME NEW e \in Engines, Dies(e) PROVE CallInv'
    BY <1>14 DEF Dies
<1>15. CASE UNCHANGED vars
    BY <1>15 DEF vars
<1>16. \A r \in Runners : Engine(r) \in Engines
    BY EngineAssumption DEF Engine
<1> HIDE DEF TypeOK, LocalInv, CallInv, Goto, InCall, Mine, Mark
<1>17. QED
    BY <1>1, <1>2, <1>3, <1>4, <1>5, <1>6, <1>7, <1>8, <1>9, <1>10, <1>11, <1>12, <1>13,
       <1>14, <1>15, <1>16
    DEF Next, ThreadStep, RunnerStep, Crash, Panic

LEMMA LeftStep == TypeOK /\ LocalInv /\ CallInv /\ LeftInv /\ [Next]_vars => LeftInv'
<1> SUFFICES ASSUME TypeOK, LocalInv, CallInv, LeftInv, [Next]_vars PROVE LeftInv'
    OBVIOUS
<1> USE EngineAssumption
    DEF TypeOK, LocalInv, CallInv, LeftInv, Known, HasIt, Goto, InCall, Mine, Mark, Engine,
        RollbackPcs, StopPcs, WorkPcs, runnerVars
<1>1. ASSUME NEW t \in Threads, StartCheck(t) PROVE LeftInv'
    BY <1>1 DEF StartCheck, Overlaps
<1>2. ASSUME NEW t \in Threads, StopTake(t) PROVE LeftInv'
    BY <1>2, SMTT(20) DEF StopTake, Overlaps
<1>3. ASSUME NEW t \in Threads, NEW r \in Runners, Setup(t, r) PROVE LeftInv'
    BY <1>3 DEF Setup
<1>4. ASSUME NEW t \in Threads, SetupFails(t) \/ SelectGrace(t) PROVE LeftInv'
    BY <1>4 DEF SetupFails, SelectGrace
<1>5. ASSUME NEW t \in Threads, Publish(t) PROVE LeftInv'
    BY <1>5 DEF Publish
<1>6. ASSUME NEW t \in Threads, SelectDone(t) PROVE LeftInv'
    BY <1>6 DEF SelectDone
<1>7. ASSUME NEW t \in Threads, RollbackClear(t) PROVE LeftInv'
    BY <1>7 DEF RollbackClear
<1>8. ASSUME NEW t \in Threads, RollbackQueue(t) \/ StopQueue(t) PROVE LeftInv'
    <2>1. CASE RollbackQueue(t)
        BY <2>1 DEF RollbackQueue, CloseQueue
    <2>2. CASE StopQueue(t)
        BY <2>2 DEF StopQueue, CloseQueue
    <2>3. QED BY <1>8, <2>1, <2>2
<1>9. ASSUME NEW t \in Threads, RollbackRaw(t) \/ StopRaw(t) PROVE LeftInv'
    <2>1. CASE RollbackRaw(t)
        BY <2>1 DEF RollbackRaw, CloseRaw
    <2>2. CASE StopRaw(t)
        BY <2>2 DEF StopRaw, CloseRaw
    <2>3. QED BY <1>9, <2>1, <2>2
<1>10. ASSUME NEW t \in Threads, StopReceive(t) PROVE LeftInv'
    BY <1>10 DEF StopReceive
<1>11. ASSUME NEW t \in Threads, RollbackTeardown(t) \/ StopTeardown(t) PROVE LeftInv'
    <2>1. /\ UNCHANGED <<runner, rpc, rawSock, queue>>
          /\ ("overlap" \in scars' <=> "overlap" \in scars)
          /\ ("raced" \in scars' <=> "raced" \in scars)
          /\ pc[t] \in {"rbTear", "stTear"}
          /\ \A u \in Threads \ {t} : pc'[u] = pc[u] /\ local'[u] = local[u]
        BY <1>11 DEF RollbackTeardown, StopTeardown, Teardown
    <2>2. ASSUME NEW r \in Runners, NEW pcs, "rbTear" \notin pcs, "stTear" \notin pcs,
                 HasIt(r, pcs)
          PROVE  HasIt(r, pcs)'
        BY <2>1, <2>2
    <2> HIDE DEF HasIt
    <2>3. SUFFICES ASSUME "overlap" \notin scars', NEW r \in Runners PROVE Known(r)'
        BY DEF LeftInv
    <2>4. Known(r)
        BY <2>1, <2>3 DEF LeftInv
    <2>5. /\ HasIt(r, {"stQueue"}) => HasIt(r, {"stQueue"})'
          /\ HasIt(r, {"stQueue", "rbQueue"}) => HasIt(r, {"stQueue", "rbQueue"})'
        BY <2>2
    <2>6. HasIt(r, {"stQueue", "stRaw", "stRecv"}) => HasIt(r, {"stQueue", "stRaw", "stRecv"})'
        BY <2>2
    <2>7. HasIt(r, {"stQueue", "stRaw", "rbQueue", "rbRaw"})
             => HasIt(r, {"stQueue", "stRaw", "rbQueue", "rbRaw"})'
        BY <2>2
    <2>8. rpc'[r] = rpc[r] /\ queue'[r] = queue[r] /\ rawSock'[r] = rawSock[r]
        BY <2>1
    <2> HIDE DEF TypeOK, LocalInv, CallInv, LeftInv
    <2>9. QED BY <2>1, <2>4, <2>5, <2>6, <2>7, <2>8
<1>12. ASSUME NEW r \in Runners, OpenRaw(r) \/ OpenQueue(r) PROVE LeftInv'
    BY <1>12 DEF OpenRaw, OpenQueue, End
<1>13. ASSUME NEW r \in Runners, Register(r) \/ Unblock(r) PROVE LeftInv'
    BY <1>13 DEF Register, Unblock, End
<1>14. ASSUME NEW e \in Engines, Dies(e) PROVE LeftInv'
    <2>1. ASSUME NEW r \in Runners, Engine(r) = e
          PROVE  rpc'[r] \in {"unused", "new", "done"} /\ ~rawSock'[r] /\ ~queue'[r]
        BY <1>14, <2>1 DEF Dies
    <2>2. ASSUME NEW r \in Runners, Engine(r) # e
          PROVE  /\ rpc'[r] = rpc[r]
                 /\ rawSock'[r] = rawSock[r] /\ queue'[r] = queue[r]
                 /\ runner'[Engine(r)] = runner[Engine(r)]
                 /\ \A t \in Threads : local[t] = r => local'[t] = r /\ pc'[t] = pc[t]
        BY <1>14, <2>2 DEF Dies
    <2>3. "overlap" \in scars' <=> "overlap" \in scars
        BY <1>14 DEF Dies
    <2>4. "raced" \in scars' <=> "raced" \in scars
        BY <1>14 DEF Dies
    <2>5. ASSUME NEW r \in Runners, Engine(r) # e, NEW pcs, HasIt(r, pcs)
          PROVE  HasIt(r, pcs)'
        BY <2>2, <2>5
    <2> HIDE DEF HasIt
    <2>6. SUFFICES ASSUME "overlap" \notin scars', NEW r \in Runners, Engine(r) # e
                   PROVE  Known(r)'
        BY <2>1, <2>6 DEF LeftInv
    <2>7. rpc'[r] = rpc[r] /\ rawSock'[r] = rawSock[r] /\ queue'[r] = queue[r]
        BY <2>2, <2>6
    <2>8. Known(r)
        BY <2>3, <2>6 DEF LeftInv
    <2>9. /\ HasIt(r, {"stQueue"}) => HasIt(r, {"stQueue"})'
          /\ HasIt(r, {"stQueue", "rbQueue"}) => HasIt(r, {"stQueue", "rbQueue"})'
          /\ HasIt(r, {"stQueue", "stRaw", "stRecv"}) => HasIt(r, {"stQueue", "stRaw", "stRecv"})'
          /\ HasIt(r, {"stQueue", "stRaw", "rbQueue", "rbRaw"})
                => HasIt(r, {"stQueue", "stRaw", "rbQueue", "rbRaw"})'
        BY <2>5, <2>6
    <2> HIDE DEF TypeOK, LocalInv, CallInv, LeftInv
    <2>10. QED BY <2>4, <2>7, <2>8, <2>9
<1>15. CASE UNCHANGED vars
    BY <1>15 DEF vars
<1>16. \A r \in Runners : Engine(r) \in Engines
    BY EngineAssumption DEF Engine
<1> HIDE DEF TypeOK, LocalInv, CallInv, LeftInv, Known, HasIt, Goto, InCall, Mine, Mark
<1>17. QED
    BY <1>1, <1>2, <1>3, <1>4, <1>5, <1>6, <1>7, <1>8, <1>9, <1>10, <1>11, <1>12, <1>13,
       <1>14, <1>15, <1>16
    DEF Next, ThreadStep, RunnerStep, Crash, Panic

LEMMA InitInv == Init => TypeOK /\ LocalInv /\ CallInv /\ LeftInv
<1> SUFFICES ASSUME Init PROVE TypeOK /\ LocalInv /\ CallInv /\ LeftInv
    OBVIOUS
<1>1. TypeOK
    BY EngineAssumption DEF Init, TypeOK, Pcs, RunnerPcs, Results
<1>2. LocalInv /\ CallInv /\ LeftInv
    BY EngineAssumption
    DEF Init, LocalInv, CallInv, LeftInv, Known, HasIt, InCall, Mine, Engine, RollbackPcs,
        WorkPcs
<1>3. QED BY <1>1, <1>2

(***************************************************************************)
(* Every step of engines, workers, crashes and panics keeps each variable  *)
(* in its domain: a call that uses a runner has one.                       *)
(***************************************************************************)
THEOREM TypeCorrect == Spec => []TypeOK
<1>1. QED BY InitInv, Typing, LocalStep, PTL DEF Spec

(***************************************************************************)
(* Whatever ends a runner, within its grace period, by Stop or by a crash, *)
(* leaves neither its goroutine nor an open handle behind, for any number  *)
(* of processes and starts; runner.Stop in the middle of runner.Start may  *)
(* leave a handle, never a goroutine.                                      *)
(***************************************************************************)
THEOREM NothingLeftAlways == Spec => []NothingLeft
<1>1. LeftInv => NothingLeft
    BY DEF LeftInv, Known, HasIt, NothingLeft, Held
<1>2. QED
    BY <1>1, InitInv, Typing, LocalStep, CallStep, LeftStep, PTL DEF Spec

-----------------------------------------------------------------------------
(***************************************************************************)
(* RouterSwitch.  An engine uses the table while it has a runner or a call *)
(* past its setup.                                                         *)
(***************************************************************************)
Busy(e) == \E t \in Threads : EngineOf[t] = e /\ InCall(t) /\ pc[t] # "setup"
On(e) == runner[e] # None
Alone == scars \cap {"shared", "overlap"} = {}
Left == scars \cap {"crashed", "undeleted"} # {}

SwitchInv ==
    /\ rules > 0 => \/ Left
                    \/ \E e \in Engines : On(e)
                    \/ \E t \in Threads : InCall(t) /\ pc[t] \notin {"setup", "select"}
    /\ Alone => /\ \A t \in Threads : pc[t] = "publish" => rules > 0
                /\ \A e, f \in Engines : (On(e) \/ Busy(e)) /\ (On(f) \/ Busy(f)) => e = f

LEMMA SwitchStep ==
    TypeOK /\ LocalInv /\ CallInv /\ SwitchInv /\ [Next]_vars => SwitchInv'
<1> SUFFICES ASSUME TypeOK, LocalInv, CallInv, SwitchInv, [Next]_vars PROVE SwitchInv'
    OBVIOUS
<1> USE EngineAssumption
    DEF TypeOK, LocalInv, CallInv, SwitchInv, Busy, On, Alone, Left, Goto, InCall, Mine,
        Mark, Engine, RollbackPcs, StopPcs, runnerVars
<1>1. ASSUME NEW t \in Threads, StartCheck(t) PROVE SwitchInv'
    BY <1>1 DEF StartCheck, Overlaps
<1>2. ASSUME NEW t \in Threads, StopTake(t) PROVE SwitchInv'
    BY <1>2 DEF StopTake, Overlaps
<1>3. ASSUME NEW t \in Threads, NEW r \in Runners, Setup(t, r) PROVE SwitchInv'
    <2>1. rules' > 0 /\ pc'[t] = "publish"
        BY <1>3 DEF Setup
    <2>2. /\ UNCHANGED runner
          /\ \A u \in Threads \ {t} : pc'[u] = pc[u]
          /\ scars \subseteq scars'
        BY <1>3 DEF Setup
    <2>3. Alone' => \A e \in Engines \ {EngineOf[t]} : ~On(e)' /\ ~Busy(e)'
        <3>1. Alone' => ~Shares(t)
            BY <1>3 DEF Setup
        <3>2. QED BY <2>2, <3>1 DEF Shares
    <2>4. QED BY <2>1, <2>3
<1>4. ASSUME NEW t \in Threads, SetupFails(t) \/ SelectGrace(t) PROVE SwitchInv'
    BY <1>4 DEF SetupFails, SelectGrace
<1>5. ASSUME NEW t \in Threads, Publish(t) PROVE SwitchInv'
    BY <1>5 DEF Publish
<1>6. ASSUME NEW t \in Threads, SelectDone(t) PROVE SwitchInv'
    BY <1>6 DEF SelectDone
<1>7. ASSUME NEW t \in Threads, RollbackClear(t) PROVE SwitchInv'
    BY <1>7 DEF RollbackClear
<1>8. ASSUME NEW t \in Threads, RollbackQueue(t) \/ StopQueue(t) PROVE SwitchInv'
    <2>1. /\ UNCHANGED <<rules, runner>> /\ \A u \in Threads \ {t} : pc'[u] = pc[u]
          /\ pc[t] \in {"rbQueue", "stQueue"} /\ pc'[t] \in {"rbRaw", "stRaw"}
          /\ (Alone' <=> Alone) /\ (Left' <=> Left)
        BY <1>8 DEF RollbackQueue, StopQueue, CloseQueue
    <2>2. QED BY <2>1
<1>9. ASSUME NEW t \in Threads, RollbackRaw(t) \/ StopRaw(t) PROVE SwitchInv'
    <2>1. /\ UNCHANGED <<rules, runner, scars>> /\ \A u \in Threads \ {t} : pc'[u] = pc[u]
          /\ pc[t] \in {"rbRaw", "stRaw"} /\ pc'[t] \in {"rbTear", "stRecv"}
        BY <1>9 DEF RollbackRaw, StopRaw, CloseRaw
    <2>2. QED BY <2>1
<1>10. ASSUME NEW t \in Threads, StopReceive(t) PROVE SwitchInv'
    BY <1>10 DEF StopReceive
<1>11. ASSUME NEW t \in Threads, RollbackTeardown(t) \/ StopTeardown(t) PROVE SwitchInv'
    <2>1. /\ rules' = 0 \/ (rules' = rules /\ Left')
          /\ scars \subseteq scars'
          /\ rules' \in Nat
        <3>1. Teardown
            BY <1>11 DEF RollbackTeardown, StopTeardown
        <3>2. CASE rules' = 0
            BY <3>1, <3>2 DEF Teardown
        <3>3. CASE rules' # 0
            <4>1. rules' = rules /\ scars' = scars \cup {"undeleted"}
                BY <3>1, <3>3 DEF Teardown
            <4>2. QED BY <4>1
        <3>4. QED BY <3>2, <3>3
    <2>2. /\ UNCHANGED runner
          /\ \A u \in Threads \ {t} : pc'[u] = pc[u]
          /\ pc'[t] \in {"idle", "up"}
          /\ Busy(EngineOf[t])
        BY <1>11 DEF RollbackTeardown, StopTeardown
    <2>3. ASSUME Alone', NEW u \in Threads, pc'[u] = "publish" PROVE FALSE
        <3>1. Alone /\ "overlap" \notin scars /\ u # t /\ pc[u] = "publish"
            BY <2>1, <2>2, <2>3
        <3>2. EngineOf[u] = EngineOf[t]
            BY <2>2, <3>1
        <3>3. InCall(t)
            BY <1>11 DEF RollbackTeardown, StopTeardown
        <3>4. QED BY <3>1, <3>2, <3>3
    <2>4. \A e \in Engines : (On(e)' => On(e)) /\ (Busy(e)' => Busy(e))
        BY <2>2
    <2>5. QED BY <2>1, <2>3, <2>4
<1>12. ASSUME NEW r \in Runners, OpenRaw(r) \/ OpenQueue(r) PROVE SwitchInv'
    BY <1>12 DEF OpenRaw, OpenQueue, End
<1>13. ASSUME NEW r \in Runners, Register(r) \/ Unblock(r) PROVE SwitchInv'
    BY <1>13 DEF Register, Unblock, End
<1>14. ASSUME NEW e \in Engines, Dies(e) PROVE SwitchInv'
    <2>1. Left' /\ scars \subseteq scars' /\ UNCHANGED rules
        BY <1>14 DEF Dies
    <2>2. /\ \A f \in Engines : runner'[f] \in {runner[f], None}
          /\ \A u \in Threads : pc'[u] \in {pc[u], "idle"}
        BY <1>14 DEF Dies
    <2>3. \A f \in Engines : (On(f)' => On(f)) /\ (Busy(f)' => Busy(f))
        BY <2>2
    <2>4. QED BY <2>1, <2>2, <2>3
<1>15. CASE UNCHANGED vars
    BY <1>15 DEF vars
<1>16. \A r \in Runners : Engine(r) \in Engines
    BY EngineAssumption DEF Engine
<1> HIDE DEF TypeOK, LocalInv, CallInv, Goto, InCall, Mine, Mark
<1>17. QED
    BY <1>1, <1>2, <1>3, <1>4, <1>5, <1>6, <1>7, <1>8, <1>9, <1>10, <1>11, <1>12, <1>13,
       <1>14, <1>15, <1>16
    DEF Next, ThreadStep, RunnerStep, Crash, Panic

(***************************************************************************)
(* The steps of RouterSwitch, in these words, of the engine e.             *)
(***************************************************************************)
OthersStay(e) ==
    \A f \in Engines \ {e} : (On(f)' <=> On(f)) /\ (Busy(f)' <=> Busy(f))
RulesStay == (rules > 0)' <=> rules > 0
LeftStays == Left' <=> Left

Stutters(e) == RulesStay /\ LeftStays /\ (On(e)' <=> On(e)) /\ (Busy(e)' <=> Busy(e))
Installs(e) ==
    /\ \A f \in Engines : ~On(f) /\ ~Busy(f)
    /\ (rules > 0)' /\ ~On(e)' /\ Busy(e)' /\ LeftStays
SwitchesOn(e) == rules > 0 /\ Busy(e) /\ RulesStay /\ On(e)' /\ Busy(e)' /\ LeftStays
Starts(e) == On(e) /\ RulesStay /\ On(e)' /\ ~Busy(e)' /\ LeftStays
SwitchesOff(e) == On(e) /\ RulesStay /\ ~On(e)' /\ Busy(e)' /\ LeftStays
Removes(e) ==
    Busy(e) /\ ~On(e) /\ ~(rules > 0)' /\ ~On(e)' /\ ~Busy(e)' /\ LeftStays
Abandons(e) == RulesStay /\ ~On(e)' /\ ~Busy(e)' /\ Left'

Allowed(e) ==
    /\ OthersStay(e)
    /\ \/ Stutters(e) \/ Installs(e) \/ SwitchesOn(e) \/ Starts(e) \/ SwitchesOff(e)
       \/ Removes(e) \/ Abandons(e)

LEMMA AllowedMaps ==
    ASSUME TypeOK, TypeOK', Alone, Alone', NEW e \in Engines, Allowed(e)
    PROVE  [Promise!Next]_(Promise!vars)
<1> DEFINE on == {f \in Engines : runner[f] # None}
           busy == {EngineOf[t] : t \in {u \in Threads : InCall(u) /\ pc[u] # "setup"}}
           alone == scars \cap {"shared", "overlap"} = {}
           left == scars \cap {"crashed", "undeleted"} # {}
<1>1. /\ \A f : f \in on <=> f \in Engines /\ On(f)
      /\ \A f : f \in on' <=> f \in Engines /\ On(f)'
    BY DEF On
<1>2. /\ \A f : f \in busy <=> f \in Engines /\ Busy(f)
      /\ \A f : f \in busy' <=> f \in Engines /\ Busy(f)'
    BY EngineAssumption DEF Busy
<1>3. /\ on' = IF On(e)' THEN on \cup {e} ELSE on \ {e}
      /\ busy' = IF Busy(e)' THEN busy \cup {e} ELSE busy \ {e}
    BY <1>1, <1>2 DEF Allowed, OthersStay
<1>4. /\ On(e) => on \cup {e} = on
      /\ ~On(e) => on \ {e} = on
      /\ Busy(e) => busy \cup {e} = busy
      /\ ~Busy(e) => busy \ {e} = busy
    BY <1>1, <1>2
<1>5. alone /\ alone' = TRUE /\ (left <=> Left) /\ (left' <=> Left')
    BY DEF Alone, Left
<1>6. CASE Stutters(e)
    BY <1>3, <1>4, <1>5, <1>6 DEF Promise!vars, Stutters, RulesStay, LeftStays
<1>7. CASE Installs(e)
    <2>1. on = {} /\ busy = {}
        BY <1>1, <1>2, <1>7 DEF Installs
    <2>2. Promise!Install(e)
        BY <1>3, <1>5, <1>7, <2>1 DEF Promise!Install, Installs, LeftStays
    <2>3. QED BY <1>5, <2>2 DEF Promise!Next, Promise!Promised
<1>8. CASE SwitchesOn(e)
    <2>1. Promise!SwitchOn(e)
        BY <1>2, <1>3, <1>4, <1>5, <1>8
        DEF Promise!SwitchOn, SwitchesOn, RulesStay, LeftStays
    <2>2. QED BY <1>5, <2>1 DEF Promise!Next, Promise!Promised
<1>9. CASE Starts(e)
    <2>1. Promise!Started(e)
        BY <1>1, <1>3, <1>4, <1>5, <1>9
        DEF Promise!Started, Starts, RulesStay, LeftStays
    <2>2. QED BY <1>5, <2>1 DEF Promise!Next, Promise!Promised
<1>10. CASE SwitchesOff(e)
    <2>1. Promise!SwitchOff(e)
        BY <1>1, <1>3, <1>4, <1>5, <1>10
        DEF Promise!SwitchOff, SwitchesOff, RulesStay, LeftStays
    <2>2. QED BY <1>5, <2>1 DEF Promise!Next, Promise!Promised
<1>11. CASE Removes(e)
    <2>1. Promise!Remove(e)
        BY <1>1, <1>2, <1>3, <1>4, <1>5, <1>11
        DEF Promise!Remove, Removes, LeftStays
    <2>2. QED BY <1>5, <2>1 DEF Promise!Next, Promise!Promised
<1>12. CASE Abandons(e)
    <2>1. Promise!Die(e)
        BY <1>3, <1>5, <1>12 DEF Promise!Die, Abandons, RulesStay
    <2>2. QED BY <1>5, <2>1 DEF Promise!Next, Promise!Promised
<1>13. QED
    BY <1>6, <1>7, <1>8, <1>9, <1>10, <1>11, <1>12 DEF Allowed

LEMMA ScarsStay == [Next]_vars => scars \subseteq scars'
BY DEF Next, vars, StartCheck, StopTake, ThreadStep, Setup, SetupFails, Publish, SelectDone,
       SelectGrace, RollbackClear, RollbackQueue, RollbackRaw, RollbackTeardown, StopQueue,
       StopRaw, StopReceive, StopTeardown, CloseQueue, CloseRaw, Teardown, RunnerStep,
       OpenRaw, OpenQueue, Register, Unblock, Panic, Crash, Dies

LEMMA AllowedStep ==
    ASSUME TypeOK, LocalInv, CallInv, SwitchInv, Alone, Alone', Next
    PROVE  \E e \in Engines : Allowed(e)
<1> DEFINE Fine == \E e \in Engines : Allowed(e)
<1>0. /\ \A t \in Threads : EngineOf[t] \in Engines
      /\ \A r \in Runners : Engine(r) \in Engines
      /\ "overlap" \notin scars /\ "overlap" \notin scars'
      /\ pc \in [Threads -> Pcs]
    BY EngineAssumption DEF Engine, Alone, TypeOK
(* Steps that no other than the thread's own state shows. *)
<1>1. ASSUME NEW t \in Threads, UNCHANGED <<rules, runner>>, LeftStays,
             InCall(t) /\ pc[t] # "setup" <=> InCall(t)' /\ pc'[t] # "setup",
             \A u \in Threads \ {t} : pc'[u] = pc[u]
      PROVE  Fine
    BY <1>0, <1>1
    DEF Allowed, OthersStay, Stutters, RulesStay, On, Busy, InCall
(* Steps that change whether the engine of t is busy. *)
<1>2. ASSUME NEW t \in Threads,
             \A u \in Threads \ {t} : pc'[u] = pc[u],
             \A f \in Engines \ {EngineOf[t]} : runner'[f] = runner[f]
      PROVE  /\ OthersStay(EngineOf[t])
             /\ InCall(t)' /\ pc'[t] # "setup" => Busy(EngineOf[t])'
             /\ InCall(t) /\ ~InCall(t)' => ~Busy(EngineOf[t])'
    <2>1. OthersStay(EngineOf[t])
        BY <1>0, <1>2 DEF OthersStay, On, Busy, InCall
    <2>2. InCall(t)' /\ pc'[t] # "setup" => Busy(EngineOf[t])'
        BY <1>0 DEF Busy
    <2>3. ASSUME InCall(t), ~InCall(t)' PROVE ~Busy(EngineOf[t])'
        <3>1. \A u \in Threads \ {t} : EngineOf[u] = EngineOf[t] => ~InCall(u)
            BY <1>0, <2>3 DEF CallInv
        <3>2. QED BY <1>2, <2>3, <3>1 DEF Busy, InCall
    <2>4. QED BY <2>1, <2>2, <2>3
<1>3. ASSUME NEW t \in Threads, StartCheck(t) PROVE Fine
    BY <1>0, <1>1, <1>3 DEF StartCheck, Goto, InCall, LeftStays, Left, Mark
<1>4. ASSUME NEW t \in Threads, NEW r \in Runners, Setup(t, r) PROVE Fine
    <2> DEFINE e == EngineOf[t]
    <2>1. /\ pc[t] = "setup" /\ pc'[t] = "publish"
          /\ \A u \in Threads \ {t} : pc'[u] = pc[u]
          /\ UNCHANGED runner
          /\ rules' > 0 /\ LeftStays /\ ~Shares(t)
        <3>1. pc[t] = "setup" /\ UNCHANGED runner
            BY <1>4 DEF Setup
        <3>2. pc'[t] = "publish" /\ \A u \in Threads \ {t} : pc'[u] = pc[u]
            BY <1>0, <1>4 DEF Setup, Goto
        <3>3. rules' > 0
            BY <1>4 DEF Setup, TypeOK
        <3>4. LeftStays /\ ~Shares(t)
            BY <1>4 DEF Setup, LeftStays, Left, Alone, Mark
        <3>5. QED BY <3>1, <3>2, <3>3, <3>4
    <2>2. \A f \in Engines : ~On(f) /\ ~Busy(f)
        BY <1>0, <2>1 DEF Shares, On, Busy, InCall, CallInv, Mine
    <2>3. OthersStay(e) /\ Busy(e)' /\ ~On(e)'
        BY <1>0, <1>2, <2>1, <2>2 DEF InCall, On
    <2>4. QED BY <1>0, <2>1, <2>2, <2>3 DEF Allowed, Installs
<1>5. ASSUME NEW t \in Threads, SetupFails(t) \/ SelectDone(t) \/ StopReceive(t) PROVE Fine
    BY <1>0, <1>1, <1>5
    DEF SetupFails, SelectDone, StopReceive, Goto, InCall, LeftStays, Left
<1>6. ASSUME NEW t \in Threads, RollbackQueue(t) \/ StopQueue(t) PROVE Fine
    BY <1>0, <1>1, <1>6
    DEF RollbackQueue, StopQueue, CloseQueue, Goto, InCall, LeftStays, Left, Mark
<1>7. ASSUME NEW t \in Threads, RollbackRaw(t) \/ StopRaw(t) PROVE Fine
    BY <1>0, <1>1, <1>7
    DEF RollbackRaw, StopRaw, CloseRaw, Goto, InCall, LeftStays, Left
<1>8. ASSUME NEW t \in Threads, Publish(t) PROVE Fine
    <2> DEFINE e == EngineOf[t]
    <2>1. /\ pc[t] = "publish" /\ pc'[t] = "select"
          /\ \A u \in Threads \ {t} : pc'[u] = pc[u]
          /\ \A f \in Engines \ {e} : runner'[f] = runner[f]
          /\ runner'[e] = local[t]
          /\ UNCHANGED <<rules, scars>>
        BY <1>0, <1>8 DEF Publish, Goto, TypeOK
    <2>2. On(e)' /\ rules > 0 /\ Busy(e)
        BY <1>0, <2>1 DEF On, Busy, LocalInv, SwitchInv, InCall
    <2>3. OthersStay(e) /\ Busy(e)'
        BY <1>0, <1>2, <2>1 DEF InCall
    <2>4. QED
        BY <1>0, <2>1, <2>2, <2>3 DEF Allowed, SwitchesOn, RulesStay, LeftStays, Left
<1>9. ASSUME NEW t \in Threads, SelectGrace(t) PROVE Fine
    <2> DEFINE e == EngineOf[t]
    <2>1. /\ pc[t] = "select" /\ pc'[t] = "up"
          /\ \A u \in Threads \ {t} : pc'[u] = pc[u]
          /\ UNCHANGED <<rules, runner, scars>>
        BY <1>0, <1>9 DEF SelectGrace, Goto
    <2>2. On(e) /\ On(e)'
        BY <1>0, <2>1 DEF On, CallInv, LocalInv, Mine, InCall
    <2>3. OthersStay(e) /\ ~Busy(e)'
        BY <1>0, <1>2, <2>1 DEF InCall
    <2>4. QED
        BY <1>0, <2>1, <2>2, <2>3 DEF Allowed, Starts, RulesStay, LeftStays, Left
<1>10. ASSUME NEW t \in Threads, RollbackClear(t) PROVE Fine
    <2> DEFINE e == EngineOf[t]
    <2>1. /\ pc[t] = "rbClear" /\ pc'[t] = "rbQueue"
          /\ \A u \in Threads \ {t} : pc'[u] = pc[u]
          /\ \A f \in Engines \ {e} : runner'[f] = runner[f]
          /\ runner'[e] = None
          /\ UNCHANGED <<rules, scars>>
        BY <1>0, <1>10 DEF RollbackClear, Goto, TypeOK
    <2>2. On(e) /\ ~On(e)'
        BY <1>0, <2>1 DEF On, CallInv, LocalInv, Mine, InCall
    <2>3. OthersStay(e) /\ Busy(e)'
        BY <1>0, <1>2, <2>1 DEF InCall
    <2>4. QED
        BY <1>0, <2>1, <2>2, <2>3 DEF Allowed, SwitchesOff, RulesStay, LeftStays, Left
<1>11. ASSUME NEW t \in Threads, RollbackTeardown(t) \/ StopTeardown(t) PROVE Fine
    <2> DEFINE e == EngineOf[t]
    <2>1. /\ pc[t] \in {"rbTear", "stTear"} /\ pc'[t] \in {"idle", "up"}
          /\ \A u \in Threads \ {t} : pc'[u] = pc[u]
          /\ UNCHANGED runner
          /\ Teardown
        BY <1>0, <1>11 DEF RollbackTeardown, StopTeardown, Goto
    <2>2. Busy(e) /\ ~On(e) /\ ~On(e)'
        BY <1>0, <2>1 DEF On, Busy, CallInv, Mine, InCall
    <2>3. OthersStay(e) /\ ~Busy(e)'
        BY <1>0, <1>2, <2>1 DEF InCall
    <2>4. CASE ~(rules' > 0)
        <3>1. LeftStays
            BY <2>1, <2>4 DEF Teardown, LeftStays, Left, Mark
        <3>2. QED BY <1>0, <2>2, <2>3, <2>4, <3>1 DEF Allowed, Removes
    <2>5. CASE rules' > 0
        <3>1. RulesStay /\ Left'
            BY <2>1, <2>5 DEF Teardown, RulesStay, Left, Mark
        <3>2. QED BY <1>0, <2>2, <2>3, <3>1 DEF Allowed, Abandons
    <2>6. QED BY <2>4, <2>5
<1>12. ASSUME NEW t \in Threads, StopTake(t) PROVE Fine
    <2> DEFINE e == EngineOf[t]
    <2>1. /\ pc[t] \in {"idle", "up"}
          /\ \A u \in Threads \ {t} : pc'[u] = pc[u]
          /\ \A f \in Engines \ {e} : runner'[f] = runner[f]
          /\ runner'[e] = None
          /\ pc'[t] = IF On(e) THEN "stQueue" ELSE "idle"
          /\ UNCHANGED rules /\ LeftStays
        BY <1>0, <1>12 DEF StopTake, Goto, Mine, On, LeftStays, Left, Mark, TypeOK
    <2>2. CASE On(e)
        <3>1. OthersStay(e) /\ Busy(e)' /\ ~On(e)'
            BY <1>0, <1>2, <2>1, <2>2 DEF InCall, On
        <3>2. QED BY <1>0, <2>1, <2>2, <3>1 DEF Allowed, SwitchesOff, RulesStay
    <2>3. CASE ~On(e)
        BY <1>0, <1>2, <2>1, <2>3
        DEF Allowed, Stutters, RulesStay, On, Busy, InCall
    <2>4. QED BY <2>2, <2>3
<1>13. ASSUME NEW r \in Runners, OpenRaw(r) \/ OpenQueue(r) \/ Register(r) \/ Unblock(r)
       PROVE  Fine
    BY <1>0, <1>13
    DEF OpenRaw, OpenQueue, Register, Unblock, Allowed, OthersStay, Stutters, RulesStay,
        LeftStays, Left, On, Busy, InCall
<1>14. ASSUME NEW e \in Engines, Dies(e) PROVE Fine
    BY <1>0, <1>14
    DEF Dies, Allowed, OthersStay, Abandons, RulesStay, Left, On, Busy, InCall, TypeOK
<1>15. QED
    BY <1>0, <1>3, <1>4, <1>5, <1>6, <1>7, <1>8, <1>9, <1>10, <1>11, <1>12, <1>13, <1>14
    DEF Next, ThreadStep, RunnerStep, Crash, Panic

(***************************************************************************)
(* Start, its rollback, Stop, crashes and panics of any number of engines  *)
(* implement RouterSwitch: rules are in the kernel while an engine is on,  *)
(* and no table is without somebody to remove it unless a process died or  *)
(* nft failed, the latter also when engines share the table.               *)
(***************************************************************************)
THEOREM PromiseKeptAlways == Spec => PromiseKept
<1> DEFINE IInv == TypeOK /\ LocalInv /\ CallInv /\ SwitchInv
<1>1. Init => IInv
    <2> SUFFICES ASSUME Init PROVE SwitchInv
        BY InitInv
    <2>1. QED BY EngineAssumption DEF Init, SwitchInv, On, Busy, InCall
<1>2. IInv /\ [Next]_vars => IInv'
    BY Typing, LocalStep, CallStep, SwitchStep
<1>3. Init => Promise!Init
    BY DEF Init, Promise!Init, InCall
<1>4. IInv /\ IInv' /\ [Next]_vars => [Promise!Next]_(Promise!vars)
    <2> SUFFICES ASSUME IInv, IInv', [Next]_vars
                 PROVE  [Promise!Next]_(Promise!vars)
        OBVIOUS
    <2>1. CASE UNCHANGED vars
        BY <2>1 DEF vars, Promise!vars, InCall
    <2>2. CASE Next /\ Alone'
        <3>1. Alone
            BY <2>2, ScarsStay DEF Alone
        <3>2. PICK e \in Engines : Allowed(e)
            BY <2>2, <3>1, AllowedStep
        <3>3. QED BY <2>2, <3>1, <3>2, AllowedMaps
    <2>3. CASE ~Alone'
        <3>1. (rules > 0)' =>
                 Left' \/ (\E e \in Engines : On(e)') \/ \E e \in Engines : Busy(e)'
            BY EngineAssumption DEF SwitchInv, Busy
        <3>2. Promise!Owned'
            BY <3>1, EngineAssumption DEF Promise!Owned, On, Busy, Left
        <3>3. QED BY <2>3, <3>2 DEF Alone, Promise!Next
    <2>4. QED BY <2>1, <2>2, <2>3
<1>5. QED
    BY <1>1, <1>2, <1>3, <1>4, PTL DEF Spec, PromiseKept, Promise!Spec
=============================================================================
