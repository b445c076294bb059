-------------------------- MODULE EbpfManager_proofs --------------------------
(***************************************************************************)
(* Proofs about EbpfManager for any connections, ports, excluded addresses *)
(* and capacities of the map and of the ring.                              *)
(***************************************************************************)
EXTENDS EbpfManager, SequenceTheorems, TLAPS

LEMMA SeqTyped ==
    ASSUME NEW S
    PROVE  /\ <<>> \in Seq(S)
           /\ \A s \in Seq(S) : /\ \A e \in S : Append(s, e) \in Seq(S)
                               /\ s # <<>> => Head(s) \in S /\ Tail(s) \in Seq(S)
BY EmptySeq, AppendProperties, HeadTailProperties

(* Its instance for the ring of events. *)
LEMMA RingTyped ==
    ASSUME NEW s \in Seq(Conns), NEW c \in Conns
    PROVE  Append(s, c) \in Seq(Conns)
BY SeqTyped

(* Its instance for the bytes at which fakes were sent. *)
LEMMA FakedTyped ==
    ASSUME NEW s \in Seq(Nat), NEW n \in Nat
    PROVE  Append(s, n) \in Seq(Nat)
BY SeqTyped

(* RestoreMss changes its three variables within their types. *)
LEMMA RestoreTyping ==
    ASSUME TypeOK, NEW c \in Conns, RestoreMss(c)
    PROVE  /\ mss' \in [Conns -> {"default", "small", "normal"}]
           /\ writeHdrFlag' \in [Conns -> BOOLEAN]
           /\ refused' \in [Conns -> SUBSET (EstablishedCalls \cup RestoreCalls)]
<1>1. PICK failed \in SUBSET RestoreCalls :
         /\ mss' = IF "restore" \in failed THEN mss ELSE [mss EXCEPT ![c] = "normal"]
         /\ writeHdrFlag' = [writeHdrFlag EXCEPT ![c] = "unflag" \in failed]
         /\ refused' = [refused EXCEPT ![c] = @ \cup failed]
    BY DEF RestoreMss, Refusals
<1>2. QED BY <1>1 DEF TypeOK, SockOpsTypeOK

LEMMA KernelTyping ==
    ASSUME TypeOK, Kernel, UNCHANGED managerVars
    PROVE  TypeOK'
<1> USE SockOpsAssumption
    DEF TypeOK, SockOpsTypeOK, managerVars, mapVars, ringVars, connVars
<1>1. ASSUME NEW c \in Conns, Established(c) PROVE TypeOK'
    <2>1. CASE Intercepts(c)
        <3>0. PICK failed \in SUBSET EstablishedCalls :
                 /\ mss' = IF "shrink" \in failed THEN mss ELSE [mss EXCEPT ![c] = "small"]
                 /\ Output(c)
                 /\ IF "entry" \in failed
                    THEN UNCHANGED <<bytesSent, tracked, forgotten>>
                    ELSE Update(c)
                 /\ writeHdrFlag' = [writeHdrFlag EXCEPT ![c] = "flag" \notin failed]
                 /\ refused' = [refused EXCEPT ![c] = failed]
            BY <1>1, <2>1 DEF Established, Refusals
        <3>1. events' \in Seq(Conns)
            <4>1. events \in Seq(Conns) /\ Append(events, c) \in Seq(Conns)
                BY RingTyped
            <4>2. events' = events \/ events' = Append(events, c)
                BY <3>0 DEF Output
            <4>3. QED BY <4>1, <4>2
        <3>2. tracked' \subseteq Conns /\ forgotten' \subseteq Conns
              /\ bytesSent' \in [Conns -> Nat]
            <4>1. CASE "entry" \in failed
                BY <3>0, <4>1
            <4>2. CASE "entry" \notin failed
                <5>1. Update(c)
                    BY <3>0, <4>2
                <5>2. PICK old \in SUBSET tracked : /\ tracked' = (tracked \ old) \cup {c}
                                                   /\ forgotten' = forgotten \cup old
                    BY <5>1 DEF Update
                <5>3. bytesSent' \in [Conns -> Nat]
                    BY <5>1 DEF Update
                <5>4. QED BY <5>2, <5>3
            <4>3. QED BY <4>1, <4>2
        <3>3. /\ refused' \in [Conns -> SUBSET (EstablishedCalls \cup RestoreCalls)]
              /\ mss' \in [Conns -> {"default", "small", "normal"}]
              /\ writeHdrFlag' \in [Conns -> BOOLEAN]
            BY <3>0
        <3>4. QED BY <1>1, <3>1, <3>2, <3>3 DEF Established
    <2>2. CASE ~Intercepts(c)
        BY <1>1, <2>2 DEF Established
    <2>3. QED BY <2>1, <2>2
<1>2. ASSUME NEW c \in Conns, NEW n \in SegLens, Segment(c, n) PROVE TypeOK'
    <2>1. /\ n \in Nat /\ wire[c] + n \in Nat /\ bytesSent[c] + n \in Nat
        OBVIOUS
    <2>2. wire' \in [Conns -> Nat] /\ UNCHANGED <<events, state, forgotten>>
        BY <1>2, <2>1 DEF Segment
    <2>3. /\ bytesSent' \in [Conns -> Nat]
          /\ mss' \in [Conns -> {"default", "small", "normal"}]
          /\ writeHdrFlag' \in [Conns -> BOOLEAN]
          /\ refused' \in [Conns -> SUBSET (EstablishedCalls \cup RestoreCalls)]
          /\ tracked' \subseteq Conns
        <3>1. CASE Active /\ writeHdrFlag[c]
            BY <1>2, <2>1, <3>1, RestoreTyping DEF Segment, handleWriteHdrOpt
        <3>2. CASE ~(Active /\ writeHdrFlag[c])
            BY <1>2, <3>2 DEF Segment
        <3>3. QED BY <3>1, <3>2
    <2>4. QED BY <1>2, <2>2, <2>3 DEF Segment
<1>3. ASSUME NEW c \in Conns, Close(c) PROVE TypeOK'
    BY <1>3 DEF Close
<1>4. QED BY <1>1, <1>2, <1>3 DEF Kernel

LEMMA Typing == TypeOK /\ [Next]_vars => TypeOK'
<1> SUFFICES ASSUME TypeOK, [Next]_vars PROVE TypeOK'
    OBVIOUS
<1>1. CASE Start
    <2> USE <1>1, ManagerAssumption
        DEF TypeOK, SockOpsTypeOK, StartSteps, StopSteps, sockOpsVars, mapVars, ringVars,
            connVars
    <2>1. CASE Load
        BY <2>1 DEF Load
    <2>2. CASE Attach \/ pushConfig
        BY <2>2 DEF Attach, pushConfig
    <2>3. CASE pushTargetPorts \/ pushExcludeIPs
        BY <2>3 DEF pushTargetPorts, pushExcludeIPs
    <2>4. CASE OpenReader \/ OpenRawSock \/ Spawn \/ StartFails
        BY <2>4 DEF OpenReader, OpenRawSock, Spawn, StartFails
    <2>5. QED BY <2>1, <2>2, <2>3, <2>4 DEF Start
<1>2. CASE Stop \/ StopStep
    BY <1>2, SeqTyped
    DEF TypeOK, SockOpsTypeOK, StopSteps, Stop, StopStep, CloseReader, Wait, CloseRaw,
        Detach, sockOpsVars, mapVars, ringVars, connVars
<1>3. CASE readEvents
    <2>1. CASE Read
        BY <2>1, SeqTyped DEF TypeOK, SockOpsTypeOK, Read, mapVars, ringVars, connVars
    <2>2. CASE ReadFails
        BY <2>2
        DEF TypeOK, SockOpsTypeOK, ReadFails, sockOpsVars, mapVars, ringVars, connVars
    <2>3. CASE injectFake
        <3>1. UNCHANGED <<sockOpsVars, mpc, rawSock>> /\ current' = {} /\ gpc' = "read"
            BY <2>3 DEF injectFake
        <3>2. faked' \in [Conns -> Seq(Nat)]
            <4>1. CASE UNCHANGED faked
                BY <4>1 DEF TypeOK
            <4>2. CASE \E c \in current : faked' = [faked EXCEPT ![c] = Append(@, wire[c])]
                <5>1. PICK c \in current : faked' = [faked EXCEPT ![c] = Append(@, wire[c])]
                    BY <4>2
                <5>2. /\ c \in Conns /\ wire[c] \in Nat
                      /\ faked \in [Conns -> Seq(Nat)] /\ faked[c] \in Seq(Nat)
                    BY DEF TypeOK, SockOpsTypeOK
                <5>3. Append(faked[c], wire[c]) \in Seq(Nat)
                    BY <5>2, FakedTyped
                <5>4. QED BY <5>1, <5>2, <5>3
            <4>3. QED BY <2>3, <4>1, <4>2 DEF injectFake
        <3>3. QED
            BY <3>1, <3>2
            DEF TypeOK, SockOpsTypeOK, sockOpsVars, mapVars, ringVars, connVars
    <2>4. QED BY <1>3, <2>1, <2>2, <2>3 DEF readEvents
<1>4. CASE Kernel /\ UNCHANGED managerVars
    BY <1>4, KernelTyping
<1>5. CASE UNCHANGED vars
    BY <1>5 DEF TypeOK, SockOpsTypeOK, vars, sockOpsVars, mapVars, ringVars, connVars
<1>6. QED BY <1>1, <1>2, <1>3, <1>4, <1>5 DEF Next

(***************************************************************************)
(* The variables of every reachable state have their types.                *)
(***************************************************************************)
THEOREM TypeCorrect == Spec => []TypeOK
<1>1. Init => TypeOK
    <2> SUFFICES ASSUME Init PROVE TypeOK
        OBVIOUS
    <2>1. <<>> \in Seq(Conns) /\ <<>> \in Seq(Nat)
        BY EmptySeq
    <2>2. SockOpsTypeOK
        BY <2>1 DEF Init, SockOpsInit, SockOpsTypeOK
    <2>3. faked \in [Conns -> Seq(Nat)]
        BY <2>1 DEF Init
    <2>4. QED BY <2>2, <2>3 DEF Init, TypeOK
<1>2. QED BY <1>1, Typing, PTL DEF Spec

-----------------------------------------------------------------------------
(***************************************************************************)
(* The handles: each is acquired and released at one step.                 *)
(***************************************************************************)
LEMMA HandleStep == TypeOK /\ HandleInv /\ [Next]_vars => HandleInv'
<1> SUFFICES ASSUME TypeOK, HandleInv, [Next]_vars PROVE HandleInv'
    OBVIOUS
<1> USE DEF HandleInv, Active
<1>1. CASE Start
    BY <1>1
    DEF Start, Load, Attach, pushConfig, pushTargetPorts, pushExcludeIPs, OpenReader,
        OpenRawSock, Spawn, StartFails, sockOpsVars, mapVars, ringVars, connVars
<1>2. CASE Stop \/ StopStep
    BY <1>2
    DEF Stop, StopStep, CloseReader, Wait, CloseRaw, Detach,
        sockOpsVars, mapVars, ringVars, connVars
<1>3. CASE readEvents
    BY <1>3
    DEF readEvents, Read, ReadFails, injectFake, sockOpsVars, mapVars, ringVars, connVars
<1>4. CASE Kernel /\ UNCHANGED managerVars
    BY <1>4
    DEF Kernel, Established, Intercepts, Segment, handleWriteHdrOpt, Close, managerVars,
        mapVars, ringVars, connVars
<1>5. CASE UNCHANGED vars
    BY <1>5 DEF vars, sockOpsVars, mapVars, ringVars, connVars
<1>6. QED BY <1>1, <1>2, <1>3, <1>4, <1>5 DEF Next

LEMMA HandleInit == Init => HandleInv
BY DEF Init, SockOpsInit, HandleInv

(***************************************************************************)
(* readEvents never runs without its raw socket: Stop waits for it.        *)
(***************************************************************************)
THEOREM RawSockInUseAlways == Spec => []RawSockInUse
<1>1. HandleInv => RawSockInUse
    BY DEF HandleInv, RawSockInUse
<1>2. QED BY <1>1, HandleInit, HandleStep, TypeCorrect, PTL DEF Spec

(***************************************************************************)
(* An idle manager holds nothing, whichever step of Start had failed.      *)
(***************************************************************************)
THEOREM IdleIsCleanAlways == Spec => []IdleIsClean
<1>1. HandleInv => IdleIsClean
    BY DEF HandleInv, IdleIsClean, Active
<1>2. QED BY <1>1, HandleInit, HandleStep, TypeCorrect, PTL DEF Spec

-----------------------------------------------------------------------------
(***************************************************************************)
(* The Connections map and the segments.                                   *)
(***************************************************************************)
LEMMA TrackEstablished ==
    ASSUME TypeOK, TrackInv, NEW c \in Conns, Established(c)
    PROVE  TrackInv'
<1> USE SockOpsAssumption
    DEF TypeOK, SockOpsTypeOK, TrackInv, ShrunkIsTracked, Counted, RestoredLate
<1>0. /\ c \notin tracked \cup forgotten /\ wire[c] = 0 /\ mss[c] = "default"
      /\ wire' = wire /\ state' = [state EXCEPT ![c] = "established"]
    BY DEF Established
<1>1. CASE Intercepts(c)
    <2>1. PICK failed \in SUBSET EstablishedCalls :
             /\ mss' = IF "shrink" \in failed THEN mss ELSE [mss EXCEPT ![c] = "small"]
             /\ IF "entry" \in failed
                THEN UNCHANGED <<bytesSent, tracked, forgotten>>
                ELSE Update(c)
             /\ writeHdrFlag' = [writeHdrFlag EXCEPT ![c] = "flag" \notin failed]
             /\ refused' = [refused EXCEPT ![c] = failed]
        BY <1>1 DEF Established, Refusals
    <2>2. /\ mss'[c] = IF "shrink" \in failed THEN "default" ELSE "small"
          /\ writeHdrFlag'[c] = ("flag" \notin failed)
          /\ refused'[c] = failed
          /\ wire'[c] = 0 /\ state'[c] = "established"
        BY <1>0, <2>1
    <2>3. \A d \in Conns \ {c} : /\ mss'[d] = mss[d] /\ writeHdrFlag'[d] = writeHdrFlag[d]
                                 /\ refused'[d] = refused[d] /\ wire'[d] = wire[d]
                                 /\ state'[d] = state[d]
        BY <1>0, <2>1
    <2>4. CASE "entry" \in failed
        BY <1>0, <2>1, <2>2, <2>3, <2>4
    <2>5. CASE "entry" \notin failed
        <3>1. Update(c)
            BY <2>1, <2>5
        <3>2. PICK old \in SUBSET tracked : /\ tracked' = (tracked \ old) \cup {c}
                                           /\ forgotten' = forgotten \cup old
            BY <3>1 DEF Update
        <3>3. bytesSent'[c] = 0 /\ \A d \in Conns \ {c} : bytesSent'[d] = bytesSent[d]
            BY <3>1 DEF Update
        <3>4. /\ c \in tracked' /\ c \notin forgotten'
              /\ mss'[c] = "small" \/ "shrink" \in refused'[c]
              /\ Counted(c)' \/ (~writeHdrFlag'[c] /\ "flag" \in refused'[c])
            <4>1. c \in tracked' /\ c \notin forgotten'
                BY <1>0, <3>2
            <4>2. mss'[c] = "small" \/ "shrink" \in refused'[c]
                BY <2>2
            <4>3. bytesSent'[c] = wire'[c] /\ wire'[c] <= RestoreAfterBytes
                BY <2>2, <3>3
            <4>4. CASE "flag" \in failed
                BY <2>2, <4>1, <4>2, <4>4
            <4>5. CASE "flag" \notin failed
                BY <2>2, <4>1, <4>2, <4>3, <4>5
            <4>6. QED BY <4>4, <4>5
        <3>5. ASSUME NEW d \in Conns \ {c}
              PROVE  /\ d \in tracked' => d \in tracked /\ d \notin forgotten'
                     /\ d \in tracked => d \in tracked' \/ d \in forgotten'
                     /\ d \in forgotten => d \in forgotten'
                     /\ state[d] = "new" => d \notin tracked' \cup forgotten'
                     /\ Counted(d)' <=> Counted(d)
            BY <2>3, <3>2, <3>3
        <3>6. ShrunkIsTracked'
            <4>1. ASSUME NEW d \in Conns
                  PROVE  /\ mss'[d] = "small" => \/ d \in tracked' /\ Counted(d)'
                                                 \/ d \in forgotten'
                                                 \/ refused'[d] \cap {"entry", "flag", "restore"} # {}
                         /\ d \in tracked' =>
                               /\ d \notin forgotten'
                               /\ mss'[d] = "small" \/ "shrink" \in refused'[d]
                               /\ Counted(d)' \/ (~writeHdrFlag'[d] /\ "flag" \in refused'[d])
                <5> HIDE DEF Counted
                <5>1. CASE d = c
                    BY <3>4, <5>1
                <5>2. CASE d # c
                    BY <2>3, <3>5, <5>2
                <5>3. QED BY <5>1, <5>2
            <4>2. QED BY <4>1
        <3>7. RestoredLate'
            BY <2>2, <2>3
        <3>8. QED BY <2>2, <2>3, <3>5, <3>6, <3>7
    <2>6. QED BY <2>4, <2>5
<1>2. CASE ~Intercepts(c)
    BY <1>0, <1>2 DEF Established
<1>3. QED BY <1>1, <1>2

LEMMA TrackSegment ==
    ASSUME TypeOK, HandleInv, TrackInv, NEW c \in Conns, NEW n \in SegLens, Segment(c, n)
    PROVE  TrackInv'
<1> USE SockOpsAssumption
    DEF TypeOK, SockOpsTypeOK, TrackInv, ShrunkIsTracked, Counted, RestoredLate
<1>1. /\ n \in Nat /\ wire[c] \in Nat /\ state[c] = "established"
      /\ wire' = [wire EXCEPT ![c] = wire[c] + n]
      /\ state' = state /\ forgotten' = forgotten
    BY DEF Segment
<1>2. CASE c \in tracked /\ writeHdrFlag[c] /\ bytesSent[c] + n > RestoreAfterBytes
    <2>1. /\ RestoreMss(c)
          /\ tracked' = tracked \ {c}
          /\ bytesSent' = [bytesSent EXCEPT ![c] = bytesSent[c] + n]
        BY <1>2 DEF Segment, handleWriteHdrOpt, HandleInv
    <2>2. PICK failed \in SUBSET RestoreCalls :
             /\ mss' = IF "restore" \in failed THEN mss ELSE [mss EXCEPT ![c] = "normal"]
             /\ writeHdrFlag' = [writeHdrFlag EXCEPT ![c] = "unflag" \in failed]
             /\ refused' = [refused EXCEPT ![c] = @ \cup failed]
        BY <2>1 DEF RestoreMss, Refusals
    <2>3. \A d \in Conns \ {c} : /\ mss'[d] = mss[d] /\ writeHdrFlag'[d] = writeHdrFlag[d]
                                 /\ refused'[d] = refused[d] /\ wire'[d] = wire[d]
                                 /\ bytesSent'[d] = bytesSent[d]
        BY <1>1, <2>1, <2>2
    <2>4. /\ mss'[c] = "small" => "restore" \in refused'[c]
          /\ mss'[c] = "normal" => wire'[c] > RestoreAfterBytes
          /\ c \notin tracked'
        BY <1>1, <1>2, <2>1, <2>2
    <2>5. QED BY <1>1, <2>1, <2>3, <2>4
<1>3. CASE c \in tracked /\ writeHdrFlag[c] /\ ~(bytesSent[c] + n > RestoreAfterBytes)
    <2>1. /\ UNCHANGED <<mss, writeHdrFlag, refused, tracked>>
          /\ bytesSent' = [bytesSent EXCEPT ![c] = bytesSent[c] + n]
        BY <1>3 DEF Segment, handleWriteHdrOpt, HandleInv
    <2>2. QED BY <1>1, <1>3, <2>1
<1>4. CASE c \notin tracked \/ ~writeHdrFlag[c]
    <2>1. UNCHANGED <<mss, writeHdrFlag, refused, tracked, bytesSent>>
        BY <1>4 DEF Segment, handleWriteHdrOpt
    <2>2. QED BY <1>1, <1>4, <2>1
<1>5. QED BY <1>2, <1>3, <1>4

LEMMA TrackStep == TypeOK /\ HandleInv /\ TrackInv /\ [Next]_vars => TrackInv'
<1> SUFFICES ASSUME TypeOK, HandleInv, TrackInv, [Next]_vars PROVE TrackInv'
    OBVIOUS
<1>1. CASE Start
    <2>1. CASE Load
        <3>1. tracked = {}
            BY <2>1 DEF Load, HandleInv, Active
        <3>2. QED
            BY <2>1, <3>1 DEF Load, connVars, TrackInv, ShrunkIsTracked, Counted, RestoredLate
    <2>2. CASE ~Load
        BY <1>1, <2>2
        DEF Start, Attach, pushConfig, pushTargetPorts, pushExcludeIPs, OpenReader,
            OpenRawSock, Spawn, StartFails, sockOpsVars, mapVars, connVars,
            TrackInv, ShrunkIsTracked, Counted, RestoredLate
    <2>3. QED BY <2>1, <2>2
<1>2. CASE Stop \/ StopStep
    BY <1>2
    DEF Stop, StopStep, CloseReader, Wait, CloseRaw, Detach, sockOpsVars, mapVars,
        connVars, TrackInv, ShrunkIsTracked, Counted, RestoredLate
<1>3. CASE readEvents
    BY <1>3
    DEF readEvents, Read, ReadFails, injectFake, sockOpsVars, mapVars, connVars,
        TrackInv, ShrunkIsTracked, Counted, RestoredLate
<1>4. CASE Kernel /\ UNCHANGED managerVars
    <2>1. ASSUME NEW c \in Conns, Close(c) PROVE TrackInv'
        BY <2>1 DEF Close, mapVars, TypeOK, SockOpsTypeOK, TrackInv, ShrunkIsTracked, Counted, RestoredLate
    <2>2. QED BY <1>4, <2>1, TrackEstablished, TrackSegment DEF Kernel
<1>5. CASE UNCHANGED vars
    BY <1>5
    DEF vars, sockOpsVars, mapVars, connVars, TrackInv, ShrunkIsTracked, Counted, RestoredLate
<1>6. QED BY <1>1, <1>2, <1>3, <1>4, <1>5 DEF Next

LEMMA TrackInit == Init => TrackInv
BY DEF Init, SockOpsInit, TrackInv, ShrunkIsTracked, Counted, RestoredLate

(***************************************************************************)
(* A small MSS is counted down or left by a named cause, and every entry   *)
(* that has its callback counts, whatever the capacity of the map and      *)
(* whichever calls the kernel refuses.                                     *)
(***************************************************************************)
THEOREM ShrunkIsTrackedAlways == Spec => []ShrunkIsTracked
<1>1. TrackInv => ShrunkIsTracked
    BY DEF TrackInv
<1>2. QED BY <1>1, TrackInit, TrackStep, HandleInit, HandleStep, TypeCorrect, PTL DEF Spec

(***************************************************************************)
(* No connection gets its MSS back before RestoreAfterBytes are exceeded.  *)
(***************************************************************************)
THEOREM RestoredLateAlways == Spec => []RestoredLate
<1>1. TrackInv => RestoredLate
    BY DEF TrackInv
<1>2. QED BY <1>1, TrackInit, TrackStep, HandleInit, HandleStep, TypeCorrect, PTL DEF Spec

-----------------------------------------------------------------------------
(***************************************************************************)
(* The events and the fakes.  What is in the ring is distinct, eligible    *)
(* and not faked yet; reading starts only after the exclusions are pushed. *)
(***************************************************************************)
LEMMA EligibleKeeps ==
    ASSUME TypeOK, Kernel, NEW d \in Conns, Eligible(d)
    PROVE  Eligible(d)'
BY DEF TypeOK, SockOpsTypeOK, Kernel, Established, Segment, Close, Eligible

LEMMA FakeEstablished ==
    ASSUME TypeOK, FakeInv, UNCHANGED managerVars, NEW c \in Conns, Established(c)
    PROVE  FakeInv'
<1> USE DEF managerVars
<1>1. /\ \A d \in Conns : Eligible(d) => Eligible(d)'
      /\ ~Eligible(c) /\ state[c] = "new" /\ state'[c] # "new"
    BY EligibleKeeps DEF Kernel, Eligible, Established, TypeOK, SockOpsTypeOK
<1>2. UNCHANGED <<targetPorts, excludeIps, reading>>
    BY DEF Established
<1>3. CASE UNCHANGED events
    <2>1. UNCHANGED <<mpc, gpc, current, faked, targetPorts, excludeIps, reading, events>>
        BY <1>2, <1>3
    <2>2. current \subseteq Conns /\ \A j \in DOMAIN events : events[j] \in Conns
        BY DEF TypeOK, SockOpsTypeOK
    <2> HIDE DEF managerVars
    <2>3. QED BY <1>1, <2>1, <2>2 DEF FakeInv
<1>4. CASE events' # events
    <2>1. reading /\ Intercepts(c) /\ events' = Append(events, c)
        BY <1>4 DEF Established, Output
    <2>2. Eligible(c)' /\ faked[c] = <<>> /\ c \notin current
        <3>1. Eligible(c)'
            BY <1>1, <1>2, <2>1 DEF Intercepts, Eligible, FakeInv
        <3>2. faked[c] = <<>> /\ c \notin current
            BY <1>1 DEF FakeInv
        <3>3. QED BY <3>1, <3>2
    <2>3. /\ events \in Seq(Conns)
          /\ DOMAIN events' = DOMAIN events \cup {Len(events) + 1}
          /\ Len(events) + 1 \notin DOMAIN events
          /\ \A j \in DOMAIN events : events'[j] = events[j] /\ events[j] \in Conns
          /\ events'[Len(events) + 1] = c
        <3>1. events \in Seq(Conns) /\ DOMAIN events = 1 .. Len(events) /\ Len(events) \in Nat
            BY DEF TypeOK, SockOpsTypeOK
        <3>2. /\ \A j \in 1 .. Len(events) : events[j] \in Conns
              /\ events' = Append(events, c)
            BY <2>1, <3>1
        <3>3. /\ Append(events, c) \in Seq(Conns)
              /\ Len(Append(events, c)) = Len(events) + 1
              /\ \A j \in 1 .. Len(events) : Append(events, c)[j] = events[j]
              /\ Append(events, c)[Len(events) + 1] = c
            BY <3>1, AppendProperties
        <3>4. DOMAIN events' = 1 .. Len(events) + 1
            BY <3>2, <3>3
        <3>5. QED BY <3>1, <3>2, <3>3, <3>4
    <2>4. \A j \in DOMAIN events : events[j] # c
        BY <1>1 DEF FakeInv
    <2>5. \A j \in DOMAIN events' : /\ Eligible(events[j])'
                                   /\ faked'[events'[j]] = <<>>
                                   /\ events'[j] \notin current'
        BY <1>1, <2>2, <2>3 DEF FakeInv
    <2>6. \A j, k \in DOMAIN events' : events'[j] = events'[k] => j = k
        BY <2>3, <2>4 DEF FakeInv
    <2>7. QED BY <1>1, <1>2, <2>1, <2>5, <2>6 DEF FakeInv, TypeOK, SockOpsTypeOK
<1>5. QED BY <1>3, <1>4

LEMMA FakeRead ==
    ASSUME TypeOK, FakeInv, Read
    PROVE  FakeInv'
<1>1. /\ reading /\ events \in Seq(Conns) /\ events # <<>>
      /\ events' = Tail(events) /\ current' = {Head(events)}
      /\ gpc' = "inject" /\ current = {}
      /\ UNCHANGED <<reading, faked, state, targetPorts, excludeIps, mpc>>
    BY DEF Read, TypeOK, SockOpsTypeOK, FakeInv, mapVars, connVars
<1>2. /\ Head(events) = events[1] /\ 1 \in DOMAIN events
      /\ \A j \in DOMAIN events' : /\ j + 1 \in DOMAIN events /\ j + 1 # 1
                                   /\ events'[j] = events[j + 1] /\ j \in Nat
    BY <1>1
<1>3. \A d : Eligible(d)' <=> Eligible(d)
    BY <1>1 DEF Eligible
<1>4. \A j \in DOMAIN events' : /\ Eligible(events[j])'
                               /\ faked'[events'[j]] = <<>>
                               /\ events'[j] \notin current'
    BY <1>1, <1>2, <1>3 DEF FakeInv
<1>5. \A j, k \in DOMAIN events' : events'[j] = events'[k] => j = k
    <2> SUFFICES ASSUME NEW j \in DOMAIN events', NEW k \in DOMAIN events',
                        events'[j] = events'[k]
                 PROVE  j = k
        OBVIOUS
    <2>1. j + 1 = k + 1
        BY <1>2 DEF FakeInv
    <2>2. QED BY <1>2, <2>1
<1>6. \A c \in current' : Eligible(c)' /\ faked'[c] = <<>> /\ \A d \in current' : c = d
    BY <1>1, <1>2, <1>3 DEF FakeInv
<1>7. QED BY <1>1, <1>3, <1>4, <1>5, <1>6 DEF FakeInv

LEMMA FakeInject ==
    ASSUME TypeOK, FakeInv, injectFake
    PROVE  FakeInv'
<1>1. /\ current' = {} /\ gpc' = "read"
      /\ UNCHANGED <<reading, events, state, targetPorts, excludeIps, mpc>>
    BY DEF injectFake, sockOpsVars, mapVars, ringVars, connVars
<1>2. \A d : Eligible(d)' <=> Eligible(d)
    BY <1>1 DEF Eligible
<1>3. CASE UNCHANGED faked
    BY <1>1, <1>2, <1>3 DEF FakeInv
<1>4. CASE \E c \in current : faked' = [faked EXCEPT ![c] = Append(@, wire[c])]
    <2>1. PICK c \in current : faked' = [faked EXCEPT ![c] = Append(@, wire[c])]
        BY <1>4
    <2>2. /\ c \in Conns /\ Eligible(c) /\ faked[c] = <<>>
          /\ faked \in [Conns -> Seq(Nat)] /\ wire[c] \in Nat
        BY DEF FakeInv, TypeOK, SockOpsTypeOK
    <2>3. Len(faked'[c]) <= 1
        BY <2>1, <2>2
    <2>4. \A d \in Conns : d # c => faked'[d] = faked[d]
        BY <2>1, <2>2
    <2>5. \A j \in DOMAIN events : events[j] # c /\ events[j] \in Conns
        <3>1. \A j \in DOMAIN events : events[j] \in Conns
            BY ElementOfSeq, LenProperties DEF TypeOK, SockOpsTypeOK
        <3>2. \A j \in DOMAIN events : events[j] # c
            BY DEF FakeInv
        <3>3. QED BY <3>1, <3>2
    <2>6. \A j \in DOMAIN events' : /\ Eligible(events[j])'
                                   /\ faked'[events'[j]] = <<>>
                                   /\ events'[j] \notin current'
        BY <1>1, <1>2, <2>4, <2>5 DEF FakeInv
    <2>7. ASSUME NEW d \in Conns
          PROVE  Len(faked'[d]) <= 1 /\ (faked'[d] # <<>> => Eligible(d)')
        <3>1. CASE d = c
            <4>1. Eligible(d)'
                BY <1>2, <2>2, <3>1
            <4>2. Len(faked'[d]) <= 1
                BY <2>3, <3>1
            <4>3. QED BY <4>1, <4>2
        <3>2. CASE d # c
            <4>1. Len(faked[d]) <= 1 /\ (faked[d] # <<>> => Eligible(d))
                BY DEF FakeInv
            <4>2. QED BY <1>2, <2>4, <3>2, <4>1
        <3>3. QED BY <3>1, <3>2
    <2>8. \A j, k \in DOMAIN events' : events'[j] = events'[k] => j = k
        BY <1>1 DEF FakeInv
    <2>9. /\ mpc' = "reader" \/ reading' => ExcludeIPsCfg \subseteq excludeIps'
          /\ ~reading' => events' = <<>>
          /\ targetPorts' \subseteq TargetPortsCfg
        BY <1>1 DEF FakeInv
    <2>10. QED BY <1>1, <2>6, <2>7, <2>8, <2>9 DEF FakeInv
<1>5. QED BY <1>3, <1>4 DEF injectFake

LEMMA FakeStep == TypeOK /\ HandleInv /\ FakeInv /\ [Next]_vars => FakeInv'
<1> SUFFICES ASSUME TypeOK, HandleInv, FakeInv, [Next]_vars PROVE FakeInv'
    OBVIOUS
<1>1. CASE Start
    <2>1. /\ UNCHANGED <<events, faked, current, state>>
          /\ gpc' # gpc => gpc' = "read" /\ gpc = "none"
        BY <1>1
        DEF Start, Load, Attach, pushConfig, pushTargetPorts, pushExcludeIPs, OpenReader,
            OpenRawSock, Spawn, StartFails, sockOpsVars, ringVars, connVars, HandleInv
    <2>2. /\ targetPorts' \subseteq TargetPortsCfg
          /\ mpc' = "reader" \/ reading' => ExcludeIPsCfg \subseteq excludeIps'
          /\ reading => reading'
        BY <1>1
        DEF Start, Load, Attach, pushConfig, pushTargetPorts, pushExcludeIPs, OpenReader,
            OpenRawSock, Spawn, StartFails, sockOpsVars, mapVars, ringVars, HandleInv, FakeInv
    <2>3. QED BY <2>1, <2>2 DEF FakeInv, Eligible
<1>2. CASE Stop \/ StopStep
    BY <1>2
    DEF Stop, StopStep, CloseReader, Wait, CloseRaw, Detach, sockOpsVars, mapVars,
        ringVars, connVars, FakeInv, Eligible, HandleInv
<1>3. CASE readEvents
    <2>1. CASE ReadFails
        BY <2>1 DEF ReadFails, sockOpsVars, mapVars, ringVars, connVars, FakeInv, Eligible
    <2>2. QED BY <1>3, <2>1, FakeRead, FakeInject DEF readEvents
<1>4. CASE Kernel /\ UNCHANGED managerVars
    <2>1. ASSUME NEW c \in Conns, NEW n \in SegLens, Segment(c, n) PROVE FakeInv'
        BY <1>4, <2>1 DEF Segment, managerVars, FakeInv, Eligible
    <2>2. ASSUME NEW c \in Conns, Close(c) PROVE FakeInv'
        BY <1>4, <2>2
        DEF Close, managerVars, mapVars, ringVars, FakeInv, Eligible, TypeOK, SockOpsTypeOK
    <2>3. QED BY <1>4, <2>1, <2>2, FakeEstablished DEF Kernel
<1>5. CASE UNCHANGED vars
    BY <1>5 DEF vars, sockOpsVars, mapVars, ringVars, connVars, FakeInv, Eligible
<1>6. QED BY <1>1, <1>2, <1>3, <1>4, <1>5 DEF Next

LEMMA FakeInit == Init => FakeInv
BY DEF Init, SockOpsInit, FakeInv

(***************************************************************************)
(* No excluded address ever receives a fake.                               *)
(***************************************************************************)
THEOREM ExcludedNeverFakedAlways == Spec => []ExcludedNeverFaked
<1>1. FakeInv => ExcludedNeverFaked
    BY DEF FakeInv, Eligible, ExcludedNeverFaked
<1>2. QED BY <1>1, FakeInit, FakeStep, HandleInit, HandleStep, TypeCorrect, PTL DEF Spec

(***************************************************************************)
(* A connection is faked at most once, and only on a target port.          *)
(***************************************************************************)
THEOREM FakedOnceAlways == Spec => []FakedOnce
<1>1. FakeInv => FakedOnce
    BY DEF FakeInv, Eligible, FakedOnce
<1>2. QED BY <1>1, FakeInit, FakeStep, HandleInit, HandleStep, TypeCorrect, PTL DEF Spec
=============================================================================
