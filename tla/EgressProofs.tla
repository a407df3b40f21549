------------------------------- MODULE EgressProofs -------------------------------
(***************************************************************************)
(* Safety of EgressSync for every set of projects, ports, rules and        *)
(* requests, and for every bound.                                          *)
(***************************************************************************)
EXTENDS EgressSync, WellFoundedInduction, TLAPS

--------------------------------------------------------------------------------
(***************************************************************************)
(* Type correctness.  An actor at a step that concerns a project has one   *)
(* in hand.                                                                *)
(***************************************************************************)

ProjectSteps == {"port", "alloc", "assign", "mode", "allows", "config", "getPolicy",
                 "putPolicy", "getApp", "putApp"}

HoldsAt(at, j) ==
    \/ j.prj \in Projects
    \/ at \notin ProjectSteps /\ j.op \notin {"patch", "put", "deploy"}

Sight == {"none", "absent", "current", "old"}

ProcOK ==
    /\ pc \in [Actors -> PC] /\ job \in [Actors -> Job]
    /\ \A a \in Actors : HoldsAt(pc[a], job[a])
    /\ seen \in [Actors -> Sight]

RowsOK ==
    /\ project \in [Projects -> Row]
    /\ rules \in [Projects -> SUBSET Rules]

ClusterOK ==
    /\ conf \in SUBSET Listener /\ stamp \in SUBSET Listener
    /\ proxy \in [stamp : SUBSET Listener, conf : SUBSET Listener]
    /\ ns \in SUBSET Projects
    /\ policy \in [Projects -> Config \union {None}]
    /\ env \in [Projects -> Ports \union {None, Absent}]

HistoryOK ==
    /\ alone \in Actors \union {None}
    /\ moved \in SUBSET Projects /\ blind \in SUBSET Projects
    /\ ops \in 0..MaxOps /\ faults \in 0..MaxFaults

TypeInv == ProcOK /\ RowsOK /\ ClusterOK /\ HistoryOK

LEMMA TypeInvOK == TypeInv => TypeOK
BY DEF TypeInv, ProcOK, RowsOK, ClusterOK, HistoryOK, TypeOK, Sight

LEMMA ActorsApart ==
    /\ Tick \in Actors /\ Sweep \in Actors /\ Tick # Sweep
    /\ Requests \subseteq Actors /\ Tick \notin Requests /\ Sweep \notin Requests
    /\ None \notin Actors /\ None \notin Ports /\ None \notin Projects
    /\ Absent \notin Ports /\ Absent # None
BY EgressAssumption DEF Actors

LEMMA ShutType == Shut \in Config
BY Zenon DEF Shut, Config

LEMMA NoJobType ==
    /\ NoJob \in Job /\ NoJob.op = "none" /\ NoJob.conf = {} /\ NoJob.cfg = Shut
    /\ BootSweep \in Job /\ BootSweep.op = "proxySweep" /\ BootSweep.conf = {}
    /\ BootSweep.cfg = Shut
BY ShutType DEF NoJob, BootSweep, Job, Op, Mode

LEMMA RenderType ==
    ASSUME RowsOK, NEW p \in Targets
    PROVE  Render(p) \in Listener
<1>1. p \in Projects /\ project[p] \in Row /\ project[p].port \in Ports
    BY DEF Targets, RowsOK, Row
<1>2. (project[p].mode = "observe") \in BOOLEAN
    OBVIOUS
<1>3. rules[p] \intersect Domains \subseteq Domains
    OBVIOUS
<1> QED
    BY <1>1, <1>2, <1>3 DEF Render, Listener

LEMMA RenderedType == RowsOK => Rendered \in SUBSET Listener
BY RenderType DEF Rendered

LEMMA LowestFreeType == LowestFree \in Ports \union {None}
<1>1. CASE Free = {}
    BY <1>1 DEF LowestFree
<1>2. CASE Free # {}
    <2>1. Free \subseteq Nat /\ Free \subseteq Ports
        BY EgressAssumption DEF Free
    <2>2. \E n \in Free : \A m \in Free : ~ (<<m, n>> \in OpToRel(<, Nat))
        BY <1>2, <2>1, NatLessThanWellFounded, WFMin, Zenon
    <2>3. \E n \in Free : \A m \in Free : n <= m
        <3>1. ASSUME NEW m \in Nat, NEW n \in Nat, m < n PROVE <<m, n>> \in OpToRel(<, Nat)
            BY <3>1, Zenon DEF OpToRel
        <3>2. PICK n \in Free : \A m \in Free : ~ (<<m, n>> \in OpToRel(<, Nat))
            BY <2>2, Zenon
        <3>3. \A m \in Free : ~ (m < n)
            BY <2>1, <3>1, <3>2, Zenon
        <3> QED
            BY <2>1, <3>3
    <2> QED
        BY <1>2, <2>1, <2>3 DEF LowestFree
<1> QED
    BY <1>1, <1>2

LEMMA ConfigType ==
    ASSUME RowsOK, NEW p \in Projects, NEW S \in SUBSET Endpoints
    PROVE  ConfigOf(p, S) \in Config
<1>1. project[p].port \in Ports \union {None}
    BY DEF RowsOK, Row
<1> DEFINE n == IF project[p].mode = "off" THEN None ELSE project[p].port
<1>2. n \in Ports \union {None}
    BY <1>1
<1> HIDE DEF n
<1>3. [port |-> n, public |-> FALSE, allows |-> S] \in Config
    BY <1>2, Zenon DEF Config
<1> QED
    BY <1>3 DEF ConfigOf, n

LEMMA InitType == Init => TypeInv
<1> SUFFICES ASSUME Init PROVE TypeInv
    OBVIOUS
<1>1. ProcOK
    BY NoJobType DEF Init, ProcOK, PC, HoldsAt, Sight, ProjectSteps
<1>2. RowsOK
    <2>1. [live |-> TRUE, port |-> None, mode |-> "off"] \in Row
        BY DEF Row, Mode
    <2> QED
        BY <2>1 DEF Init, RowsOK
<1>3. ClusterOK
    BY EgressAssumption, ShutType DEF Init, ClusterOK
<1>4. HistoryOK
    BY EgressAssumption DEF Init, HistoryOK
<1> QED
    BY <1>1, <1>2, <1>3, <1>4 DEF TypeInv

\* A step of one actor: to a known place, with what it needs there.
LEMMA MovesType ==
    ASSUME ProcOK, NEW a \in Actors, NEW at \in PC, NEW j \in Job, HoldsAt(at, j),
           pc' = [pc EXCEPT ![a] = at], job' = [job EXCEPT ![a] = j],
           seen' \in [Actors -> Sight]
    PROVE  ProcOK'
<1>1. ASSUME NEW b \in Actors PROVE HoldsAt(pc'[b], job'[b])
    <2>1. CASE b = a
        BY <2>1 DEF ProcOK
    <2>2. CASE b # a
        BY <2>2 DEF ProcOK
    <2> QED
        BY <2>1, <2>2
<1>2. ASSUME NEW b \in Actors PROVE HoldsAt(pc[b], job[b])'
    BY <1>1 DEF HoldsAt
<1>3. pc' \in [Actors -> PC] /\ job' \in [Actors -> Job]
    BY DEF ProcOK
<1> QED
    BY <1>2, <1>3 DEF ProcOK

\* The same with the job as it is.
LEMMA StaysType ==
    ASSUME ProcOK, NEW a \in Actors, NEW at \in PC, HoldsAt(at, job[a]),
           pc' = [pc EXCEPT ![a] = at], job' = job, seen' \in [Actors -> Sight]
    PROVE  ProcOK'
<1>1. job' = [job EXCEPT ![a] = job[a]] /\ job[a] \in Job
    BY DEF ProcOK
<1> QED
    BY <1>1, MovesType

LEMMA IdleHolds == \A a \in Actors : HoldsAt("idle", NoJob) /\ "idle" \in PC
BY NoJobType DEF HoldsAt, ProjectSteps, PC

\* Where an operation goes on after an error, it has the project it needs.
LEMMA ErrorHolds ==
    ASSUME ProcOK, NEW a \in Actors
    PROVE  \/ OnError(a) \in PC /\ HoldsAt(OnError(a), job[a])
           \/ OnError(a) = "idle"
<1>1. HoldsAt(pc[a], job[a])
    BY DEF ProcOK
<1> QED
    BY <1>1 DEF OnError, HoldsAt, ProjectSteps, PC, PortSteps, ConfigSteps, op

LEMMA BreaksOffType ==
    ASSUME TypeInv, NEW a \in Actors, BreaksOff(a)
    PROVE  /\ ProcOK' /\ alone' \in Actors \union {None} /\ blind' \in SUBSET Projects
           /\ ops' = ops
<1>0. ProcOK /\ HistoryOK /\ job[a] \in Job /\ HoldsAt(pc[a], job[a])
    BY DEF TypeInv, ProcOK
<1> DEFINE j == IF OnError(a) = "idle" THEN NoJob
                ELSE IF GoesBlind(a) THEN [job[a] EXCEPT !.cfg.public = TRUE]
                ELSE job[a]
<1>1. job' = [job EXCEPT ![a] = j] /\ pc' = [pc EXCEPT ![a] = OnError(a)]
    BY <1>0 DEF BreaksOff, Goto, ProcOK
<1>2. j \in Job /\ (OnError(a) # "idle" => j.prj = job[a].prj /\ j.op = job[a].op)
    <2>1. [job[a].cfg EXCEPT !.public = TRUE] \in Config
        BY <1>0 DEF Job, Config
    <2>2. [job[a] EXCEPT !.cfg.public = TRUE] = [job[a] EXCEPT !.cfg = [job[a].cfg EXCEPT !.public = TRUE]]
        BY <1>0 DEF Job
    <2>3. [job[a] EXCEPT !.cfg = [job[a].cfg EXCEPT !.public = TRUE]] \in Job
        BY <1>0, <2>1 DEF Job
    <2> QED
        BY <1>0, <2>2, <2>3, NoJobType DEF Job
<1>3. HoldsAt(OnError(a), j) /\ OnError(a) \in PC
    <2>1. CASE OnError(a) = "idle"
        BY <2>1, IdleHolds
    <2>2. CASE OnError(a) # "idle"
        BY <1>0, <1>2, <2>2, ErrorHolds DEF HoldsAt
    <2> QED
        BY <2>1, <2>2
<1> HIDE DEF j
<1>4. seen' \in [Actors -> Sight]
    BY <1>0 DEF BreaksOff, ProcOK, Sight
<1>5. ProcOK'
    BY <1>0, <1>1, <1>2, <1>3, <1>4, MovesType
<1>6. GoesBlind(a) => prj(a) \in Projects
    BY <1>0 DEF GoesBlind, HoldsAt, op, prj
<1> QED
    BY <1>0, <1>5, <1>6 DEF BreaksOff, HistoryOK

LEMMA FailsType ==
    ASSUME TypeInv, NEW a \in Actors, Fails(a), RowsOK', ClusterOK', faults' \in 0..MaxFaults
    PROVE  TypeInv'
BY BreaksOffType DEF Fails, TypeInv, HistoryOK

\* What a step that only moves its actor, and may give it a new job, leaves.
LEMMA LearnsType ==
    ASSUME TypeInv, NEW a \in Actors, NEW at \in PC, NEW j \in Job, HoldsAt(at, j),
           Learns(a, at, j)
    PROVE  ProcOK' /\ HistoryOK'
<1>1. ProcOK'
    BY MovesType DEF TypeInv, Learns, Goto, ProcOK
<1> QED
    BY <1>1 DEF TypeInv, Learns, history, HistoryOK

LEMMA StepsType ==
    ASSUME TypeInv, NEW a \in Actors, NEW at \in PC, HoldsAt(at, job[a]), Steps(a, at)
    PROVE  ProcOK' /\ HistoryOK'
<1>1. ProcOK'
    BY StaysType DEF TypeInv, Steps, Goto, ProcOK
<1> QED
    BY <1>1 DEF TypeInv, Steps, history, HistoryOK

LEMMA EndsType ==
    ASSUME TypeInv, NEW a \in Actors, Ends(a)
    PROVE  ProcOK' /\ HistoryOK'
<1>1. Learns(a, "idle", NoJob)
    BY DEF Ends, Learns
<1> QED
    BY <1>1, IdleHolds, NoJobType, LearnsType

LEMMA GetType ==
    ASSUME TypeInv, NEW a \in Actors, NEW object, NEW at \in PC, HoldsAt(at, job[a]),
           Get(a, object, at)
    PROVE  ProcOK' /\ HistoryOK'
<1>1. seen' \in [Actors -> Sight]
    BY DEF TypeInv, ProcOK, Get, Sight
<1>2. ProcOK'
    BY <1>1, StaysType DEF TypeInv, Get, Goto
<1> QED
    BY <1>2 DEF TypeInv, Get, history, HistoryOK

LEMMA OutdateType ==
    ASSUME ProcOK, NEW a \in Actors, NEW S, NEW changed, Outdate(a, S, changed)
    PROVE  seen' \in [Actors -> Sight]
BY DEF ProcOK, Outdate, Sight

LEMMA PortType ==
    ASSUME TypeInv, NEW a \in Actors, ReadPort(a) \/ PickPort(a) \/ AssignPort(a)
    PROVE  TypeInv'
<1>0. /\ ProcOK /\ RowsOK /\ ClusterOK /\ HistoryOK
      /\ job[a] \in Job /\ HoldsAt(pc[a], job[a]) /\ prj(a) \in Projects
    BY DEF TypeInv, ProcOK, HoldsAt, ProjectSteps, prj, ReadPort, PickPort, AssignPort
<1> DEFINE next == CASE op(a) = "patch" -> "mode"
                     [] op(a) = "put"   -> "list"
                     [] OTHER           -> "next"
<1>1. next \in PC /\ HoldsAt(next, job[a]) /\ faults \in 0..MaxFaults
    BY <1>0 DEF PC, HoldsAt, HistoryOK, prj
<1> HIDE DEF next
<1>2. CASE ReadPort(a)
    <2>1. RowsOK' /\ ClusterOK'
        BY <1>0, <1>2 DEF ReadPort, rowVars, proxyVars, clusterVars, RowsOK, ClusterOK
    <2>2. CASE HavePort(a)
        <3>1. Steps(a, next)
            BY <2>2 DEF HavePort, next
        <3> QED
            BY <1>1, <2>1, <3>1, StepsType DEF TypeInv
    <2>3. CASE Steps(a, "alloc")
        <3>1. HoldsAt("alloc", job[a]) /\ "alloc" \in PC
            BY <1>0 DEF HoldsAt, prj, PC
        <3> QED
            BY <2>1, <2>3, <3>1, StepsType DEF TypeInv
    <2>4. CASE Fails(a) /\ UNCHANGED faults
        BY <1>1, <2>1, <2>4, FailsType
    <2> QED
        BY <1>2, <2>2, <2>3, <2>4 DEF ReadPort
<1>3. CASE PickPort(a)
    <2> DEFINE j == [job[a] EXCEPT !.port = LowestFree]
    <2>1. j \in Job /\ j.prj = job[a].prj
        BY <1>0, LowestFreeType DEF Job
    <2> HIDE DEF j
    <2>2. HoldsAt("assign", j) /\ "assign" \in PC
        BY <1>0, <2>1 DEF HoldsAt, prj, PC
    <2>3. ProcOK' /\ HistoryOK'
        BY <1>3, <2>1, <2>2, LearnsType DEF PickPort, j
    <2> QED
        BY <1>0, <1>3, <2>3 DEF PickPort, rowVars, proxyVars, clusterVars, TypeInv, RowsOK, ClusterOK
<1>4. CASE AssignPort(a)
    <2> DEFINE n == job[a].port
               p == prj(a)
    <2>1. n \in Ports \union {None}
        BY <1>0 DEF Job
    <2>2. ClusterOK' /\ rules' = rules /\ faults' = faults
        BY <1>0, <1>4 DEF AssignPort, proxyVars, clusterVars, ClusterOK
    <2>3. CASE Fails(a) /\ UNCHANGED project
        <3>1. RowsOK'
            BY <1>0, <2>2, <2>3 DEF RowsOK
        <3> QED
            BY <1>1, <2>2, <2>3, <3>1, FailsType
    <2>4. CASE /\ project' = [project EXCEPT ![p].port = n]
               /\ moved' = IF project[p].port \in {None, n} THEN moved ELSE moved \union {p}
        <3>1. RowsOK'
            BY <1>0, <2>1, <2>2, <2>4 DEF RowsOK, Row
        <3>2. moved' \in SUBSET Projects
            BY <1>0, <2>4 DEF HistoryOK
        <3>3. CASE BreaksOff(a)
            BY <1>0, <2>2, <3>1, <3>2, <3>3, BreaksOffType DEF TypeInv, HistoryOK
        <3>4. CASE /\ Goto(a, next) /\ job' = [job EXCEPT ![a].port = None]
                   /\ UNCHANGED <<seen, alone, blind, ops>>
            <4> DEFINE j == [job[a] EXCEPT !.port = None]
            <4>1. j \in Job /\ j.prj = job[a].prj /\ j.op = job[a].op
                BY <1>0 DEF Job
            <4>2. job' = [job EXCEPT ![a] = j]
                BY <1>0, <3>4 DEF ProcOK
            <4> HIDE DEF j
            <4>3. HoldsAt(next, j)
                BY <1>1, <4>1 DEF HoldsAt
            <4>4. ProcOK'
                BY <1>0, <1>1, <3>4, <4>1, <4>2, <4>3, MovesType DEF Goto, ProcOK
            <4> QED
                BY <1>0, <2>2, <3>1, <3>2, <3>4, <4>4 DEF TypeInv, HistoryOK
        <3> QED
            BY <1>4, <2>4, <3>3, <3>4, FailsType, <1>1, <2>2, <3>1 DEF AssignPort, next
    <2> QED
        BY <1>4, <2>3, <2>4 DEF AssignPort
<1> QED
    BY <1>2, <1>3, <1>4

LEMMA ProxyType ==
    ASSUME TypeInv, NEW a \in Actors,
           ListTargets(a) \/ GetConf(a) \/ PutConf(a) \/ GetDep(a) \/ PutDep(a)
    PROVE  TypeInv'
<1>0. /\ ProcOK /\ RowsOK /\ ClusterOK /\ HistoryOK
      /\ job[a] \in Job /\ HoldsAt(pc[a], job[a])
      /\ pc[a] \in ProxySteps
    BY DEF TypeInv, ProcOK, ProxySteps, ListTargets, GetConf, PutConf, GetDep, PutDep
<1>1. \A at \in ProxySteps : at \in PC /\ HoldsAt(at, job[a])
    BY <1>0 DEF ProxySteps, HoldsAt, ProjectSteps, PC
<1>2. faults \in 0..MaxFaults
    BY <1>0 DEF HistoryOK
<1>3. CASE ListTargets(a)
    <2> DEFINE j == [job[a] EXCEPT !.conf = Rendered]
    <2>1. j \in Job /\ j.prj = job[a].prj /\ j.op = job[a].op
        BY <1>0, RenderedType DEF Job
    <2> HIDE DEF j
    <2>2. HoldsAt("getConf", j) /\ "getConf" \in PC
        BY <1>1, <2>1 DEF ProxySteps, HoldsAt
    <2>3. ProcOK' /\ HistoryOK'
        BY <1>3, <2>1, <2>2, LearnsType DEF ListTargets, j
    <2> QED
        BY <1>0, <1>3, <2>3 DEF ListTargets, rowVars, proxyVars, clusterVars, TypeInv, RowsOK, ClusterOK
<1>4. CASE GetConf(a) \/ GetDep(a)
    <2>1. ProcOK' /\ HistoryOK'
        BY <1>1, <1>4, GetType DEF GetConf, GetDep, ProxySteps
    <2> QED
        BY <1>0, <1>4, <2>1
           DEF GetConf, GetDep, rowVars, proxyVars, clusterVars, TypeInv, RowsOK, ClusterOK
<1>5. CASE PutConf(a)
    <2>1. RowsOK'
        BY <1>0, <1>5 DEF PutConf, rowVars, RowsOK
    <2>2. CASE Fails(a) /\ UNCHANGED <<conf, faults>>
        BY <1>0, <1>2, <1>5, <2>1, <2>2, FailsType DEF PutConf, clusterVars, ClusterOK
    <2>3. CASE ~(Fails(a) /\ UNCHANGED <<conf, faults>>)
        <3>1. /\ conf' = job[a].conf /\ Outdate(a, At({"putConf"}), conf' # conf)
              /\ Goto(a, "getDep") /\ job' = job /\ UNCHANGED <<history, stamp, proxy, clusterVars>>
            BY <1>5, <2>3 DEF PutConf
        <3>2. ProcOK'
            BY <1>0, <1>1, <3>1, OutdateType, StaysType DEF Goto, ProxySteps
        <3>3. ClusterOK'
            BY <1>0, <3>1 DEF ClusterOK, Job, clusterVars
        <3> QED
            BY <1>0, <2>1, <3>1, <3>2, <3>3 DEF TypeInv, HistoryOK, history
    <2> QED
        BY <2>2, <2>3
<1>6. CASE PutDep(a)
    <2>1. RowsOK'
        BY <1>0, <1>6 DEF PutDep, rowVars, RowsOK
    <2>2. CASE Fails(a) /\ UNCHANGED <<stamp, faults>>
        BY <1>0, <1>2, <1>6, <2>1, <2>2, FailsType DEF PutDep, clusterVars, ClusterOK
    <2>3. CASE ~(Fails(a) /\ UNCHANGED <<stamp, faults>>)
        <3>1. /\ stamp' = job[a].conf /\ Outdate(a, At({"putDep"}), stamp' # stamp)
              /\ ProxySynced(a) /\ UNCHANGED <<history, conf, proxy, clusterVars>>
            BY <1>6, <2>3 DEF PutDep
        <3> DEFINE at == CASE op(a) = "patch"      -> "allows"
                           [] op(a) = "put"        -> "idle"
                           [] op(a) = "proxySweep" -> "modes"
                           [] OTHER                -> "next"
                   j == CASE op(a) = "put"       -> NoJob
                          [] op(a) = "portSweep" -> [job[a] EXCEPT !.op = "modeSweep", !.conf = {},
                                                                  !.left = job[a].all]
                          [] OTHER               -> [job[a] EXCEPT !.conf = {}]
        <3>2. pc' = [pc EXCEPT ![a] = at] /\ job' = [job EXCEPT ![a] = j]
            BY <1>0, <3>1 DEF ProxySynced, Goto, ProcOK
        <3>3. j \in Job /\ at \in PC
            BY <1>0, NoJobType DEF Job, Op, PC
        <3>4. HoldsAt(at, j)
            <4>1. CASE op(a) = "put"
                BY <4>1, NoJobType DEF HoldsAt, ProjectSteps
            <4>2. CASE op(a) = "portSweep"
                <5>1. at = "next" /\ j.op = "modeSweep"
                    BY <1>0, <4>2 DEF Job
                <5> QED
                    BY <5>1 DEF HoldsAt, ProjectSteps
            <4>3. CASE op(a) \notin {"put", "portSweep"}
                <5>1. j.op = job[a].op /\ j.prj = job[a].prj
                    BY <1>0, <4>3 DEF Job
                <5> QED
                    BY <1>0, <4>3, <5>1 DEF HoldsAt, ProjectSteps, op
            <4> QED
                BY <4>1, <4>2, <4>3
        <3> HIDE DEF at, j
        <3>5. seen' \in [Actors -> Sight]
            BY <1>0, <3>1, OutdateType
        <3>6. ProcOK'
            BY <1>0, <3>2, <3>3, <3>4, <3>5, MovesType
        <3>7. ClusterOK'
            BY <1>0, <3>1 DEF ClusterOK, Job, clusterVars
        <3> QED
            BY <1>0, <2>1, <3>1, <3>6, <3>7 DEF TypeInv, HistoryOK, history
    <2> QED
        BY <2>2, <2>3
<1> QED
    BY <1>3, <1>4, <1>5, <1>6

LEMMA ReadType ==
    ASSUME TypeInv, NEW a \in Actors, ReadAllows(a) \/ ReadConfig(a)
    PROVE  TypeInv'
<1>0. /\ ProcOK /\ RowsOK /\ ClusterOK /\ HistoryOK
      /\ job[a] \in Job /\ HoldsAt(pc[a], job[a]) /\ prj(a) \in Projects
    BY DEF TypeInv, ProcOK, HoldsAt, ProjectSteps, prj, ReadAllows, ReadConfig
<1>1. RowsOK' /\ ClusterOK' /\ faults \in 0..MaxFaults
    BY <1>0 DEF ReadAllows, ReadConfig, rowVars, proxyVars, clusterVars, RowsOK, ClusterOK, HistoryOK
<1>2. CASE ReadAllows(a)
    <2> DEFINE S == rules[prj(a)] \intersect Endpoints
               j == [job[a] EXCEPT !.cfg.allows = S]
    <2>1. [job[a].cfg EXCEPT !.allows = S] \in Config
        BY <1>0 DEF Job, Config
    <2>2. j = [job[a] EXCEPT !.cfg = [job[a].cfg EXCEPT !.allows = S]]
        BY <1>0 DEF Job
    <2>3. j \in Job /\ j.prj = job[a].prj
        BY <1>0, <2>1, <2>2 DEF Job
    <2> HIDE DEF j
    <2>4. HoldsAt("config", j) /\ "config" \in PC
        BY <1>0, <2>3 DEF HoldsAt, prj, PC
    <2>5. ProcOK' /\ HistoryOK'
        BY <1>2, <2>3, <2>4, LearnsType DEF ReadAllows, j
    <2> QED
        BY <1>1, <2>5 DEF TypeInv
<1>3. CASE ReadConfig(a)
    <2>1. CASE Fails(a) /\ UNCHANGED faults
        BY <1>1, <2>1, FailsType
    <2>2. CASE ~(Fails(a) /\ UNCHANGED faults)
        <3> DEFINE c == ConfigOf(prj(a), job[a].cfg.allows)
                   j == [job[a] EXCEPT !.cfg = c]
        <3>1. c \in Config
            BY <1>0, ConfigType DEF Job, Config
        <3> HIDE DEF c
        <3>2. j \in Job /\ j.prj = job[a].prj
            BY <1>0, <3>1 DEF Job
        <3> HIDE DEF j
        <3>3. [job[a] EXCEPT !.cfg = ConfigOf(prj(a), @.allows)] = j
            BY <1>0 DEF Job, j, c
        <3>4. Learns(a, "getPolicy", j)
            BY <1>3, <2>2, <3>3 DEF ReadConfig
        <3>5. HoldsAt("getPolicy", j) /\ "getPolicy" \in PC
            BY <1>0, <3>2 DEF HoldsAt, prj, PC
        <3> QED
            BY <1>1, <3>2, <3>4, <3>5, LearnsType DEF TypeInv
    <2> QED
        BY <2>1, <2>2
<1> QED
    BY <1>2, <1>3

LEMMA AccessSyncedType ==
    ASSUME TypeInv, NEW a \in Actors, AccessSynced(a), seen' \in [Actors -> Sight]
    PROVE  ProcOK'
<1>0. ProcOK /\ job[a] \in Job
    BY DEF TypeInv, ProcOK
<1>1. CASE op(a) = "modeSweep"
    <2> DEFINE j == [job[a] EXCEPT !.cfg = Shut, !.prj = None]
    <2>1. j \in Job /\ j.op = "modeSweep"
        BY <1>0, <1>1, ShutType DEF Job, op
    <2> HIDE DEF j
    <2>2. job' = [job EXCEPT ![a] = j] /\ pc' = [pc EXCEPT ![a] = "next"]
        BY <1>0, <1>1 DEF AccessSynced, Goto, ProcOK, j
    <2>3. HoldsAt("next", j) /\ "next" \in PC
        BY <2>1 DEF HoldsAt, ProjectSteps, PC
    <2> QED
        BY <1>0, <2>1, <2>2, <2>3, MovesType
<1>2. CASE op(a) # "modeSweep"
    <2>1. job' = [job EXCEPT ![a] = NoJob] /\ pc' = [pc EXCEPT ![a] = "idle"]
        BY <1>0, <1>2 DEF AccessSynced, Goto, ProcOK
    <2> QED
        BY <1>0, <2>1, IdleHolds, NoJobType, MovesType
<1> QED
    BY <1>1, <1>2

LEMMA WriteType ==
    ASSUME TypeInv, NEW a \in Actors,
           GetPolicy(a) \/ PutPolicy(a) \/ GetApp(a) \/ PutApp(a)
    PROVE  TypeInv'
<1>0. /\ ProcOK /\ RowsOK /\ ClusterOK /\ HistoryOK
      /\ job[a] \in Job /\ HoldsAt(pc[a], job[a]) /\ prj(a) \in Projects
      /\ job[a].cfg \in Config
    BY DEF TypeInv, ProcOK, HoldsAt, ProjectSteps, prj, GetPolicy, PutPolicy, GetApp, PutApp, Job
<1>1. \A at \in {"putPolicy", "getApp", "putApp", "port"} : at \in PC /\ HoldsAt(at, job[a])
    BY <1>0 DEF HoldsAt, prj, PC
<1>2. RowsOK' /\ faults \in 0..MaxFaults
    BY <1>0 DEF GetPolicy, PutPolicy, GetApp, PutApp, rowVars, RowsOK, HistoryOK
<1>3. CASE GetPolicy(a)
    <2>1. ProcOK' /\ HistoryOK'
        BY <1>1, <1>3, GetType DEF GetPolicy
    <2>2. ClusterOK'
        BY <1>0, <1>3 DEF GetPolicy, ClusterOK, proxyVars
    <2> QED
        BY <1>2, <2>1, <2>2 DEF TypeInv
<1>4. CASE PutPolicy(a)
    <2>1. CASE Fails(a) /\ UNCHANGED <<policy, faults>>
        BY <1>0, <1>2, <1>4, <2>1, FailsType DEF PutPolicy, proxyVars, ClusterOK
    <2>2. CASE ~(Fails(a) /\ UNCHANGED <<policy, faults>>)
        <3> DEFINE at == IF op(a) = "put" THEN "port" ELSE "getApp"
        <3>1. /\ policy' = [policy EXCEPT ![prj(a)] = job[a].cfg]
              /\ Outdate(a, At({"putPolicy"}) \intersect SameProject(a), policy' # policy)
              /\ Goto(a, at) /\ job' = job /\ UNCHANGED <<history, proxyVars, ns, env>>
            BY <1>4, <2>2 DEF PutPolicy
        <3>2. at \in PC /\ HoldsAt(at, job[a])
            BY <1>1
        <3> HIDE DEF at
        <3>3. ProcOK'
            BY <1>0, <3>1, <3>2, OutdateType, StaysType DEF Goto
        <3>4. ClusterOK'
            BY <1>0, <3>1 DEF ClusterOK, proxyVars
        <3> QED
            BY <1>0, <1>2, <3>1, <3>3, <3>4 DEF TypeInv, HistoryOK, history
    <2> QED
        BY <2>1, <2>2
<1>5. CASE GetApp(a)
    <2>1. ClusterOK'
        BY <1>0, <1>5 DEF GetApp, ClusterOK, proxyVars, clusterVars
    <2>2. CASE HasApp(prj(a)) \/ op(a) = "deploy"
        BY <1>1, <1>2, <1>5, <2>1, <2>2, GetType DEF GetApp, TypeInv
    <2>3. CASE ~(HasApp(prj(a)) \/ op(a) = "deploy")
        <3>1. AccessSynced(a) /\ UNCHANGED <<seen, history>>
            BY <1>5, <2>3 DEF GetApp
        <3>2. ProcOK'
            BY <1>0, <3>1, AccessSyncedType DEF ProcOK
        <3> QED
            BY <1>0, <1>2, <2>1, <3>1, <3>2 DEF TypeInv, HistoryOK, history
    <2> QED
        BY <2>2, <2>3
<1>6. CASE PutApp(a)
    <2>1. CASE Fails(a) /\ UNCHANGED <<env, faults>>
        BY <1>0, <1>2, <1>6, <2>1, FailsType DEF PutApp, proxyVars, ClusterOK
    <2>2. CASE ~(Fails(a) /\ UNCHANGED <<env, faults>>)
        <3>1. /\ env' = [env EXCEPT ![prj(a)] = job[a].cfg.port]
              /\ Outdate(a, At({"putApp"}) \intersect SameProject(a), env' # env)
              /\ AccessSynced(a) /\ UNCHANGED <<history, proxyVars, ns, policy>>
            BY <1>6, <2>2 DEF PutApp
        <3>2. ProcOK'
            BY <1>0, <3>1, OutdateType, AccessSyncedType
        <3>3. job[a].cfg.port \in Ports \union {None}
            BY <1>0 DEF Config
        <3>4. ClusterOK'
            BY <1>0, <3>1, <3>3 DEF ClusterOK, proxyVars
        <3> QED
            BY <1>0, <1>2, <3>1, <3>2, <3>4 DEF TypeInv, HistoryOK, history
    <2> QED
        BY <2>1, <2>2
<1> QED
    BY <1>3, <1>4, <1>5, <1>6

LEMMA SweepType ==
    ASSUME TypeInv, NEW a \in Actors, SetMode(a) \/ ListModes(a) \/ NextProject(a)
    PROVE  TypeInv'
<1>0. /\ ProcOK /\ RowsOK /\ ClusterOK /\ HistoryOK
      /\ job[a] \in Job /\ HoldsAt(pc[a], job[a])
    BY DEF TypeInv, ProcOK
<1>1. ClusterOK'
    BY <1>0 DEF SetMode, ListModes, NextProject, proxyVars, clusterVars, ClusterOK
<1>2. CASE SetMode(a)
    <2> DEFINE j == [job[a] EXCEPT !.mode = "off"]
    <2>1. j \in Job /\ j.prj = job[a].prj /\ j.op = job[a].op
        BY <1>0 DEF Job, Mode
    <2> HIDE DEF j
    <2>2. HoldsAt("list", j) /\ "list" \in PC
        BY <1>0, <1>2, <2>1 DEF SetMode, HoldsAt, ProjectSteps, PC
    <2>3. ProcOK' /\ HistoryOK'
        BY <1>2, <2>1, <2>2, LearnsType DEF SetMode, j
    <2>4. RowsOK'
        <3>1. job[a].mode \in Mode /\ prj(a) \in Projects
            BY <1>0, <1>2 DEF Job, SetMode, HoldsAt, ProjectSteps, prj
        <3> QED
            BY <1>0, <1>2, <3>1 DEF SetMode, RowsOK, Row
    <2> QED
        BY <1>1, <2>3, <2>4 DEF TypeInv
<1>3. CASE ListModes(a)
    <2> DEFINE S == {p \in Projects : live(p) /\ project[p].mode # "off"}
               j == [NoJob EXCEPT !.op = "portSweep", !.left = S, !.all = S]
    <2>1. j \in Job /\ j.op = "portSweep"
        BY NoJobType DEF Job, Op
    <2> HIDE DEF j
    <2>2. HoldsAt("next", j) /\ "next" \in PC
        BY <2>1 DEF HoldsAt, ProjectSteps, PC
    <2>3. ProcOK' /\ HistoryOK'
        BY <1>3, <2>1, <2>2, LearnsType DEF ListModes, j
    <2> QED
        BY <1>0, <1>1, <1>3, <2>3 DEF ListModes, rowVars, RowsOK, TypeInv
<1>4. CASE NextProject(a)
    <2>1. RowsOK'
        BY <1>0, <1>4 DEF NextProject, rowVars, RowsOK
    <2>2. CASE Ends(a)
        BY <1>1, <2>1, <2>2, EndsType DEF TypeInv
    <2>3. CASE op(a) = "portSweep" /\ Learns(a, "list", [job[a] EXCEPT !.prj = None])
        <3> DEFINE j == [job[a] EXCEPT !.prj = None]
        <3>1. j \in Job /\ j.op = "portSweep"
            BY <1>0, <2>3 DEF Job, op
        <3> HIDE DEF j
        <3>2. HoldsAt("list", j) /\ "list" \in PC
            BY <3>1 DEF HoldsAt, ProjectSteps, PC
        <3> QED
            BY <1>1, <2>1, <2>3, <3>1, <3>2, LearnsType DEF TypeInv, j
    <2>4. ASSUME NEW p \in job[a].left,
                 Learns(a, IF op(a) = "portSweep" THEN "port" ELSE "allows",
                        [job[a] EXCEPT !.prj = p, !.left = @ \ {p}])
          PROVE  TypeInv'
        <3> DEFINE j  == [job[a] EXCEPT !.prj = p, !.left = @ \ {p}]
                   at == IF op(a) = "portSweep" THEN "port" ELSE "allows"
        <3>1. j \in Job /\ j.prj \in Projects
            BY <1>0 DEF Job
        <3>2. HoldsAt(at, j) /\ at \in PC
            BY <3>1 DEF HoldsAt, PC
        <3>3. Learns(a, at, j)
            BY <2>4
        <3> HIDE DEF j, at
        <3> QED
            BY <1>1, <2>1, <3>1, <3>2, <3>3, LearnsType DEF TypeInv
    <2> QED
        BY <1>4, <2>2, <2>3, <2>4 DEF NextProject
<1> QED
    BY <1>2, <1>3, <1>4

LEMMA BeginsType ==
    ASSUME TypeInv, NEW a \in Actors, NEW at \in PC, NEW j \in Job, HoldsAt(at, j),
           Begins(a, at, j)
    PROVE  ProcOK' /\ HistoryOK'
<1>1. ProcOK'
    BY MovesType DEF TypeInv, Begins, Goto, ProcOK
<1> QED
    BY <1>1, EgressAssumption DEF TypeInv, Begins, HistoryOK

LEMMA BeginType ==
    ASSUME TypeInv, Begin
    PROVE  TypeInv'
<1>0. ProcOK /\ RowsOK /\ ClusterOK /\ HistoryOK
    BY DEF TypeInv
<1> USE NoJobType, ActorsApart
<1>1. ASSUME NEW r \in Requests, NEW p \in Projects, NEW m \in Mode, PatchMode(r, p, m)
      PROVE  TypeInv'
    <2> DEFINE j  == [NoJob EXCEPT !.op = "patch", !.prj = p, !.mode = m]
               at == IF m = "off" THEN "mode" ELSE "port"
    <2>1. j \in Job /\ j.prj \in Projects
        BY DEF Job, Op
    <2>2. HoldsAt(at, j) /\ at \in PC
        BY <2>1 DEF HoldsAt, PC
    <2>3. Begins(r, at, j) /\ r \in Actors
        BY <1>1 DEF PatchMode
    <2> HIDE DEF j, at
    <2>4. ProcOK' /\ HistoryOK'
        BY <2>1, <2>2, <2>3, BeginsType
    <2> QED
        BY <1>0, <1>1, <2>4
           DEF PatchMode, rowVars, proxyVars, clusterVars, RowsOK, ClusterOK, TypeInv
<1>2. ASSUME NEW r \in Requests, NEW p \in Projects, NEW S \in SUBSET Rules, PutRules(r, p, S)
      PROVE  TypeInv'
    <2> DEFINE j  == [NoJob EXCEPT !.op = "put", !.prj = p]
    <2>1. j \in Job /\ j.prj \in Projects
        BY DEF Job, Op
    <2>2. HoldsAt("allows", j) /\ "allows" \in PC
        BY <2>1 DEF HoldsAt, PC
    <2> HIDE DEF j
    <2>3. ProcOK' /\ HistoryOK'
        BY <1>2, <2>1, <2>2, BeginsType DEF PutRules, j
    <2> QED
        BY <1>0, <1>2, <2>3
           DEF PutRules, proxyVars, clusterVars, RowsOK, ClusterOK, TypeInv
<1>3. ASSUME NEW p \in Projects, Deploy(p) PROVE TypeInv'
    <2> DEFINE j  == [NoJob EXCEPT !.op = "deploy", !.prj = p]
    <2>1. j \in Job /\ j.prj \in Projects
        BY DEF Job, Op
    <2>2. HoldsAt("allows", j) /\ "allows" \in PC
        BY <2>1 DEF HoldsAt, PC
    <2> HIDE DEF j
    <2>3. ProcOK' /\ HistoryOK'
        BY <1>3, <2>1, <2>2, BeginsType DEF Deploy, j
    <2> QED
        BY <1>0, <1>3, <2>3
           DEF Deploy, rowVars, proxyVars, clusterVars, RowsOK, ClusterOK, TypeInv
<1>4. ASSUME NEW p \in Projects, DeleteProject(p) PROVE TypeInv'
    <2>1. RowsOK'
        BY <1>0, <1>4 DEF DeleteProject, RowsOK, Row
    <2>2. ClusterOK'
        BY <1>0, <1>4 DEF DeleteProject, ClusterOK, proxyVars
    <2>3. ProcOK'
        <3>1. seen' \in [Actors -> Sight]
            BY <1>0, <1>4 DEF DeleteProject, ProcOK, Sight
        <3> QED
            BY <1>0, <1>4, <3>1 DEF DeleteProject, ProcOK, HoldsAt
    <2>4. HistoryOK'
        BY <1>0, <1>4, EgressAssumption DEF DeleteProject, HistoryOK
    <2> QED
        BY <2>1, <2>2, <2>3, <2>4 DEF TypeInv
<1>5. ASSUME NEW p \in Projects, NEW m \in Mode, FlipInDatabase(p, m) PROVE TypeInv'
    <2>1. RowsOK'
        BY <1>0, <1>5 DEF FlipInDatabase, RowsOK, Row
    <2>2. ClusterOK' /\ ProcOK'
        BY <1>0, <1>5
           DEF FlipInDatabase, ClusterOK, ProcOK, HoldsAt, proxyVars, clusterVars, procVars
    <2>3. HistoryOK'
        BY <1>0, <1>5, EgressAssumption DEF FlipInDatabase, HistoryOK
    <2> QED
        BY <2>1, <2>2, <2>3 DEF TypeInv
<1> QED
    BY <1>1, <1>2, <1>3, <1>4, <1>5 DEF Begin

LEMMA WorldType ==
    ASSUME TypeInv, (\E a \in Actors : CallFails(a)) \/ Rollout \/ ContainerRestarts \/ Restart
    PROVE  TypeInv'
<1>0. ProcOK /\ RowsOK /\ ClusterOK /\ HistoryOK /\ faults \in 0..MaxFaults
    BY DEF TypeInv, HistoryOK
<1>1. ASSUME NEW a \in Actors, CallFails(a) PROVE TypeInv'
    <2>1. faults' \in 0..MaxFaults
        BY <1>0, <1>1, EgressAssumption DEF CallFails
    <2> QED
        BY <1>0, <1>1, <2>1, FailsType
           DEF CallFails, rowVars, proxyVars, clusterVars, RowsOK, ClusterOK
<1>2. CASE Rollout \/ ContainerRestarts
    <2>1. ClusterOK'
        BY <1>0, <1>2 DEF Rollout, ContainerRestarts, ClusterOK, clusterVars
    <2> QED
        BY <1>0, <1>2, <2>1 DEF Rollout, ContainerRestarts, rowVars, procVars, history,
           TypeInv, RowsOK, ProcOK, HoldsAt, HistoryOK
<1>3. CASE Restart
    <2>1. pc' \in [Actors -> PC] /\ job' \in [Actors -> Job] /\ seen' \in [Actors -> Sight]
        BY <1>3, NoJobType DEF Restart, PC, Sight
    <2>2. ASSUME NEW a \in Actors PROVE HoldsAt(pc'[a], job'[a])
        BY <1>3, NoJobType DEF Restart, HoldsAt, ProjectSteps
    <2>3. ProcOK'
        BY <2>1, <2>2 DEF ProcOK, HoldsAt
    <2>4. HistoryOK'
        BY <1>0, <1>3, EgressAssumption, ActorsApart DEF Restart, HistoryOK
    <2> QED
        BY <1>0, <1>3, <2>3, <2>4
           DEF Restart, rowVars, proxyVars, clusterVars, RowsOK, ClusterOK, TypeInv
<1> QED
    BY <1>1, <1>2, <1>3

LEMMA NextType == TypeInv /\ [Next]_vars => TypeInv'
<1> SUFFICES ASSUME TypeInv, [Next]_vars PROVE TypeInv'
    OBVIOUS
<1>1. CASE UNCHANGED vars
    BY <1>1 DEF vars, rowVars, proxyVars, clusterVars, procVars, history, TypeInv, ProcOK,
                HoldsAt, RowsOK, ClusterOK, HistoryOK
<1>2. CASE Next
    BY <1>2, BeginType, PortType, ProxyType, ReadType, WriteType, SweepType, WorldType
       DEF Next, Step
<1> QED
    BY <1>1, <1>2

LEMMA TypeInvAlways == Spec => []TypeInv
BY InitType, NextType, PTL DEF Spec

\* Every reachable state has its types: an actor at a step that concerns a project
\* has one in hand.
THEOREM EgressTypeCorrect == Spec => []TypeOK
BY TypeInvAlways, TypeInvOK, PTL

--------------------------------------------------------------------------------
(***************************************************************************)
(* How rows age: a deleted project does not come back, a port that was not *)
(* replaced stays, a blind deployment is remembered.                       *)
(***************************************************************************)

LEMMA RowKinds ==
    ASSUME [Next]_vars
    PROVE  \/ \E a \in Actors : AssignPort(a) \/ SetMode(a)
           \/ \E p \in Projects : DeleteProject(p)
           \/ \E p \in Projects, m \in Mode : FlipInDatabase(p, m)
           \/ UNCHANGED <<project, moved>>
<1> USE DEF rowVars, history
<1>1. CASE \E r \in Requests, p \in Projects, m \in Mode : PatchMode(r, p, m)
    BY <1>1 DEF PatchMode, Begins
<1>2. CASE \E r \in Requests, p \in Projects, S \in SUBSET Rules : PutRules(r, p, S)
    BY <1>2 DEF PutRules, Begins
<1>3. CASE \E p \in Projects : Deploy(p)
    BY <1>3 DEF Deploy, Begins
<1>4. ASSUME NEW a \in Actors,
             ReadPort(a) \/ PickPort(a) \/ ListTargets(a) \/ GetConf(a) \/ PutConf(a) \/ GetDep(a)
             \/ PutDep(a) \/ ReadAllows(a) \/ ReadConfig(a)
      PROVE  UNCHANGED <<project, moved>>
    BY <1>4 DEF ReadPort, PickPort, ListTargets, GetConf, PutConf, GetDep, PutDep, ReadAllows,
           ReadConfig, HavePort, Steps, Learns, Get, Fails
<1>5. ASSUME NEW a \in Actors,
             GetPolicy(a) \/ PutPolicy(a) \/ GetApp(a) \/ PutApp(a) \/ ListModes(a)
             \/ NextProject(a) \/ CallFails(a)
      PROVE  UNCHANGED <<project, moved>>
    BY <1>5 DEF GetPolicy, PutPolicy, GetApp, PutApp, ListModes, NextProject, CallFails,
           Learns, Ends, Get, Fails
<1>6. CASE Rollout \/ ContainerRestarts \/ Restart
    BY <1>6 DEF Rollout, ContainerRestarts, Restart
<1>7. CASE UNCHANGED vars
    BY <1>7 DEF vars
<1> QED
    BY <1>1, <1>2, <1>3, <1>4, <1>5, <1>6, <1>7 DEF Next, Begin, Step

LEMMA RowsAge ==
    ASSUME TypeInv, [Next]_vars, NEW p \in Projects, project'[p].live, p \notin moved'
    PROVE  /\ project[p].live /\ p \notin moved
           /\ project'[p].port = project[p].port \/ project[p].port = None
<1>0. RowsOK /\ project[p] \in Row
    BY DEF TypeInv, RowsOK
<1>1. ASSUME NEW a \in Actors, AssignPort(a)
      PROVE  /\ project[p].live /\ p \notin moved
             /\ project'[p].port = project[p].port \/ project[p].port = None
    <2> DEFINE q == prj(a)
    <2>1. CASE UNCHANGED <<project, moved>>
        BY <2>1
    <2>2. CASE ~ UNCHANGED <<project, moved>>
        <3>1. /\ project' = [project EXCEPT ![q].port = job[a].port] /\ live(q)
              /\ moved' = IF project[q].port \in {None, job[a].port} THEN moved
                          ELSE moved \union {q}
            BY <1>1, <2>2 DEF AssignPort, Fails
        <3> HIDE DEF q
        <3>2. CASE p = q
            BY <1>0, <3>1, <3>2 DEF RowsOK, Row, live
        <3>3. CASE p # q
            BY <1>0, <3>1, <3>3 DEF RowsOK
        <3> QED
            BY <3>2, <3>3
    <2> QED
        BY <2>1, <2>2
<1>2. ASSUME NEW a \in Actors, SetMode(a)
      PROVE  project[p].live /\ p \notin moved /\ project'[p].port = project[p].port
    <2>1. project' = [project EXCEPT ![prj(a)].mode = job[a].mode] /\ moved' = moved
        BY <1>2 DEF SetMode, Learns, history
    <2> QED
        BY <1>0, <2>1 DEF RowsOK, Row
<1>3. ASSUME NEW q \in Projects, DeleteProject(q)
      PROVE  project[p].live /\ p \notin moved /\ project'[p].port = project[p].port
    BY <1>0, <1>3 DEF DeleteProject, RowsOK, Row
<1>4. ASSUME NEW q \in Projects, NEW m \in Mode, FlipInDatabase(q, m)
      PROVE  project[p].live /\ p \notin moved /\ project'[p].port = project[p].port
    BY <1>0, <1>4 DEF FlipInDatabase, RowsOK, Row
<1> QED
    BY <1>1, <1>2, <1>3, <1>4, RowKinds

LEMMA BlindGrows ==
    ASSUME [Next]_vars
    PROVE  blind \subseteq blind'
<1> USE DEF history
<1>1. ASSUME NEW a \in Actors, BreaksOff(a) PROVE blind \subseteq blind'
    BY <1>1 DEF BreaksOff
<1>2. CASE Begin
    BY <1>2 DEF Begin, PatchMode, PutRules, Deploy, Begins, DeleteProject, FlipInDatabase
<1>3. ASSUME NEW a \in Actors,
             ReadPort(a) \/ PickPort(a) \/ ListTargets(a) \/ GetConf(a) \/ PutConf(a) \/ GetDep(a)
             \/ PutDep(a) \/ ReadAllows(a) \/ ReadConfig(a)
      PROVE  blind \subseteq blind'
    BY <1>1, <1>3 DEF ReadPort, PickPort, ListTargets, GetConf, PutConf, GetDep, PutDep,
           ReadAllows, ReadConfig, HavePort, Steps, Learns, Get, Fails
<1>4. ASSUME NEW a \in Actors,
             AssignPort(a) \/ SetMode(a) \/ GetPolicy(a) \/ PutPolicy(a) \/ GetApp(a) \/ PutApp(a)
             \/ ListModes(a) \/ NextProject(a) \/ CallFails(a)
      PROVE  blind \subseteq blind'
    BY <1>1, <1>4 DEF AssignPort, SetMode, GetPolicy, PutPolicy, GetApp, PutApp, ListModes,
           NextProject, CallFails, Learns, Ends, Get, Fails
<1>5. CASE Rollout \/ ContainerRestarts \/ Restart
    BY <1>5 DEF Rollout, ContainerRestarts, Restart
<1>6. CASE UNCHANGED vars
    BY <1>6 DEF vars
<1> QED
    BY <1>2, <1>3, <1>4, <1>5, <1>6 DEF Next, Step

--------------------------------------------------------------------------------
(***************************************************************************)
(* The invariant.  What was rendered for a project, or copied into its     *)
(* policy and its pods, names the port that its row still has, unless the  *)
(* project is gone or its port was replaced.                               *)
(***************************************************************************)

WriteSteps == {"getPolicy", "putPolicy", "getApp", "putApp"}

\* The listeners of C, judged by these rows.
ListenersAt(C, row, mv) ==
    \A l \in C : row[l.slug].live /\ l.slug \notin mv => l.port = row[l.slug].port

\* The configuration c of project p.
ConfigAt(p, c, row, mv, bl) ==
    /\ c.public => p \in bl
    /\ row[p].live /\ p \notin mv => c.port \in {None, row[p].port}

JobAt(at, j, row, mv, bl) ==
    /\ OneOwnerEach(j.conf) /\ ListenersAt(j.conf, row, mv)
    /\ at \in WriteSteps => ConfigAt(j.prj, j.cfg, row, mv, bl)
    /\ at \in ConfigSteps /\ j.op = "deploy" => j.cfg.port = None
    /\ j.op = "deploy" => at \in ConfigSteps \union WriteSteps

PortsUnique == \A p, q \in Targets : project[p].port = project[q].port => p = q

JobsOK == \A a \in Actors : JobAt(pc[a], job[a], project, moved, blind)

ConfOK ==
    /\ OneOwnerEach(conf) /\ ListenersAt(conf, project, moved)
    /\ OneOwnerEach(proxy.conf) /\ ListenersAt(proxy.conf, project, moved)

EnvOK ==
    \A p \in Projects : live(p) /\ p \notin moved => env[p] \in {None, Absent, project[p].port}

Safe == PortsUnique /\ JobsOK /\ ConfOK /\ EnvOK /\ OpensOnlyBlind

LEMMA ListenersAge ==
    ASSUME TypeInv, [Next]_vars, NEW C \in SUBSET Listener, ListenersAt(C, project, moved)
    PROVE  ListenersAt(C, project', moved')
<1> SUFFICES ASSUME NEW l \in C, project'[l.slug].live, l.slug \notin moved'
             PROVE  l.port = project'[l.slug].port
    BY DEF ListenersAt
<1>1. l.slug \in Projects /\ l.port \in Ports
    BY DEF Listener
<1>2. /\ project[l.slug].live /\ l.slug \notin moved
      /\ project'[l.slug].port = project[l.slug].port \/ project[l.slug].port = None
    BY <1>1, RowsAge
<1> QED
    BY <1>1, <1>2, ActorsApart DEF ListenersAt

LEMMA ConfigAges ==
    ASSUME TypeInv, [Next]_vars, NEW p \in Projects, NEW c \in Config,
           ConfigAt(p, c, project, moved, blind')
    PROVE  ConfigAt(p, c, project', moved', blind')
BY RowsAge DEF ConfigAt

LEMMA JobAges ==
    ASSUME TypeInv, [Next]_vars, NEW at \in PC, NEW j \in Job, HoldsAt(at, j),
           JobAt(at, j, project, moved, blind')
    PROVE  JobAt(at, j, project', moved', blind')
<1>1. ListenersAt(j.conf, project', moved')
    BY ListenersAge DEF JobAt, Job
<1>2. ASSUME at \in WriteSteps PROVE ConfigAt(j.prj, j.cfg, project', moved', blind')
    <2>1. j.prj \in Projects
        BY <1>2 DEF HoldsAt, WriteSteps, ProjectSteps
    <2> QED
        BY <1>2, <2>1, ConfigAges DEF JobAt, Job
<1> QED
    BY <1>1, <1>2 DEF JobAt

LEMMA RenderedOK ==
    ASSUME TypeInv, PortsUnique
    PROVE  OneOwnerEach(Rendered) /\ ListenersAt(Rendered, project, moved)
<1>1. \A p \in Targets : Render(p).slug = p /\ Render(p).port = project[p].port
    BY DEF Render
<1>2. ASSUME NEW l \in Rendered, NEW m \in Rendered, l.port = m.port \/ l.slug = m.slug
      PROVE  l = m
    <2>1. PICK p \in Targets : l = Render(p)
        BY DEF Rendered
    <2>2. PICK q \in Targets : m = Render(q)
        BY DEF Rendered
    <2>3. p = q
        BY <1>1, <1>2, <2>1, <2>2 DEF PortsUnique
    <2> QED
        BY <2>1, <2>2, <2>3
<1>3. \A l \in Rendered : l.port = project[l.slug].port
    BY <1>1 DEF Rendered
<1> QED
    BY <1>2, <1>3 DEF OneOwnerEach, ListenersAt

LEMMA NoJobOK ==
    ASSUME NEW row, NEW mv, NEW bl
    PROVE  JobAt("idle", NoJob, row, mv, bl) /\ JobAt("list", BootSweep, row, mv, bl)
BY NoJobType DEF JobAt, OneOwnerEach, ListenersAt, WriteSteps, ConfigSteps

LEMMA UniqueStep ==
    ASSUME TypeInv, PortsUnique, [Next]_vars
    PROVE  PortsUnique'
<1>0. RowsOK
    BY DEF TypeInv
<1>1. ASSUME NEW a \in Actors, AssignPort(a) PROVE PortsUnique'
    <2> DEFINE p == prj(a)
               n == job[a].port
    <2>1. p \in Projects
        BY <1>1 DEF AssignPort, TypeInv, ProcOK, HoldsAt, ProjectSteps, prj
    <2>2. CASE UNCHANGED project
        BY <2>2 DEF PortsUnique, Targets, live
    <2>3. CASE ~ UNCHANGED project
        <3>1. /\ project' = [project EXCEPT ![p].port = n] /\ live(p) /\ ~Rejected(p, n)
            BY <1>1, <2>3 DEF AssignPort
        <3> HIDE DEF p, n
        <3>2. \A q \in Projects \ {p} : project'[q] = project[q]
            BY <1>0, <3>1 DEF RowsOK
        <3>3. project'[p].port = n
            BY <1>0, <2>1, <3>1 DEF RowsOK, Row
        <3>4. \A q \in Targets' \ {p} : q \in Targets /\ project'[q].port = project[q].port
            BY <3>2 DEF Targets, live
        <3>5. \A q \in Targets' \ {p} : n # None => project'[q].port # n
            BY <3>1, <3>4 DEF Rejected
        <3>6. p \in Targets' => n # None
            BY <3>3 DEF Targets
        <3> QED
            BY <3>3, <3>4, <3>5, <3>6 DEF PortsUnique
    <2> QED
        BY <2>2, <2>3
<1>2. CASE \A q \in Projects : project'[q].port = project[q].port
                               /\ (project'[q].live => project[q].live)
    BY <1>2 DEF PortsUnique, Targets, live
<1>3. ASSUME NEW a \in Actors, SetMode(a) PROVE PortsUnique'
    BY <1>0, <1>2, <1>3 DEF SetMode, RowsOK, Row
<1>4. ASSUME NEW q \in Projects, DeleteProject(q) PROVE PortsUnique'
    BY <1>0, <1>2, <1>4 DEF DeleteProject, RowsOK, Row
<1>5. ASSUME NEW q \in Projects, NEW m \in Mode, FlipInDatabase(q, m) PROVE PortsUnique'
    BY <1>0, <1>2, <1>5 DEF FlipInDatabase, RowsOK, Row
<1>6. CASE UNCHANGED project
    BY <1>2, <1>6
<1> QED
    BY <1>1, <1>3, <1>4, <1>5, <1>6, RowKinds

--------------------------------------------------------------------------------
(***************************************************************************)
(* Jobs stay true.  A step changes the job of one actor; the lemmas judge  *)
(* it by the rows before the step, and JobAges carries it over.            *)
(***************************************************************************)

JobsKept == \A b \in Actors : JobAt(pc'[b], job'[b], project, moved, blind')

LEMMA JobMoves ==
    ASSUME TypeInv, JobsOK, blind \subseteq blind', NEW a \in Actors, NEW at, NEW j,
           pc' = [pc EXCEPT ![a] = at], job' = [job EXCEPT ![a] = j],
           JobAt(at, j, project, moved, blind')
    PROVE  JobsKept
<1> SUFFICES ASSUME NEW b \in Actors PROVE JobAt(pc'[b], job'[b], project, moved, blind')
    BY DEF JobsKept
<1>0. pc \in [Actors -> PC] /\ job \in [Actors -> Job]
    BY DEF TypeInv, ProcOK
<1>1. CASE b = a
    BY <1>0, <1>1
<1>2. CASE b # a
    <2>1. JobAt(pc[b], job[b], project, moved, blind) /\ pc'[b] = pc[b] /\ job'[b] = job[b]
        BY <1>0, <1>2 DEF JobsOK
    <2>2. JobAt(pc[b], job[b], project, moved, blind')
        BY <2>1 DEF JobAt, ConfigAt
    <2> QED
        BY <2>1, <2>2
<1> QED
    BY <1>1, <1>2

\* The same with the job as it is.
LEMMA JobStays ==
    ASSUME TypeInv, JobsOK, blind \subseteq blind', NEW a \in Actors, NEW at,
           pc' = [pc EXCEPT ![a] = at], job' = job,
           JobAt(at, job[a], project, moved, blind')
    PROVE  JobsKept
<1>1. job' = [job EXCEPT ![a] = job[a]]
    BY DEF TypeInv, ProcOK
<1> QED
    BY <1>1, JobMoves

LEMMA JobsUntouched ==
    ASSUME TypeInv, JobsOK, blind \subseteq blind', pc' = pc, job' = job
    PROVE  JobsKept
<1> SUFFICES ASSUME NEW b \in Actors PROVE JobAt(pc'[b], job'[b], project, moved, blind')
    BY DEF JobsKept
<1> QED
    BY DEF JobsOK, JobAt, ConfigAt

\* Outside the writing of policy and pods, a job that is no deployment's only has
\* listeners to answer for.
LEMMA PlainJob ==
    ASSUME NEW at, NEW j, NEW bl, at \notin WriteSteps, j.op # "deploy",
           j.conf # {} => OneOwnerEach(j.conf) /\ ListenersAt(j.conf, project, moved)
    PROVE  JobAt(at, j, project, moved, bl)
BY DEF JobAt, OneOwnerEach, ListenersAt

LEMMA BeginKeeps ==
    ASSUME TypeInv, JobsOK, blind \subseteq blind', Begin
    PROVE  JobsKept
<1> USE NoJobType, ActorsApart
<1>1. ASSUME NEW r \in Requests, NEW p \in Projects, NEW m \in Mode, PatchMode(r, p, m)
      PROVE  JobsKept
    <2> DEFINE j  == [NoJob EXCEPT !.op = "patch", !.prj = p, !.mode = m]
               at == IF m = "off" THEN "mode" ELSE "port"
    <2>1. j.conf = {} /\ j.op # "deploy" /\ at \notin WriteSteps
        BY DEF NoJob, WriteSteps
    <2>2. Begins(r, at, j) /\ r \in Actors
        BY <1>1 DEF PatchMode
    <2> HIDE DEF j, at
    <2>3. JobAt(at, j, project, moved, blind')
        BY <2>1, NoJobOK DEF JobAt, OneOwnerEach, ListenersAt
    <2>4. pc' = [pc EXCEPT ![r] = at] /\ job' = [job EXCEPT ![r] = j]
        BY <2>2 DEF Begins, Goto
    <2> QED
        BY <2>2, <2>3, <2>4, JobMoves
<1>2. ASSUME NEW r \in Requests, NEW p \in Projects, NEW S \in SUBSET Rules, PutRules(r, p, S)
      PROVE  JobsKept
    <2> DEFINE j == [NoJob EXCEPT !.op = "put", !.prj = p]
    <2>1. j.conf = {} /\ j.op # "deploy" /\ "allows" \notin WriteSteps
        BY DEF NoJob, WriteSteps
    <2>2. Begins(r, "allows", j) /\ r \in Actors
        BY <1>2 DEF PutRules
    <2> HIDE DEF j
    <2>3. JobAt("allows", j, project, moved, blind')
        BY <2>1, NoJobOK DEF JobAt, OneOwnerEach, ListenersAt
    <2>4. pc' = [pc EXCEPT ![r] = "allows"] /\ job' = [job EXCEPT ![r] = j]
        BY <2>2 DEF Begins, Goto
    <2> QED
        BY <2>2, <2>3, <2>4, JobMoves
<1>3. ASSUME NEW p \in Projects, Deploy(p) PROVE JobsKept
    <2> DEFINE j == [NoJob EXCEPT !.op = "deploy", !.prj = p]
    <2>1. j.conf = {} /\ j.cfg = Shut /\ Shut.port = None
        BY DEF NoJob, Shut
    <2>2. JobAt("allows", j, project, moved, blind')
        <3> HIDE DEF j
        <3> QED
            BY <2>1 DEF JobAt, OneOwnerEach, ListenersAt, WriteSteps, ConfigSteps
    <2>3. Begins(Tick, "allows", j)
        BY <1>3 DEF Deploy
    <2> HIDE DEF j
    <2> QED
        BY <2>2, <2>3, JobMoves DEF Begins, Goto
<1>4. CASE \E p \in Projects : DeleteProject(p)
    BY <1>4, JobsUntouched DEF DeleteProject
<1>5. CASE \E p \in Projects, m \in Mode : FlipInDatabase(p, m)
    BY <1>5, JobsUntouched DEF FlipInDatabase, procVars
<1> QED
    BY <1>1, <1>2, <1>3, <1>4, <1>5 DEF Begin

LEMMA BreaksOffKeeps ==
    ASSUME TypeInv, JobsOK, NEW a \in Actors, BreaksOff(a)
    PROVE  JobsKept
<1>0. /\ pc \in [Actors -> PC] /\ job \in [Actors -> Job] /\ job[a] \in Job
      /\ JobAt(pc[a], job[a], project, moved, blind)
    BY DEF TypeInv, ProcOK, JobsOK
<1> DEFINE at == OnError(a)
           j  == IF at = "idle" THEN NoJob
                 ELSE IF GoesBlind(a) THEN [job[a] EXCEPT !.cfg.public = TRUE]
                 ELSE job[a]
<1>1. /\ pc' = [pc EXCEPT ![a] = at] /\ job' = [job EXCEPT ![a] = j] /\ blind \subseteq blind'
      /\ GoesBlind(a) => prj(a) \in blind'
    BY <1>0 DEF BreaksOff, Goto
<1>2. CASE GoesBlind(a)
    <2>1. at = "getPolicy" /\ j = [job[a] EXCEPT !.cfg.public = TRUE]
        BY <1>2 DEF GoesBlind, OnError, ConfigSteps, PortSteps
    <2>2. /\ j.conf = job[a].conf /\ j.prj = prj(a) /\ j.op = "deploy"
          /\ j.cfg.port = job[a].cfg.port
        BY <1>0, <1>2, <2>1 DEF GoesBlind, op, prj, Job, Config
    <2>3. job[a].cfg.port = None
        BY <1>0, <1>2 DEF GoesBlind, JobAt, op
    <2> HIDE DEF j
    <2>4. JobAt("getPolicy", j, project, moved, blind')
        BY <1>0, <1>1, <1>2, <2>2, <2>3
           DEF JobAt, ConfigAt, WriteSteps, ConfigSteps, GoesBlind
    <2> QED
        BY <1>1, <2>1, <2>4, JobMoves
<1>3. CASE ~GoesBlind(a) /\ at = "idle"
    <2>1. j = NoJob
        BY <1>3
    <2> QED
        BY <1>1, <1>3, <2>1, NoJobOK, JobMoves
<1>4. CASE ~GoesBlind(a) /\ at # "idle"
    <2>1. j = job[a]
        BY <1>4
    <2>2. at \notin WriteSteps /\ job[a].op # "deploy"
        BY <1>4 DEF OnError, GoesBlind, WriteSteps, op
    <2>3. JobAt(at, job[a], project, moved, blind')
        BY <1>0, <2>2, PlainJob DEF JobAt
    <2> QED
        BY <1>1, <2>1, <2>3, JobMoves
<1> QED
    BY <1>2, <1>3, <1>4

LEMMA PortKeeps ==
    ASSUME TypeInv, JobsOK, blind \subseteq blind', NEW a \in Actors,
           ReadPort(a) \/ PickPort(a) \/ AssignPort(a) \/ SetMode(a)
    PROVE  JobsKept
<1>0. /\ pc \in [Actors -> PC] /\ job \in [Actors -> Job] /\ job[a] \in Job
      /\ JobAt(pc[a], job[a], project, moved, blind)
    BY DEF TypeInv, ProcOK, JobsOK
<1>1. pc[a] \notin ConfigSteps \union WriteSteps
    BY DEF ReadPort, PickPort, AssignPort, SetMode, ConfigSteps, WriteSteps
<1>2. job[a].op # "deploy"
    BY <1>0, <1>1 DEF JobAt
<1>3. ASSUME NEW at, at \notin WriteSteps, pc' = [pc EXCEPT ![a] = at], job' = job
      PROVE  JobsKept
    BY <1>0, <1>2, <1>3, PlainJob, JobStays DEF JobAt
<1>4. ASSUME NEW at, at \notin WriteSteps, NEW j, j.op = job[a].op, j.conf = job[a].conf,
             pc' = [pc EXCEPT ![a] = at], job' = [job EXCEPT ![a] = j]
      PROVE  JobsKept
    BY <1>0, <1>2, <1>4, PlainJob, JobMoves DEF JobAt
<1>5. CASE ReadPort(a)
    BY <1>3, <1>5, BreaksOffKeeps DEF ReadPort, HavePort, Steps, Goto, WriteSteps, Fails
<1>6. CASE PickPort(a)
    <2>1. [job[a] EXCEPT !.port = LowestFree].op = job[a].op
          /\ [job[a] EXCEPT !.port = LowestFree].conf = job[a].conf
        BY <1>0 DEF Job
    <2> QED
        BY <1>4, <1>6, <2>1 DEF PickPort, Learns, Goto, WriteSteps
<1>7. CASE AssignPort(a)
    <2> DEFINE j  == [job[a] EXCEPT !.port = None]
               at == CASE op(a) = "patch" -> "mode"
                       [] op(a) = "put"   -> "list"
                       [] OTHER           -> "next"
    <2>1. j.op = job[a].op /\ j.conf = job[a].conf /\ at \notin WriteSteps
        BY <1>0 DEF Job, WriteSteps
    <2>2. \/ BreaksOff(a)
          \/ Goto(a, at) /\ job' = [job EXCEPT ![a].port = None]
        BY <1>7 DEF AssignPort, Fails
    <2>3. [job EXCEPT ![a].port = None] = [job EXCEPT ![a] = j]
        BY <1>0
    <2> HIDE DEF j, at
    <2> QED
        BY <1>4, <2>1, <2>2, <2>3, BreaksOffKeeps DEF Goto
<1>8. CASE SetMode(a)
    <2>1. [job[a] EXCEPT !.mode = "off"].op = job[a].op
          /\ [job[a] EXCEPT !.mode = "off"].conf = job[a].conf
        BY <1>0 DEF Job
    <2> QED
        BY <1>4, <1>8, <2>1 DEF SetMode, Learns, Goto, WriteSteps
<1> QED
    BY <1>5, <1>6, <1>7, <1>8

LEMMA ProxyKeeps ==
    ASSUME TypeInv, JobsOK, PortsUnique, blind \subseteq blind', NEW a \in Actors,
           ListTargets(a) \/ GetConf(a) \/ PutConf(a) \/ GetDep(a) \/ PutDep(a)
    PROVE  JobsKept
<1>0. /\ pc \in [Actors -> PC] /\ job \in [Actors -> Job] /\ job[a] \in Job
      /\ JobAt(pc[a], job[a], project, moved, blind)
    BY DEF TypeInv, ProcOK, JobsOK
<1>1. pc[a] \notin ConfigSteps \union WriteSteps
    BY DEF ListTargets, GetConf, PutConf, GetDep, PutDep, ConfigSteps, WriteSteps
<1>2. job[a].op # "deploy"
    BY <1>0, <1>1 DEF JobAt
<1>3. ASSUME NEW at, at \notin WriteSteps, pc' = [pc EXCEPT ![a] = at], job' = job
      PROVE  JobsKept
    BY <1>0, <1>2, <1>3, PlainJob, JobStays DEF JobAt
<1>4. CASE ListTargets(a)
    <2> DEFINE j == [job[a] EXCEPT !.conf = Rendered]
    <2>1. j.op = job[a].op /\ j.conf = Rendered
        BY <1>0 DEF Job
    <2>2. pc' = [pc EXCEPT ![a] = "getConf"] /\ job' = [job EXCEPT ![a] = j]
        BY <1>4 DEF ListTargets, Learns, Goto
    <2> HIDE DEF j
    <2>3. JobAt("getConf", j, project, moved, blind')
        BY <1>2, <2>1, RenderedOK, PlainJob DEF WriteSteps
    <2> QED
        BY <2>2, <2>3, JobMoves
<1>5. CASE GetConf(a) \/ GetDep(a)
    BY <1>3, <1>5 DEF GetConf, GetDep, Get, Goto, WriteSteps
<1>6. CASE PutConf(a)
    BY <1>3, <1>6, BreaksOffKeeps DEF PutConf, Goto, WriteSteps, Fails
<1>7. CASE PutDep(a)
    <2> DEFINE j == CASE op(a) = "put"       -> NoJob
                      [] op(a) = "portSweep" -> [job[a] EXCEPT !.op = "modeSweep", !.conf = {},
                                                               !.left = job[a].all]
                      [] OTHER               -> [job[a] EXCEPT !.conf = {}]
               at == CASE op(a) = "patch"      -> "allows"
                       [] op(a) = "put"        -> "idle"
                       [] op(a) = "proxySweep" -> "modes"
                       [] OTHER                -> "next"
    <2>1. j.conf = {} /\ j.op # "deploy" /\ at \notin WriteSteps
        BY <1>0, <1>2, NoJobType DEF Job, WriteSteps
    <2>2. \/ BreaksOff(a)
          \/ Goto(a, at) /\ job' = [job EXCEPT ![a] = j]
        <3>1. CASE ProxySynced(a)
            BY <1>0, <3>1 DEF ProxySynced
        <3> QED
            BY <1>7, <3>1 DEF PutDep, Fails
    <2> HIDE DEF j, at
    <2>3. JobAt(at, j, project, moved, blind')
        BY <2>1, PlainJob
    <2> QED
        BY <2>2, <2>3, BreaksOffKeeps, JobMoves DEF Goto
<1> QED
    BY <1>4, <1>5, <1>6, <1>7

LEMMA ReadKeeps ==
    ASSUME TypeInv, JobsOK, blind \subseteq blind', NEW a \in Actors,
           ReadAllows(a) \/ ReadConfig(a)
    PROVE  JobsKept
<1>0. /\ pc \in [Actors -> PC] /\ job \in [Actors -> Job] /\ job[a] \in Job
      /\ JobAt(pc[a], job[a], project, moved, blind) /\ pc[a] \in ConfigSteps
      /\ job[a].cfg \in Config
    BY DEF TypeInv, ProcOK, JobsOK, ReadAllows, ReadConfig, ConfigSteps, Job
<1>1. CASE ReadAllows(a)
    <2> DEFINE j == [job[a] EXCEPT !.cfg.allows = rules[prj(a)] \intersect Endpoints]
    <2>1. j.conf = job[a].conf /\ j.op = job[a].op /\ j.cfg.port = job[a].cfg.port
        BY <1>0 DEF Job, Config
    <2>2. pc' = [pc EXCEPT ![a] = "config"] /\ job' = [job EXCEPT ![a] = j]
        BY <1>1 DEF ReadAllows, Learns, Goto
    <2> HIDE DEF j
    <2>3. JobAt("config", j, project, moved, blind')
        BY <1>0, <2>1 DEF JobAt, ConfigSteps, WriteSteps
    <2> QED
        BY <2>2, <2>3, JobMoves
<1>2. CASE ReadConfig(a)
    <2> DEFINE c == ConfigOf(prj(a), job[a].cfg.allows)
               j == [job[a] EXCEPT !.cfg = c]
    <2>1. c.public = FALSE /\ c.port \in {None, project[prj(a)].port}
        BY DEF ConfigOf
    <2>2. \/ BreaksOff(a)
          \/ Goto(a, "getPolicy") /\ job' = [job EXCEPT ![a] = j]
        BY <1>0, <1>2 DEF ReadConfig, Learns, Fails
    <2> HIDE DEF c
    <2>3. j.conf = job[a].conf /\ j.op = job[a].op /\ j.cfg = c /\ j.prj = prj(a)
        BY <1>0 DEF Job, prj
    <2> HIDE DEF j
    <2>4. JobAt("getPolicy", j, project, moved, blind')
        BY <1>0, <2>1, <2>3 DEF JobAt, ConfigAt, ConfigSteps, WriteSteps
    <2> QED
        BY <2>2, <2>4, BreaksOffKeeps, JobMoves DEF Goto
<1> QED
    BY <1>1, <1>2

LEMMA WriteKeeps ==
    ASSUME TypeInv, JobsOK, blind \subseteq blind', NEW a \in Actors,
           GetPolicy(a) \/ PutPolicy(a) \/ GetApp(a) \/ PutApp(a)
    PROVE  JobsKept
<1>0. /\ pc \in [Actors -> PC] /\ job \in [Actors -> Job] /\ job[a] \in Job
      /\ JobAt(pc[a], job[a], project, moved, blind) /\ pc[a] \in WriteSteps
    BY DEF TypeInv, ProcOK, JobsOK, GetPolicy, PutPolicy, GetApp, PutApp, WriteSteps
\* From one write to the next the job is the same, and so is what it promises.
<1>1. ASSUME NEW at, at \in WriteSteps, pc' = [pc EXCEPT ![a] = at], job' = job
      PROVE  JobsKept
    <2>1. JobAt(at, job[a], project, moved, blind')
        BY <1>0, <1>1 DEF JobAt, ConfigAt, WriteSteps, ConfigSteps
    <2> QED
        BY <1>1, <2>1, JobStays
<1>2. CASE AccessSynced(a)
    <2>1. CASE op(a) = "modeSweep"
        <3> DEFINE j == [job[a] EXCEPT !.cfg = Shut, !.prj = None]
        <3>1. j.conf = job[a].conf /\ j.op = "modeSweep"
            BY <1>0, <2>1 DEF Job, op
        <3>2. pc' = [pc EXCEPT ![a] = "next"] /\ job' = [job EXCEPT ![a] = j]
            BY <1>0, <1>2, <2>1 DEF AccessSynced, Goto
        <3> HIDE DEF j
        <3>3. JobAt("next", j, project, moved, blind')
            BY <1>0, <3>1, PlainJob DEF JobAt, WriteSteps
        <3> QED
            BY <3>2, <3>3, JobMoves
    <2>2. CASE op(a) # "modeSweep"
        <3>1. pc' = [pc EXCEPT ![a] = "idle"] /\ job' = [job EXCEPT ![a] = NoJob]
            BY <1>0, <1>2, <2>2 DEF AccessSynced, Goto
        <3> QED
            BY <3>1, NoJobOK, JobMoves
    <2> QED
        BY <2>1, <2>2
<1>3. CASE GetPolicy(a)
    BY <1>1, <1>3 DEF GetPolicy, Get, Goto, WriteSteps
<1>4. CASE PutPolicy(a)
    <2>1. CASE op(a) = "put" /\ Goto(a, "port") /\ job' = job
        <3>1. JobAt("port", job[a], project, moved, blind')
            BY <1>0, <2>1, PlainJob DEF JobAt, WriteSteps, op
        <3> QED
            BY <2>1, <3>1, JobStays DEF Goto
    <2>2. CASE Goto(a, "getApp") /\ job' = job
        BY <1>1, <2>2 DEF Goto, WriteSteps
    <2> QED
        BY <1>4, <2>1, <2>2, BreaksOffKeeps DEF PutPolicy, Fails
<1>5. CASE GetApp(a)
    <2>1. AccessSynced(a) \/ (Goto(a, "putApp") /\ job' = job)
        BY <1>5 DEF GetApp, Get
    <2> QED
        BY <1>1, <1>2, <2>1 DEF Goto, WriteSteps
<1>6. CASE PutApp(a)
    BY <1>2, <1>6, BreaksOffKeeps DEF PutApp, Fails
<1> QED
    BY <1>3, <1>4, <1>5, <1>6

LEMMA SweepKeeps ==
    ASSUME TypeInv, JobsOK, blind \subseteq blind', NEW a \in Actors,
           ListModes(a) \/ NextProject(a)
    PROVE  JobsKept
<1>0. /\ pc \in [Actors -> PC] /\ job \in [Actors -> Job] /\ job[a] \in Job
      /\ JobAt(pc[a], job[a], project, moved, blind)
      /\ pc[a] \notin ConfigSteps \union WriteSteps
    BY DEF TypeInv, ProcOK, JobsOK, ListModes, NextProject, ConfigSteps, WriteSteps
<1>1. job[a].op # "deploy"
    BY <1>0 DEF JobAt
<1>2. ASSUME NEW at, at \notin WriteSteps, NEW j, j.op # "deploy", j.conf \in {{}, job[a].conf},
             pc' = [pc EXCEPT ![a] = at], job' = [job EXCEPT ![a] = j]
      PROVE  JobsKept
    BY <1>0, <1>2, PlainJob, JobMoves DEF JobAt
<1>3. CASE ListModes(a)
    <2> DEFINE S == {p \in Projects : live(p) /\ project[p].mode # "off"}
               j == [NoJob EXCEPT !.op = "portSweep", !.left = S, !.all = S]
    <2>1. j.conf = {} /\ j.op # "deploy"
        BY DEF NoJob
    <2> HIDE DEF j
    <2> QED
        BY <1>2, <1>3, <2>1 DEF ListModes, Learns, Goto, WriteSteps, j
<1>4. CASE NextProject(a)
    <2>1. CASE Learns(a, "list", [job[a] EXCEPT !.prj = None])
        <3>1. /\ [job[a] EXCEPT !.prj = None].op = job[a].op
              /\ [job[a] EXCEPT !.prj = None].conf = job[a].conf
            BY <1>0 DEF Job
        <3> QED
            BY <1>1, <1>2, <2>1, <3>1 DEF Learns, Goto, WriteSteps
    <2>2. CASE Ends(a)
        BY <1>2, <2>2, NoJobType DEF Ends, Goto, WriteSteps
    <2>3. ASSUME NEW p \in job[a].left,
                 Learns(a, IF op(a) = "portSweep" THEN "port" ELSE "allows",
                        [job[a] EXCEPT !.prj = p, !.left = job[a].left \ {p}])
          PROVE  JobsKept
        <3> DEFINE j  == [job[a] EXCEPT !.prj = p, !.left = job[a].left \ {p}]
                   at == IF op(a) = "portSweep" THEN "port" ELSE "allows"
        <3>1. j.op = job[a].op /\ j.conf = job[a].conf /\ at \notin WriteSteps
            BY <1>0 DEF Job, WriteSteps
        <3>2. pc' = [pc EXCEPT ![a] = at] /\ job' = [job EXCEPT ![a] = j]
            BY <2>3 DEF Learns, Goto
        <3> HIDE DEF j, at
        <3> QED
            BY <1>1, <1>2, <3>1, <3>2
    <2> QED
        BY <1>4, <2>1, <2>2, <2>3 DEF NextProject
<1> QED
    BY <1>3, <1>4

LEMMA JobsStep ==
    ASSUME TypeInv, JobsOK, PortsUnique, [Next]_vars
    PROVE  JobsOK'
<1>0. blind \subseteq blind' /\ TypeInv'
    BY BlindGrows, NextType
<1>1. JobsKept
    <2>1. CASE UNCHANGED vars \/ Rollout \/ ContainerRestarts
        BY <1>0, <2>1, JobsUntouched DEF vars, procVars, Rollout, ContainerRestarts
    <2>2. CASE Restart
        BY <2>2, NoJobOK DEF Restart, JobsKept
    <2>3. ASSUME NEW a \in Actors, CallFails(a) PROVE JobsKept
        BY <2>3, BreaksOffKeeps DEF CallFails, Fails
    <2>4. ASSUME NEW a \in Actors, Step(a) PROVE JobsKept
        BY <1>0, <2>3, <2>4, PortKeeps, ProxyKeeps, ReadKeeps, WriteKeeps, SweepKeeps DEF Step
    <2> QED
        BY <1>0, <2>1, <2>2, <2>4, BeginKeeps DEF Next
<1>2. ASSUME NEW b \in Actors PROVE JobAt(pc'[b], job'[b], project', moved', blind')
    <2>1. pc'[b] \in PC /\ job'[b] \in Job /\ HoldsAt(pc'[b], job'[b])
        BY <1>0 DEF TypeInv, ProcOK, HoldsAt
    <2> QED
        BY <1>1, <2>1, JobAges DEF JobsKept
<1> QED
    BY <1>2 DEF JobsOK, JobAt, OneOwnerEach, ListenersAt, ConfigAt

--------------------------------------------------------------------------------
(***************************************************************************)
(* What the cluster holds was rendered or read by some operation.          *)
(***************************************************************************)

FromJob(a, p) == a \in Actors /\ pc[a] \in WriteSteps /\ prj(a) = p

Writes ==
    /\ conf' # conf => \E a \in Actors : conf' = job[a].conf
    /\ proxy'.conf # proxy.conf => proxy'.conf = conf
    /\ \A p \in Projects :
         /\ env'[p] \notin {env[p], Absent}
                => \E a : FromJob(a, p) /\ env'[p] = job[a].cfg.port
         /\ policy'[p] \notin {policy[p], None}
                => \E a : FromJob(a, p) /\ policy'[p] = job[a].cfg

LEMMA ClusterKinds ==
    ASSUME TypeInv, [Next]_vars
    PROVE  Writes
<1> USE DEF proxyVars, clusterVars
<1>0. ClusterOK /\ ProcOK
    BY DEF TypeInv
<1>1. CASE UNCHANGED <<conf, proxy, env, policy>>
    BY <1>1 DEF Writes
<1>2. CASE Begin
    <2>1. ASSUME NEW q \in Projects, DeleteProject(q) PROVE Writes
        <3>1. /\ conf' = conf /\ proxy' = proxy
              /\ env' = [env EXCEPT ![q] = Absent] /\ policy' = [policy EXCEPT ![q] = None]
            BY <2>1 DEF DeleteProject
        <3>2. \A p \in Projects : env'[p] \in {env[p], Absent} /\ policy'[p] \in {policy[p], None}
            BY <1>0, <3>1 DEF ClusterOK
        <3> QED
            BY <3>1, <3>2 DEF Writes
    <2> QED
        BY <1>1, <1>2, <2>1 DEF Begin, PatchMode, PutRules, Deploy, FlipInDatabase
<1>3. ASSUME NEW a \in Actors, PutConf(a) PROVE Writes
    <2>1. (conf' = job[a].conf \/ conf' = conf) /\ UNCHANGED <<proxy, env, policy>>
        BY <1>3 DEF PutConf
    <2> QED
        BY <2>1 DEF Writes
<1>4. ASSUME NEW a \in Actors, PutPolicy(a) PROVE Writes
    <2>1. /\ UNCHANGED <<conf, proxy, env>> /\ FromJob(a, prj(a))
          /\ policy' = [policy EXCEPT ![prj(a)] = job[a].cfg] \/ policy' = policy
        BY <1>4 DEF PutPolicy, FromJob, WriteSteps
    <2>2. ASSUME NEW p \in Projects, policy'[p] \notin {policy[p], None}
          PROVE  FromJob(a, p) /\ policy'[p] = job[a].cfg
        BY <1>0, <2>1, <2>2 DEF ClusterOK
    <2> QED
        BY <2>1, <2>2 DEF Writes
<1>5. ASSUME NEW a \in Actors, PutApp(a) PROVE Writes
    <2>1. /\ UNCHANGED <<conf, proxy, policy>> /\ FromJob(a, prj(a))
          /\ env' = [env EXCEPT ![prj(a)] = job[a].cfg.port] \/ env' = env
        BY <1>5 DEF PutApp, FromJob, WriteSteps
    <2>2. ASSUME NEW p \in Projects, env'[p] \notin {env[p], Absent}
          PROVE  FromJob(a, p) /\ env'[p] = job[a].cfg.port
        BY <1>0, <2>1, <2>2 DEF ClusterOK
    <2> QED
        BY <2>1, <2>2 DEF Writes
<1>6. CASE Rollout \/ ContainerRestarts
    <2>1. UNCHANGED <<conf, env, policy>> /\ proxy'.conf = conf
        BY <1>0, <1>6 DEF Rollout, ContainerRestarts, ClusterOK
    <2> QED
        BY <2>1 DEF Writes
<1>7. ASSUME NEW a \in Actors,
             ReadPort(a) \/ PickPort(a) \/ AssignPort(a) \/ SetMode(a) \/ ListTargets(a)
             \/ GetConf(a) \/ GetDep(a) \/ PutDep(a) \/ ReadAllows(a) \/ ReadConfig(a)
      PROVE  UNCHANGED <<conf, proxy, env, policy>>
    BY <1>7 DEF ReadPort, PickPort, AssignPort, SetMode, ListTargets, GetConf, GetDep, PutDep,
           ReadAllows, ReadConfig
<1>8. ASSUME NEW a \in Actors,
             GetPolicy(a) \/ GetApp(a) \/ ListModes(a) \/ NextProject(a) \/ CallFails(a)
      PROVE  UNCHANGED <<conf, proxy, env, policy>>
    BY <1>8 DEF GetPolicy, GetApp, ListModes, NextProject, CallFails
<1>9. CASE Restart
    BY <1>1, <1>9 DEF Restart
<1>10. CASE UNCHANGED vars
    BY <1>1, <1>10 DEF vars
<1> QED
    BY <1>1, <1>2, <1>3, <1>4, <1>5, <1>6, <1>7, <1>8, <1>9, <1>10 DEF Next, Step

LEMMA ConfStep ==
    ASSUME TypeInv, JobsOK, ConfOK, [Next]_vars
    PROVE  ConfOK'
<1>0. ClusterOK /\ job \in [Actors -> Job]
    BY DEF TypeInv, ProcOK
<1>1. conf' \in SUBSET Listener /\ OneOwnerEach(conf') /\ ListenersAt(conf', project, moved)
    <2>1. CASE conf' = conf
        BY <1>0, <2>1 DEF ConfOK, ClusterOK
    <2>2. CASE conf' # conf
        <3>1. PICK a \in Actors : conf' = job[a].conf
            BY <2>2, ClusterKinds DEF Writes
        <3>2. job[a].conf \in SUBSET Listener
            BY <1>0 DEF Job
        <3> QED
            BY <3>1, <3>2 DEF JobsOK, JobAt
    <2> QED
        BY <2>1, <2>2
<1>2. /\ proxy'.conf \in SUBSET Listener /\ OneOwnerEach(proxy'.conf)
      /\ ListenersAt(proxy'.conf, project, moved)
    BY <1>0, ClusterKinds DEF Writes, ConfOK, ClusterOK
<1>3. ListenersAt(conf', project', moved') /\ ListenersAt(proxy'.conf, project', moved')
    BY <1>1, <1>2, ListenersAge
<1> QED
    BY <1>1, <1>2, <1>3 DEF ConfOK, OneOwnerEach, ListenersAt

\* What an actor is about to write for p.
LEMMA JobPromises ==
    ASSUME JobsOK, NEW a, NEW p, FromJob(a, p)
    PROVE  ConfigAt(p, job[a].cfg, project, moved, blind)
BY DEF JobsOK, JobAt, FromJob, prj

LEMMA EnvStep ==
    ASSUME TypeInv, JobsOK, EnvOK, [Next]_vars
    PROVE  EnvOK'
<1> SUFFICES ASSUME NEW p \in Projects, project'[p].live, p \notin moved'
             PROVE  env'[p] \in {None, Absent, project'[p].port}
    BY DEF EnvOK, live
<1>1. /\ project[p].live /\ p \notin moved
      /\ project'[p].port = project[p].port \/ project[p].port = None
    BY RowsAge
<1>2. env[p] \in {None, Absent, project[p].port}
    BY <1>1 DEF EnvOK, live
<1>3. CASE env'[p] \in {env[p], Absent}
    BY <1>1, <1>2, <1>3
<1>4. CASE env'[p] \notin {env[p], Absent}
    <2>1. PICK a : FromJob(a, p) /\ env'[p] = job[a].cfg.port
        BY <1>4, ClusterKinds DEF Writes
    <2> QED
        BY <1>1, <2>1, JobPromises DEF ConfigAt
<1> QED
    BY <1>3, <1>4

LEMMA PolicyStep ==
    ASSUME TypeInv, JobsOK, OpensOnlyBlind, [Next]_vars
    PROVE  OpensOnlyBlind'
<1> SUFFICES ASSUME NEW p \in Projects, policy'[p] # None, policy'[p].public
             PROVE  p \in blind'
    BY DEF OpensOnlyBlind
<1>1. CASE policy'[p] = policy[p]
    BY <1>1, BlindGrows DEF OpensOnlyBlind
<1>2. CASE policy'[p] # policy[p]
    <2>1. PICK a : FromJob(a, p) /\ policy'[p] = job[a].cfg
        BY <1>2, ClusterKinds DEF Writes
    <2> QED
        BY <2>1, JobPromises, BlindGrows DEF ConfigAt
<1> QED
    BY <1>1, <1>2

LEMMA InitSafe == Init => Safe
<1> SUFFICES ASSUME Init PROVE Safe
    OBVIOUS
<1>1. PortsUnique
    BY DEF Init, PortsUnique, Targets
<1>2. JobsOK
    BY NoJobOK DEF Init, JobsOK
<1>3. ConfOK
    BY DEF Init, ConfOK, OneOwnerEach, ListenersAt
<1>4. EnvOK
    BY DEF Init, EnvOK
<1>5. OpensOnlyBlind
    BY ShutType DEF Init, OpensOnlyBlind, Shut
<1> QED
    BY <1>1, <1>2, <1>3, <1>4, <1>5 DEF Safe

LEMMA SafeStep == TypeInv /\ Safe /\ [Next]_vars => Safe'
BY UniqueStep, JobsStep, ConfStep, EnvStep, PolicyStep DEF Safe

LEMMA SafeAlways == Spec => [](TypeInv /\ Safe)
<1>1. Init => TypeInv /\ Safe
    BY InitType, InitSafe
<1>2. TypeInv /\ Safe /\ [Next]_vars => (TypeInv /\ Safe)'
    BY NextType, SafeStep
<1> QED
    BY <1>1, <1>2, PTL DEF Spec

--------------------------------------------------------------------------------

\* Wherever a proxy configuration has got to, no two of its listeners share a port
\* or a project: what ListEgressProxyTargets returns is one row per project, and the
\* partial unique index keeps the ports of live rows apart.
THEOREM ListenersDisjointAlways == Spec => []ListenersDisjoint
<1>1. Safe => ListenersDisjoint
    BY DEF Safe, ConfOK, JobsOK, JobAt, ListenersDisjoint
<1> QED
    BY <1>1, SafeAlways, PTL

\* The pods of a live project never use the listener of another live one while
\* neither had its port replaced: what lags behind the rows names their ports.
THEOREM ListenerIsOwnAlways == Spec => []ListenerIsOwn
<1>1. TypeInv /\ Safe => ListenerIsOwn
    <2> SUFFICES ASSUME TypeInv, Safe,
                        NEW p \in Projects \ moved, NEW q \in Projects \ moved,
                        p # q, live(p), live(q),
                        NEW l \in proxy.conf, l.slug = q, l.port = env[p]
                 PROVE  FALSE
        BY DEF ListenerIsOwn
    <2>1. l.port \in Ports /\ l.port = project[q].port
        BY DEF TypeInv, ClusterOK, Listener, Safe, ConfOK, ListenersAt, live
    <2>2. env[p] = project[p].port
        BY <2>1, ActorsApart DEF Safe, EnvOK
    <2>3. p \in Targets /\ q \in Targets
        BY <2>1, <2>2, ActorsApart DEF Targets
    <2> QED
        BY <2>1, <2>2, <2>3 DEF Safe, PortsUnique
<1> QED
    BY <1>1, SafeAlways, PTL

\* The public Internet opens only behind a deployment that failed to read its
\* configuration: what every other operation carries is closed.
THEOREM OpensOnlyBlindAlways == Spec => []OpensOnlyBlind
<1>1. Safe => OpensOnlyBlind
    BY DEF Safe
<1> QED
    BY <1>1, SafeAlways, PTL

--------------------------------------------------------------------------------
(***************************************************************************)
(* SoloConverges.  While an operation is alone, what it has in hand is     *)
(* what the rows say, and what it has written is what they ask for.        *)
(***************************************************************************)

SyncSteps == ConfigSteps \union WriteSteps

Want(p) == ConfigOf(p, rules[p] \intersect Endpoints)

\* Which operation may be at which step.
Route(a) ==
    /\ pc[a] \in PortSteps => op(a) \in {"patch", "put", "portSweep"}
    /\ pc[a] = "mode" => op(a) = "patch"
    /\ pc[a] \in ProxySteps => op(a) \in {"patch", "put", "proxySweep", "portSweep"}
    /\ pc[a] \in SyncSteps => op(a) \in {"patch", "put", "deploy", "modeSweep"}
    /\ pc[a] \in {"getApp", "putApp"} => op(a) # "put"
    /\ pc[a] = "modes" => op(a) = "proxySweep"
    /\ pc[a] = "next" => op(a) \in {"portSweep", "modeSweep"}

ProxyPart(a) ==
    /\ pc[a] \in ProxySteps \ {"list"} => job[a].conf = Rendered
    /\ pc[a] \in {"getDep", "putDep"} => conf = Rendered
    /\ pc[a] \in SyncSteps /\ op(a) = "patch" => ProxySettled
    /\ op(a) = "modeSweep" => ProxySettled

AccessPart(a) ==
    /\ pc[a] = "config" => job[a].cfg.allows = rules[prj(a)] \intersect Endpoints
    /\ pc[a] \in WriteSteps => job[a].cfg = Want(prj(a))
    /\ pc[a] \in {"getApp", "putApp"} => policy[prj(a)] = Want(prj(a))

\* What the list of the sweep names is what is to be served, and what the last
\* loop has dealt with is.
SweepPart(a) ==
    /\ op(a) \in {"portSweep", "modeSweep"} => job[a].all = Serves(a)
    /\ op(a) = "modeSweep" =>
          \A p \in job[a].all \ job[a].left :
              (p = prj(a) /\ pc[a] # "next") \/ AccessSettled(p)

PutPart(a) ==
    op(a) = "put" /\ pc[a] \in PortSteps \union ProxySteps =>
        ~policy[prj(a)].public /\ policy[prj(a)].allows = rules[prj(a)] \intersect Endpoints

SoloWork(a) == Route(a) /\ ProxyPart(a) /\ AccessPart(a) /\ SweepPart(a) /\ PutPart(a)

Solo(a) ==
    /\ \A b \in Actors \ {a} : pc[b] = "idle"
    /\ pc[a] # "idle" => SoloWork(a)

SoloInv == \A a \in Actors : alone = a => Solo(a)

\* A step of a spoils nothing that it does not say.
LEMMA SoloMoves ==
    ASSUME TypeInv, SoloInv, NEW a \in Actors, pc[a] # "idle",
           NEW at, pc' = [pc EXCEPT ![a] = at],
           alone' = alone \/ alone' = None,
           alone = a /\ alone' = a /\ SoloWork(a) => pc'[a] = "idle" \/ SoloWork(a)'
    PROVE  SoloInv'
<1>1. ASSUME NEW b \in Actors, alone' = b PROVE alone = b /\ b = a
    BY <1>1, ActorsApart DEF SoloInv, Solo
<1>2. \A b \in Actors \ {a} : pc'[b] = pc[b]
    BY DEF TypeInv, ProcOK
<1> QED
    BY <1>1, <1>2 DEF SoloInv, Solo

LEMMA SameRows ==
    ASSUME UNCHANGED rowVars
    PROVE  /\ Rendered' = Rendered
           /\ \A p : Want(p)' = Want(p) /\ (live(p)' <=> live(p))
BY DEF rowVars, Rendered, Render, Targets, Want, ConfigOf, live

\* What the parts above read of the rows and the cluster.
World == <<project, rules, conf, stamp, policy, env>>

LEMMA SameWorld ==
    ASSUME UNCHANGED World
    PROVE  /\ Rendered' = Rendered /\ (ProxySettled' <=> ProxySettled)
           /\ \A p : Want(p)' = Want(p) /\ (AccessSettled(p)' <=> AccessSettled(p))
           /\ \A a : op(a)' = op(a) /\ prj(a)' = prj(a) => Serves(a)' = Serves(a)
BY DEF World, Rendered, Render, Targets, Want, ConfigOf, live, ProxySettled, AccessSettled, Serves

LEMMA FailsNotAlone ==
    ASSUME NEW a \in Actors, BreaksOff(a)
    PROVE  /\ pc' = [pc EXCEPT ![a] = OnError(a)]
           /\ alone' = alone \/ alone' = None
           /\ ~(alone = a /\ alone' = a)
BY ActorsApart DEF BreaksOff, Goto

LEMMA SoloBegin ==
    ASSUME TypeInv, SoloInv, Begin
    PROVE  SoloInv'
<1>0. pc \in [Actors -> PC] /\ job \in [Actors -> Job]
    BY DEF TypeInv, ProcOK
<1>1. ASSUME alone' = None PROVE SoloInv'
    BY <1>1, ActorsApart DEF SoloInv
<1>2. ASSUME NEW a \in Actors, NEW at, NEW j, Begins(a, at, j),
             \/ j.op = "patch" /\ at \in {"mode", "port"}
             \/ j.op \in {"put", "deploy"} /\ at = "allows"
      PROVE  SoloInv'
    <2>1. /\ pc' = [pc EXCEPT ![a] = at] /\ job'[a] = j
          /\ pc'[a] = at
          /\ alone' \in {a, None} /\ (alone' = a => \A b \in Actors \ {a} : pc[b] = "idle")
        BY <1>0, <1>2, ActorsApart DEF Begins, Goto
    <2>2. SoloWork(a)'
        BY <1>2, <2>1 DEF SoloWork, Route, ProxyPart, AccessPart, SweepPart, PutPart, op, prj,
            PortSteps, ProxySteps, SyncSteps, ConfigSteps, WriteSteps
    <2> QED
        BY <1>0, <2>1, <2>2, ActorsApart DEF SoloInv, Solo
<1>3. ASSUME NEW r \in Requests, NEW p \in Projects, NEW m \in Mode, PatchMode(r, p, m)
      PROVE  SoloInv'
    BY <1>2, <1>3, ActorsApart DEF PatchMode, NoJob
<1>4. ASSUME NEW r \in Requests, NEW p \in Projects, NEW S \in SUBSET Rules, PutRules(r, p, S)
      PROVE  SoloInv'
    BY <1>2, <1>4, ActorsApart DEF PutRules, NoJob
<1>5. ASSUME NEW p \in Projects, Deploy(p) PROVE SoloInv'
    BY <1>2, <1>5, ActorsApart DEF Deploy, NoJob
<1>6. ASSUME NEW p \in Projects, DeleteProject(p) PROVE SoloInv'
    BY <1>1, <1>6 DEF DeleteProject
<1>7. ASSUME NEW p \in Projects, NEW m \in Mode, FlipInDatabase(p, m) PROVE SoloInv'
    BY <1>1, <1>7 DEF FlipInDatabase
<1> QED
    BY <1>3, <1>4, <1>5, <1>6, <1>7 DEF Begin

LEMMA SoloPort ==
    ASSUME TypeInv, SoloInv, NEW a \in Actors, ReadPort(a) \/ PickPort(a) \/ AssignPort(a)
    PROVE  SoloInv'
<1>0. /\ pc \in [Actors -> PC] /\ job \in [Actors -> Job] /\ job[a] \in Job
      /\ pc[a] \in PortSteps /\ pc[a] # "idle" /\ project \in [Projects -> Row]
    BY DEF TypeInv, ProcOK, RowsOK, ReadPort, PickPort, AssignPort, PortSteps
<1> DEFINE next == CASE op(a) = "patch" -> "mode"
                     [] op(a) = "put"   -> "list"
                     [] OTHER           -> "next"
<1>1. CASE BreaksOff(a)
    BY <1>0, <1>1, FailsNotAlone, SoloMoves
<1>2. ASSUME UNCHANGED World, NEW at \in {"alloc", "assign", next},
             pc' = [pc EXCEPT ![a] = at], alone' = alone,
             op(a)' = op(a), prj(a)' = prj(a),
             job'[a].all = job[a].all, job'[a].left = job[a].left
      PROVE  SoloInv'
    <2>1. ASSUME SoloWork(a) PROVE SoloWork(a)'
        <3>1. pc'[a] = at
            BY <1>0, <1>2
        <3>2. op(a) \in {"patch", "put", "portSweep"}
            BY <1>0, <2>1 DEF SoloWork, Route
        <3>3. Route(a)'
            BY <1>2, <3>1, <3>2 DEF Route, PortSteps, ProxySteps, SyncSteps, ConfigSteps, WriteSteps
        <3>4. ProxyPart(a)' /\ AccessPart(a)'
            BY <1>2, <3>1, <3>2 DEF ProxyPart, AccessPart, PortSteps, ProxySteps, SyncSteps, ConfigSteps, WriteSteps
        <3>5. SweepPart(a)'
            BY <1>2, <2>1, <3>2, SameWorld DEF SoloWork, SweepPart
        <3>6. PutPart(a)'
            BY <1>0, <1>2, <2>1 DEF SoloWork, PutPart, World
        <3> QED
            BY <3>3, <3>4, <3>5, <3>6 DEF SoloWork
    <2> QED
        BY <1>0, <1>2, <2>1, SoloMoves
<1>3. CASE ReadPort(a) /\ ~BreaksOff(a)
    <2>1. (HavePort(a) \/ Steps(a, "alloc")) /\ UNCHANGED World
        BY <1>3 DEF ReadPort, Fails, World, rowVars, proxyVars, clusterVars
    <2>2. UNCHANGED <<job, alone>> /\ \E at \in {"alloc", "assign", next} : pc' = [pc EXCEPT ![a] = at]
        BY <2>1 DEF HavePort, Steps, Goto, history
    <2> QED
        BY <1>2, <2>1, <2>2 DEF op, prj
<1>4. CASE PickPort(a)
    <2>1. /\ UNCHANGED World /\ pc' = [pc EXCEPT ![a] = "assign"] /\ alone' = alone
          /\ job' = [job EXCEPT ![a] = [job[a] EXCEPT !.port = LowestFree]]
        BY <1>4 DEF PickPort, Learns, Goto, World, rowVars, proxyVars, clusterVars, history
    <2>2. /\ job'[a].op = job[a].op /\ job'[a].prj = job[a].prj
          /\ job'[a].all = job[a].all /\ job'[a].left = job[a].left
        BY <1>0, <2>1 DEF Job
    <2> QED
        BY <1>2, <2>1, <2>2 DEF op, prj
<1>5. CASE AssignPort(a) /\ ~BreaksOff(a)
    <2> DEFINE p == prj(a)
    <2>1. /\ project' = [project EXCEPT ![p].port = job[a].port]
          /\ Goto(a, next) /\ job' = [job EXCEPT ![a].port = None]
          /\ alone' = alone /\ UNCHANGED <<rules, conf, stamp, policy, env>>
        BY <1>5 DEF AssignPort, Fails, proxyVars, clusterVars
    <2>2. /\ pc' = [pc EXCEPT ![a] = next] /\ pc'[a] = next
          /\ op(a)' = op(a) /\ prj(a)' = prj(a)
          /\ job'[a].all = job[a].all /\ job'[a].left = job[a].left
        BY <1>0, <2>1 DEF Goto, op, prj, Job
    <2>3. \A q \in Projects : project'[q].live = project[q].live /\ project'[q].mode = project[q].mode
        BY <1>0, <2>1 DEF Row
    <2>4. ASSUME SoloWork(a) PROVE SoloWork(a)'
        <3>1. op(a) \in {"patch", "put", "portSweep"}
            BY <1>0, <2>4 DEF SoloWork, Route
        <3>2. Route(a)'
            BY <2>2, <3>1 DEF Route, PortSteps, ProxySteps, SyncSteps, ConfigSteps, WriteSteps
        <3>3. ProxyPart(a)' /\ AccessPart(a)'
            BY <2>2, <3>1 DEF ProxyPart, AccessPart, ProxySteps, SyncSteps, ConfigSteps, WriteSteps
        <3>4. SweepPart(a)'
            <4>1. op(a) = "portSweep" => Serves(a)' = Serves(a)
                BY <2>2, <2>3 DEF Serves, live
            <4> QED
                BY <2>2, <2>4, <3>1, <4>1 DEF SoloWork, SweepPart
        <3>5. PutPart(a)'
            BY <1>0, <2>1, <2>2, <2>4 DEF SoloWork, PutPart
        <3> QED
            BY <3>2, <3>3, <3>4, <3>5 DEF SoloWork
    <2> QED
        BY <1>0, <2>1, <2>2, <2>4, SoloMoves
<1> QED
    BY <1>1, <1>3, <1>4, <1>5

LEMMA SoloProxy ==
    ASSUME TypeInv, SoloInv, NEW a \in Actors,
           SetMode(a) \/ ListTargets(a) \/ GetConf(a) \/ PutConf(a) \/ GetDep(a) \/ PutDep(a)
    PROVE  SoloInv'
<1>0. /\ pc \in [Actors -> PC] /\ job \in [Actors -> Job] /\ job[a] \in Job
      /\ pc[a] \in ProxySteps \union {"mode"} /\ pc[a] # "idle"
    BY DEF TypeInv, ProcOK, ProxySteps, SetMode, ListTargets, GetConf, PutConf, GetDep, PutDep
<1>a. SoloWork(a) => /\ op(a) \in {"patch", "put", "proxySweep", "portSweep"}
                     /\ pc[a] = "mode" => op(a) = "patch"
    BY <1>0 DEF SoloWork, Route
<1>1. CASE BreaksOff(a)
    BY <1>0, <1>1, FailsNotAlone, SoloMoves
<1>2. ASSUME NEW at \in {"list", "getConf", "putConf", "getDep", "putDep"},
             pc' = [pc EXCEPT ![a] = at], alone' = alone,
             op(a)' = op(a), prj(a)' = prj(a),
             job'[a].all = job[a].all, UNCHANGED <<rules, policy>>,
             op(a) # "patch" => UNCHANGED project,
             at # "list" => job'[a].conf = Rendered',
             at \in {"getDep", "putDep"} /\ SoloWork(a) => conf' = Rendered'
      PROVE  SoloInv'
    <2>1. ASSUME SoloWork(a) PROVE SoloWork(a)'
        <3>1. pc'[a] = at
            BY <1>0, <1>2
        <3>3. Route(a)'
            BY <1>2, <1>a, <2>1, <3>1 DEF Route, PortSteps, ProxySteps, SyncSteps, ConfigSteps, WriteSteps
        <3>4. ProxyPart(a)' /\ AccessPart(a)'
            BY <1>2, <1>a, <2>1, <3>1 DEF ProxyPart, AccessPart, PortSteps, ProxySteps, SyncSteps,
                                         ConfigSteps, WriteSteps
        <3>5. SweepPart(a)'
            BY <1>2, <1>a, <2>1 DEF SoloWork, SweepPart, Serves, live
        <3>6. PutPart(a)'
            BY <1>0, <1>2, <1>a, <2>1 DEF SoloWork, PutPart
        <3> QED
            BY <3>3, <3>4, <3>5, <3>6 DEF SoloWork
    <2> QED
        BY <1>0, <1>2, <2>1, SoloMoves
<1>3. CASE SetMode(a)
    <2>1. /\ pc' = [pc EXCEPT ![a] = "list"] /\ alone' = alone
          /\ job' = [job EXCEPT ![a] = [job[a] EXCEPT !.mode = "off"]]
          /\ UNCHANGED <<rules, policy>> /\ pc[a] = "mode"
        BY <1>3 DEF SetMode, Learns, Goto, clusterVars, history
    <2>2. /\ job'[a].op = job[a].op /\ job'[a].prj = job[a].prj /\ job'[a].all = job[a].all
        BY <1>0, <2>1 DEF Job
    <2>3. ASSUME op(a) = "patch" PROVE SoloInv'
        BY <1>2, <2>1, <2>2, <2>3 DEF op, prj
    <2>4. ASSUME op(a) # "patch" PROVE SoloInv'
        BY <1>0, <1>a, <2>1, <2>4, SoloMoves
    <2> QED
        BY <2>3, <2>4
<1>4. CASE ListTargets(a)
    <2>1. /\ pc' = [pc EXCEPT ![a] = "getConf"] /\ alone' = alone
          /\ job' = [job EXCEPT ![a] = [job[a] EXCEPT !.conf = Rendered]]
          /\ UNCHANGED <<rowVars, rules, policy, project>>
        BY <1>4 DEF ListTargets, Learns, Goto, clusterVars, rowVars, history
    <2>2. /\ job'[a].op = job[a].op /\ job'[a].prj = job[a].prj /\ job'[a].all = job[a].all
          /\ job'[a].conf = Rendered
        BY <1>0, <2>1 DEF Job
    <2> QED
        BY <1>2, <2>1, <2>2, SameRows DEF op, prj
<1>5. CASE GetConf(a) \/ GetDep(a)
    <2>1. /\ UNCHANGED <<rowVars, rules, policy, project, job, conf>> /\ alone' = alone
          /\ \/ pc[a] = "getConf" /\ pc' = [pc EXCEPT ![a] = "putConf"]
             \/ pc[a] = "getDep" /\ pc' = [pc EXCEPT ![a] = "putDep"]
        BY <1>5 DEF GetConf, GetDep, Get, Goto, clusterVars, proxyVars, rowVars, history
    <2>2. ASSUME ~SoloWork(a) PROVE SoloInv'
        BY <1>0, <2>1, <2>2, SoloMoves
    <2>3. ASSUME SoloWork(a) PROVE SoloInv'
        <3>1. job'[a].conf = Rendered' /\ (pc[a] = "getDep" => conf' = Rendered')
            BY <2>1, <2>3, SameRows DEF SoloWork, ProxyPart, ProxySteps
        <3> QED
            BY <1>2, <2>1, <3>1 DEF op, prj
    <2> QED
        BY <2>2, <2>3
<1>6. CASE PutConf(a) /\ ~BreaksOff(a)
    <2>1. /\ pc' = [pc EXCEPT ![a] = "getDep"] /\ alone' = alone /\ conf' = job[a].conf
          /\ UNCHANGED <<rowVars, rules, policy, project, job>> /\ pc[a] = "putConf"
        BY <1>6 DEF PutConf, Fails, Goto, clusterVars, rowVars, history
    <2>2. ASSUME ~SoloWork(a) PROVE SoloInv'
        BY <1>0, <2>1, <2>2, SoloMoves
    <2>3. ASSUME SoloWork(a) PROVE SoloInv'
        <3>1. job[a].conf = Rendered' /\ conf' = Rendered'
            BY <2>1, <2>3, SameRows DEF SoloWork, ProxyPart, ProxySteps
        <3> QED
            BY <1>2, <2>1, <3>1 DEF op, prj
    <2> QED
        BY <2>2, <2>3
<1>7. CASE PutDep(a) /\ ~BreaksOff(a)
    <2> DEFINE at == CASE op(a) = "patch"      -> "allows"
                       [] op(a) = "put"        -> "idle"
                       [] op(a) = "proxySweep" -> "modes"
                       [] OTHER                -> "next"
               j == CASE op(a) = "put"       -> NoJob
                      [] op(a) = "portSweep" -> [job[a] EXCEPT !.op = "modeSweep", !.conf = {},
                                                              !.left = job[a].all]
                      [] OTHER               -> [job[a] EXCEPT !.conf = {}]
    <2>1. /\ pc' = [pc EXCEPT ![a] = at] /\ job' = [job EXCEPT ![a] = j] /\ alone' = alone
          /\ stamp' = job[a].conf /\ pc[a] = "putDep"
          /\ UNCHANGED <<rowVars, rules, policy, project, conf>>
        BY <1>0, <1>7 DEF PutDep, Fails, ProxySynced, Goto, clusterVars, rowVars, history
    <2>2. ASSUME SoloWork(a) PROVE pc'[a] = "idle" \/ SoloWork(a)'
        <3>1. ProxySettled'
            BY <2>1, <2>2, SameRows DEF SoloWork, ProxyPart, ProxySettled, ProxySteps
        <3>2. CASE op(a) = "put"
            BY <1>0, <2>1, <3>2
        <3>3. CASE op(a) = "patch" \/ op(a) = "proxySweep"
            <4>1. pc'[a] = IF op(a) = "patch" THEN "allows" ELSE "modes"
                BY <1>0, <2>1, <3>3
            <4>2. op(a)' = op(a)
                BY <1>0, <2>1, <3>3 DEF op, Job
            <4> QED
                BY <3>1, <3>3, <4>1, <4>2 DEF SoloWork, Route, ProxyPart, AccessPart, SweepPart,
                    PutPart, PortSteps, ProxySteps, SyncSteps, ConfigSteps, WriteSteps
        <3>4. CASE op(a) = "portSweep"
            <4>1. pc'[a] = "next" /\ job'[a] = [job[a] EXCEPT !.op = "modeSweep", !.conf = {},
                                                              !.left = job[a].all]
                BY <1>0, <2>1, <3>4
            <4>2. /\ op(a)' = "modeSweep" /\ job'[a].all = job[a].all
                  /\ job'[a].left = job[a].all
                BY <1>0, <4>1 DEF op, Job
            <4>3. job[a].all = Serves(a) /\ Serves(a)' = Serves(a)
                BY <2>1, <2>2, <3>4, <4>2 DEF SoloWork, SweepPart, Serves, live
            <4> QED
                BY <3>1, <4>1, <4>2, <4>3 DEF SoloWork, Route, ProxyPart, AccessPart, SweepPart,
                    PutPart, PortSteps, ProxySteps, SyncSteps, ConfigSteps, WriteSteps
        <3> QED
            BY <1>a, <2>2, <3>2, <3>3, <3>4
    <2> HIDE DEF at, j
    <2> QED
        BY <1>0, <2>1, <2>2, SoloMoves
<1> QED
    BY <1>1, <1>3, <1>4, <1>5, <1>6, <1>7

LEMMA SoloAccess ==
    ASSUME TypeInv, SoloInv, NEW a \in Actors,
           ReadAllows(a) \/ ReadConfig(a) \/ GetPolicy(a) \/ PutPolicy(a) \/ GetApp(a) \/ PutApp(a)
    PROVE  SoloInv'
<1>0. /\ pc \in [Actors -> PC] /\ job \in [Actors -> Job] /\ job[a] \in Job
      /\ pc[a] \in SyncSteps /\ pc[a] # "idle" /\ prj(a) \in Projects
      /\ policy \in [Projects -> Config \union {None}] /\ env \in [Projects -> Ports \union {None, Absent}]
    BY DEF TypeInv, ProcOK, ClusterOK, HoldsAt, ProjectSteps, prj, SyncSteps, ConfigSteps, WriteSteps,
           ReadAllows, ReadConfig, GetPolicy, PutPolicy, GetApp, PutApp
<1>a. SoloWork(a) => /\ op(a) \in {"patch", "put", "deploy", "modeSweep"}
                     /\ pc[a] \in {"getApp", "putApp"} => op(a) # "put"
    BY <1>0 DEF SoloWork, Route
<1>1. CASE BreaksOff(a)
    BY <1>0, <1>1, FailsNotAlone, SoloMoves
\* A step that goes on to a synchronisation step.
<1>2. ASSUME UNCHANGED <<rowVars, conf, stamp, env>>, NEW at \in SyncSteps,
             pc' = [pc EXCEPT ![a] = at], alone' = alone,
             op(a)' = op(a), prj(a)' = prj(a),
             job'[a].all = job[a].all, job'[a].left = job[a].left,
             \A p \in Projects : p # prj(a) => policy'[p] = policy[p],
             at \in {"getApp", "putApp"} /\ SoloWork(a) => op(a) # "put",
             SoloWork(a) => AccessPart(a)'
      PROVE  SoloInv'
    <2>1. ASSUME SoloWork(a) PROVE SoloWork(a)'
        <3>1. pc'[a] = at
            BY <1>0, <1>2
        <3>2. Route(a)'
            BY <1>2, <1>a, <2>1, <3>1 DEF Route, PortSteps, ProxySteps, SyncSteps, ConfigSteps, WriteSteps
        <3>3. ProxyPart(a)'
            BY <1>0, <1>2, <1>a, <2>1, <3>1, SameRows DEF SoloWork, ProxyPart, ProxySettled,
                PortSteps, ProxySteps, SyncSteps, ConfigSteps, WriteSteps
        <3>4. SweepPart(a)'
            <4>1. op(a) = "modeSweep" => Serves(a)' = Serves(a) /\ Serves(a) \subseteq Projects
                BY <1>2 DEF Serves, live, rowVars
            <4>2. \A p \in Projects : p # prj(a) => (AccessSettled(p) => AccessSettled(p)')
                BY <1>2 DEF AccessSettled, ConfigOf, rowVars
            <4> QED
                BY <1>2, <1>a, <2>1, <3>1, <4>1, <4>2
                DEF SoloWork, SweepPart, SyncSteps, ConfigSteps, WriteSteps
        <3>5. PutPart(a)'
            BY <1>2, <3>1 DEF PutPart, PortSteps, ProxySteps, SyncSteps, ConfigSteps, WriteSteps
        <3> QED
            BY <1>2, <2>1, <3>2, <3>3, <3>4, <3>5 DEF SoloWork
    <2> QED
        BY <1>0, <1>2, <2>1, SoloMoves
<1>3. CASE ReadAllows(a)
    <2>1. /\ pc' = [pc EXCEPT ![a] = "config"] /\ alone' = alone /\ pc[a] = "allows"
          /\ job' = [job EXCEPT ![a] = [job[a] EXCEPT !.cfg.allows = rules[prj(a)] \intersect Endpoints]]
          /\ UNCHANGED <<rowVars, rules, conf, stamp, env, policy>>
        BY <1>3 DEF ReadAllows, Learns, Goto, clusterVars, proxyVars, rowVars, history
    <2>2. /\ op(a)' = op(a) /\ prj(a)' = prj(a)
          /\ job'[a].all = job[a].all /\ job'[a].left = job[a].left
          /\ job'[a].cfg.allows = rules[prj(a)] \intersect Endpoints
        BY <1>0, <2>1 DEF op, prj, Job, Config
    <2>3. AccessPart(a)'
        BY <1>0, <2>1, <2>2 DEF AccessPart, WriteSteps
    <2> QED
        BY <1>2, <2>1, <2>2, <2>3 DEF SyncSteps, ConfigSteps
<1>4. CASE ReadConfig(a) /\ ~BreaksOff(a)
    <2>1. /\ pc' = [pc EXCEPT ![a] = "getPolicy"] /\ alone' = alone /\ pc[a] = "config"
          /\ job' = [job EXCEPT ![a] = [job[a] EXCEPT !.cfg = ConfigOf(prj(a), job[a].cfg.allows)]]
          /\ UNCHANGED <<rowVars, rules, conf, stamp, env, policy>>
        BY <1>0, <1>4 DEF ReadConfig, Learns, Goto, Fails, clusterVars, proxyVars, rowVars, history, Job
    <2>2. /\ op(a)' = op(a) /\ prj(a)' = prj(a)
          /\ job'[a].all = job[a].all /\ job'[a].left = job[a].left
          /\ job'[a].cfg = ConfigOf(prj(a), job[a].cfg.allows)
        BY <1>0, <2>1 DEF op, prj, Job
    <2>3. SoloWork(a) => AccessPart(a)'
        <3>1. SoloWork(a) => job'[a].cfg = Want(prj(a))
            BY <2>1, <2>2 DEF SoloWork, AccessPart, Want
        <3> QED
            BY <1>0, <2>1, <2>2, <3>1, SameRows DEF AccessPart, WriteSteps
    <2> QED
        BY <1>2, <2>1, <2>2, <2>3 DEF SyncSteps, WriteSteps
<1>5. CASE GetPolicy(a)
    <2>1. /\ pc' = [pc EXCEPT ![a] = "putPolicy"] /\ alone' = alone /\ pc[a] = "getPolicy"
          /\ UNCHANGED <<rowVars, rules, conf, stamp, env, policy, job>>
        BY <1>5 DEF GetPolicy, Get, Goto, proxyVars, rowVars, history
    <2>2. SoloWork(a) => AccessPart(a)'
        BY <1>0, <2>1, SameRows DEF SoloWork, AccessPart, WriteSteps, op, prj
    <2> QED
        BY <1>2, <2>1, <2>2 DEF SyncSteps, WriteSteps, op, prj
<1>6. CASE PutPolicy(a) /\ ~BreaksOff(a)
    <2>1. /\ pc' = [pc EXCEPT ![a] = IF op(a) = "put" THEN "port" ELSE "getApp"]
          /\ alone' = alone /\ pc[a] = "putPolicy"
          /\ policy' = [policy EXCEPT ![prj(a)] = job[a].cfg]
          /\ UNCHANGED <<rowVars, rules, conf, stamp, env, job>>
        BY <1>6 DEF PutPolicy, Fails, Goto, proxyVars, rowVars, history
    <2>2. SoloWork(a) => policy'[prj(a)] = Want(prj(a)) /\ job[a].cfg = Want(prj(a))
        BY <1>0, <2>1 DEF SoloWork, AccessPart, WriteSteps
    <2>3. CASE op(a) = "put"
        <3>1. pc'[a] = "port" /\ pc' = [pc EXCEPT ![a] = "port"]
            BY <1>0, <2>1, <2>3
        <3>2. SoloWork(a) => PutPart(a)'
            BY <2>1, <2>2 DEF PutPart, Want, ConfigOf, op, prj
        <3>3. SoloWork(a) => SoloWork(a)'
            BY <2>1, <2>3, <3>1, <3>2 DEF SoloWork, Route, ProxyPart, AccessPart, SweepPart, op, prj,
                PortSteps, ProxySteps, SyncSteps, ConfigSteps, WriteSteps
        <3> QED
            BY <1>0, <2>1, <3>1, <3>3, SoloMoves
    <2>4. CASE op(a) # "put"
        <3>1. pc'[a] = "getApp" /\ pc' = [pc EXCEPT ![a] = "getApp"]
            BY <1>0, <2>1, <2>4
        <3>2. SoloWork(a) => AccessPart(a)'
            BY <2>1, <2>2, <3>1, SameRows DEF AccessPart, WriteSteps, op, prj
        <3>3. \A p \in Projects : p # prj(a) => policy'[p] = policy[p]
            BY <1>0, <2>1
        <3> QED
            BY <1>2, <2>1, <2>4, <3>1, <3>2, <3>3 DEF SyncSteps, WriteSteps, op, prj
    <2> QED
        BY <2>3, <2>4
<1>7. ASSUME AccessSynced(a), alone' = alone, UNCHANGED <<rowVars, conf, stamp, policy>>,
             pc[a] \in {"getApp", "putApp"},
             \A p \in Projects : p # prj(a) => env'[p] = env[p],
             SoloWork(a) => \A p \in {prj(a)} : AccessSettled(p)'
      PROVE  SoloInv'
    <2> DEFINE at == IF op(a) = "modeSweep" THEN "next" ELSE "idle"
    <2>1. pc' = [pc EXCEPT ![a] = at] /\ pc'[a] = at
        BY <1>0, <1>7 DEF AccessSynced, Goto
    <2>2. ASSUME SoloWork(a), op(a) = "modeSweep" PROVE SoloWork(a)'
        <3>1. job' = [job EXCEPT ![a] = [job[a] EXCEPT !.cfg = Shut, !.prj = None]]
            BY <1>0, <1>7, <2>2 DEF AccessSynced
        <3>2. /\ op(a)' = op(a) /\ job'[a].all = job[a].all /\ job'[a].left = job[a].left
            BY <1>0, <3>1 DEF op, Job
        <3>3. Serves(a)' = Serves(a) /\ Serves(a) \subseteq Projects
            BY <1>7, <2>2, <3>2 DEF Serves, live, rowVars
        <3>4. \A p \in Projects : p # prj(a) => (AccessSettled(p) => AccessSettled(p)')
            BY <1>7 DEF AccessSettled, ConfigOf, rowVars
        <3>5. SweepPart(a)'
            BY <1>7, <2>2, <3>2, <3>3, <3>4 DEF SoloWork, SweepPart
        <3>6. ProxyPart(a)'
            BY <1>7, <2>1, <2>2, <3>2, SameRows DEF SoloWork, ProxyPart, ProxySettled,
                ProxySteps, SyncSteps, ConfigSteps, WriteSteps
        <3> QED
            BY <2>1, <2>2, <3>2, <3>5, <3>6 DEF SoloWork, Route, AccessPart, PutPart,
                PortSteps, ProxySteps, SyncSteps, ConfigSteps, WriteSteps
    <2> HIDE DEF at
    <2>3. op(a) # "modeSweep" => pc'[a] = "idle"
        BY <2>1 DEF at
    <2> QED
        BY <1>0, <1>7, <2>1, <2>2, <2>3, SoloMoves
<1>8. CASE GetApp(a)
    <2>1. pc[a] = "getApp" /\ UNCHANGED <<rowVars, conf, stamp, env, policy>>
        BY <1>8 DEF GetApp, proxyVars, clusterVars
    <2>2. CASE HasApp(prj(a)) \/ op(a) = "deploy"
        <3>1. job' = job /\ pc' = [pc EXCEPT ![a] = "putApp"] /\ alone' = alone
            BY <1>8, <2>2 DEF GetApp, Get, Goto, history
        <3>2. SoloWork(a) => AccessPart(a)'
            BY <1>0, <2>1, <3>1, SameRows DEF SoloWork, AccessPart, WriteSteps, op, prj
        <3> QED
            BY <1>2, <1>a, <2>1, <3>1, <3>2 DEF SyncSteps, WriteSteps, op, prj
    <2>3. CASE ~(HasApp(prj(a)) \/ op(a) = "deploy")
        <3>1. AccessSynced(a) /\ alone' = alone /\ env[prj(a)] = Absent
            BY <1>8, <2>3 DEF GetApp, HasApp, history
        <3>2. SoloWork(a) => \A p \in {prj(a)} : AccessSettled(p)'
            BY <2>1, <3>1 DEF SoloWork, AccessPart, Want, AccessSettled, ConfigOf, rowVars
        <3> QED
            BY <1>7, <2>1, <3>1, <3>2
    <2> QED
        BY <2>2, <2>3
<1>9. CASE PutApp(a) /\ ~BreaksOff(a)
    <2>1. /\ pc[a] = "putApp" /\ UNCHANGED <<rowVars, conf, stamp, policy>>
          /\ env' = [env EXCEPT ![prj(a)] = job[a].cfg.port] /\ AccessSynced(a) /\ alone' = alone
        BY <1>9 DEF PutApp, Fails, proxyVars, history
    <2>2. SoloWork(a) => \A p \in {prj(a)} : AccessSettled(p)'
        <3>1. SoloWork(a) => /\ policy[prj(a)] = Want(prj(a)) /\ job[a].cfg = Want(prj(a))
            BY <2>1 DEF SoloWork, AccessPart, WriteSteps
        <3>2. env'[prj(a)] = job[a].cfg.port
            BY <1>0, <2>1
        <3> QED
            BY <2>1, <3>1, <3>2 DEF Want, AccessSettled, ConfigOf, rowVars
    <2> QED
        BY <1>0, <1>7, <2>1, <2>2
<1> QED
    BY <1>1, <1>3, <1>4, <1>5, <1>6, <1>8, <1>9

LEMMA SoloSweep ==
    ASSUME TypeInv, SoloInv, NEW a \in Actors, ListModes(a) \/ NextProject(a) \/ CallFails(a)
    PROVE  SoloInv'
<1>0. pc \in [Actors -> PC] /\ job \in [Actors -> Job] /\ job[a] \in Job
    BY DEF TypeInv, ProcOK
<1>1. CASE CallFails(a)
    <2>1. pc[a] # "idle" /\ BreaksOff(a)
        BY <1>1 DEF CallFails, Fails
    <2> QED
        BY <2>1, FailsNotAlone, SoloMoves
<1>2. CASE ListModes(a)
    <2> DEFINE S == {p \in Projects : live(p) /\ project[p].mode # "off"}
    <2>1. /\ pc' = [pc EXCEPT ![a] = "next"] /\ alone' = alone /\ pc[a] = "modes"
          /\ job' = [job EXCEPT ![a] = [NoJob EXCEPT !.op = "portSweep", !.left = S, !.all = S]]
          /\ UNCHANGED <<rowVars, proxyVars, clusterVars>>
        BY <1>2 DEF ListModes, Learns, Goto, history
    <2>2. op(a)' = "portSweep" /\ job'[a].all = S /\ pc'[a] = "next"
        BY <1>0, <2>1 DEF op, NoJob
    <2>3. Serves(a)' = S
        BY <2>1, <2>2 DEF Serves, live, rowVars
    <2>4. SoloWork(a)'
        BY <2>2, <2>3 DEF SoloWork, Route, ProxyPart, AccessPart, SweepPart, PutPart,
            PortSteps, ProxySteps, SyncSteps, ConfigSteps, WriteSteps
    <2> QED
        BY <2>1, <2>4, SoloMoves
<1>3. CASE NextProject(a)
    <2>0. pc[a] = "next" /\ UNCHANGED World /\ UNCHANGED <<rowVars, conf, stamp>>
        BY <1>3 DEF NextProject, World, rowVars, proxyVars, clusterVars
    <2>1. ASSUME NEW at \in {"list", "port", "allows"}, NEW j,
                 pc' = [pc EXCEPT ![a] = at], job' = [job EXCEPT ![a] = j], alone' = alone,
                 j.op = job[a].op, j.all = job[a].all,
                 at \in {"list", "port"} <=> op(a) = "portSweep",
                 SoloWork(a) /\ op(a) = "modeSweep" =>
                    \A p \in job[a].all \ j.left : p = j.prj \/ AccessSettled(p)
          PROVE  SoloInv'
        <3>1. ASSUME SoloWork(a) PROVE SoloWork(a)'
            <4>1. /\ op(a)' = op(a) /\ prj(a)' = j.prj /\ pc'[a] = at /\ job'[a] = j
                  /\ op(a) \in {"portSweep", "modeSweep"}
                BY <1>0, <2>0, <2>1, <3>1 DEF op, prj, SoloWork, Route
            <4>2. Serves(a)' = Serves(a)
                BY <2>0, <4>1 DEF Serves, live, rowVars
            <4>3. SweepPart(a)'
                BY <2>0, <2>1, <3>1, <4>1, <4>2, SameWorld DEF SoloWork, SweepPart
            <4>4. ProxyPart(a)'
                BY <2>0, <2>1, <3>1, <4>1, SameWorld DEF SoloWork, ProxyPart,
                    ProxySteps, SyncSteps, ConfigSteps, WriteSteps
            <4> QED
                BY <2>1, <4>1, <4>3, <4>4 DEF SoloWork, Route, AccessPart, PutPart,
                    PortSteps, ProxySteps, SyncSteps, ConfigSteps, WriteSteps
        <3> QED
            BY <2>0, <2>1, <3>1, SoloMoves
    <2>2. CASE job[a].left = {} /\ op(a) = "portSweep"
               /\ Learns(a, "list", [job[a] EXCEPT !.prj = None])
        <3> DEFINE j == [job[a] EXCEPT !.prj = None]
        <3>1. j.op = job[a].op /\ j.all = job[a].all
            BY <1>0 DEF Job
        <3> HIDE DEF j
        <3>2. pc' = [pc EXCEPT ![a] = "list"] /\ job' = [job EXCEPT ![a] = j] /\ alone' = alone
            BY <2>2 DEF Learns, Goto, history, j
        <3>3. SoloWork(a) /\ op(a) = "modeSweep" =>
                 \A p \in job[a].all \ j.left : p = j.prj \/ AccessSettled(p)
            BY <2>2
        <3> QED
            BY <2>1, <2>2, <3>1, <3>2, <3>3
    <2>3. CASE Ends(a)
        <3>1. pc' = [pc EXCEPT ![a] = "idle"] /\ alone' = alone /\ pc'[a] = "idle"
            BY <1>0, <2>3 DEF Ends, Goto, history
        <3> QED
            BY <2>0, <3>1, SoloMoves
    <2>4. ASSUME NEW p \in job[a].left,
                 Learns(a, IF op(a) = "portSweep" THEN "port" ELSE "allows",
                        [job[a] EXCEPT !.prj = p, !.left = @ \ {p}])
          PROVE  SoloInv'
        <3> DEFINE j == [job[a] EXCEPT !.prj = p, !.left = job[a].left \ {p}]
                   at == IF op(a) = "portSweep" THEN "port" ELSE "allows"
        <3>1. /\ j.op = job[a].op /\ j.all = job[a].all /\ j.prj = p
              /\ j.left = job[a].left \ {p}
            BY <1>0 DEF Job
        <3>2. pc' = [pc EXCEPT ![a] = at] /\ job' = [job EXCEPT ![a] = j] /\ alone' = alone
            BY <1>0, <2>4 DEF Learns, Goto, history, Job
        <3>3. at \in {"list", "port", "allows"} /\ (at \in {"list", "port"} <=> op(a) = "portSweep")
            OBVIOUS
        <3> HIDE DEF j, at
        <3>4. ASSUME SoloWork(a), op(a) = "modeSweep", NEW q \in job[a].all \ j.left
              PROVE  q = j.prj \/ AccessSettled(q)
            BY <2>0, <3>1, <3>4 DEF SoloWork, SweepPart
        <3> QED
            BY <2>1, <3>1, <3>2, <3>3, <3>4
    <2> QED
        BY <1>3, <2>2, <2>3, <2>4 DEF NextProject
<1> QED
    BY <1>1, <1>2, <1>3

LEMMA SoloRestart ==
    ASSUME TypeInv, Restart
    PROVE  SoloInv'
<1>1. /\ pc'[Sweep] = "list" /\ job'[Sweep] = BootSweep /\ alone' = Sweep
      /\ \A b \in Actors \ {Sweep} : pc'[b] = "idle"
    BY ActorsApart DEF Restart
<1>2. op(Sweep)' = "proxySweep"
    BY <1>1, NoJobType DEF op
<1>3. SoloWork(Sweep)'
    BY <1>1, <1>2 DEF SoloWork, Route, ProxyPart, AccessPart, SweepPart, PutPart,
        PortSteps, ProxySteps, SyncSteps, ConfigSteps, WriteSteps
<1> QED
    BY <1>1, <1>3 DEF SoloInv, Solo

LEMMA SoloStays ==
    ASSUME SoloInv, UNCHANGED <<World, pc, job, alone>>
    PROVE  SoloInv'
<1>1. \A a \in Actors : op(a)' = op(a) /\ prj(a)' = prj(a)
    BY DEF op, prj
<1>2. \A a \in Actors : Serves(a)' = Serves(a)
    BY <1>1, SameWorld
<1>3. ASSUME NEW a \in Actors, SoloWork(a) PROVE SoloWork(a)'
    <2>1. Route(a)' /\ ProxyPart(a)'
        BY <1>1, <1>3, SameWorld DEF SoloWork, Route, ProxyPart, World
    <2>2. AccessPart(a)' /\ PutPart(a)'
        BY <1>1, <1>3, SameWorld DEF SoloWork, AccessPart, PutPart, World
    <2>3. SweepPart(a)'
        BY <1>1, <1>2, <1>3, SameWorld DEF SoloWork, SweepPart
    <2> QED
        BY <2>1, <2>2, <2>3 DEF SoloWork
<1> QED
    BY <1>3 DEF SoloInv, Solo

LEMMA SoloStep == TypeInv /\ SoloInv /\ [Next]_vars => SoloInv'
<1> SUFFICES ASSUME TypeInv, SoloInv, [Next]_vars
             PROVE  SoloInv'
    OBVIOUS
<1>1. CASE Begin
    BY <1>1, SoloBegin
<1>2. ASSUME NEW a \in Actors, Step(a) PROVE SoloInv'
    BY <1>2, SoloPort, SoloProxy, SoloAccess, SoloSweep DEF Step
<1>3. CASE Rollout \/ ContainerRestarts \/ UNCHANGED vars
    BY <1>3, SoloStays DEF Rollout, ContainerRestarts, vars, World, rowVars, proxyVars,
        clusterVars, procVars, history
<1>4. CASE Restart
    BY <1>4, SoloRestart
<1> QED
    BY <1>1, <1>2, <1>3, <1>4 DEF Next

LEMMA SoloAlways == Spec => [](TypeInv /\ SoloInv)
<1>1. Init => TypeInv /\ SoloInv
    BY InitType, ActorsApart DEF Init, SoloInv
<1>2. TypeInv /\ SoloInv /\ [Next]_vars => (TypeInv /\ SoloInv)'
    BY NextType, SoloStep
<1> QED
    BY <1>1, <1>2, PTL DEF Spec

\* What SoloConverges promises of the last step of a.
Converged(a) ==
    /\ op(a) # "deploy" => ProxySettled'
    /\ \A p \in Serves(a) : AccessSettled(p)'
    /\ op(a) = "put" => \A p \in {prj(a)} :
          ~policy[p].public /\ policy[p].allows = rules[p] \intersect Endpoints

LEMMA LastStep ==
    ASSUME TypeInv, NEW a \in Actors, SoloWork(a), pc[a] # "idle", alone = a, alone' = a,
           Step(a), pc'[a] = "idle"
    PROVE  Converged(a)
<1>0. pc \in [Actors -> PC] /\ job \in [Actors -> Job] /\ job[a] \in Job /\ ~BreaksOff(a)
    BY FailsNotAlone DEF TypeInv, ProcOK
<1>1. CASE PutDep(a)
    <2>1. /\ pc[a] = "putDep" /\ stamp' = job[a].conf /\ op(a) = "put"
          /\ UNCHANGED <<rowVars, conf>>
        BY <1>0, <1>1 DEF PutDep, Fails, ProxySynced, Goto
    <2>2. ProxySettled'
        BY <2>1, SameRows DEF SoloWork, ProxyPart, ProxySettled, ProxySteps
    <2> QED
        BY <2>1, <2>2 DEF SoloWork, PutPart, ProxySteps, Converged, Serves
<1>2. ASSUME AccessSynced(a), pc[a] \in {"getApp", "putApp"},
             UNCHANGED <<rowVars, conf, stamp>>, \A p \in {prj(a)} : AccessSettled(p)'
      PROVE  Converged(a)
    <2>1. op(a) \in {"patch", "deploy"}
        BY <1>0, <1>2 DEF AccessSynced, Goto, SoloWork, Route, SyncSteps, WriteSteps
    <2>2. op(a) = "patch" => ProxySettled'
        BY <1>2, SameRows DEF SoloWork, ProxyPart, ProxySettled, SyncSteps, WriteSteps
    <2> QED
        BY <1>2, <2>1, <2>2 DEF Converged, Serves
<1>3. CASE GetApp(a)
    <2>1. /\ AccessSynced(a) /\ env[prj(a)] = Absent /\ pc[a] = "getApp"
          /\ UNCHANGED <<rowVars, conf, stamp, policy, env>>
        BY <1>0, <1>3 DEF GetApp, Get, Goto, HasApp, proxyVars, clusterVars
    <2>2. \A p \in {prj(a)} : AccessSettled(p)'
        BY <2>1 DEF SoloWork, AccessPart, Want, AccessSettled, ConfigOf, rowVars
    <2> QED
        BY <1>2, <2>1, <2>2
<1>4. CASE PutApp(a)
    <2>1. /\ AccessSynced(a) /\ pc[a] = "putApp" /\ prj(a) \in Projects
          /\ env' = [env EXCEPT ![prj(a)] = job[a].cfg.port]
          /\ UNCHANGED <<rowVars, conf, stamp, policy>>
        BY <1>0, <1>4 DEF PutApp, Fails, proxyVars, TypeInv, ClusterOK
    <2>2. /\ policy[prj(a)] = Want(prj(a)) /\ job[a].cfg = Want(prj(a))
          /\ env'[prj(a)] = job[a].cfg.port
        BY <2>1 DEF SoloWork, AccessPart, WriteSteps, TypeInv, ClusterOK
    <2>3. \A p \in {prj(a)} : AccessSettled(p)'
        BY <2>1, <2>2 DEF Want, AccessSettled, ConfigOf, rowVars
    <2> QED
        BY <1>2, <2>1, <2>3
<1>5. CASE NextProject(a)
    <2>1. /\ pc[a] = "next" /\ job[a].left = {} /\ op(a) = "modeSweep" /\ UNCHANGED World
        BY <1>0, <1>5 DEF NextProject, Learns, Goto, SoloWork, Route, World,
            rowVars, proxyVars, clusterVars
    <2>2. ProxySettled' /\ \A p \in Serves(a) : AccessSettled(p)'
        BY <2>1, SameWorld DEF SoloWork, ProxyPart, SweepPart
    <2> QED
        BY <2>1, <2>2 DEF Converged
<1>6. ~(ReadPort(a) \/ PickPort(a) \/ AssignPort(a) \/ SetMode(a))
    BY <1>0 DEF ReadPort, HavePort, Steps, Fails, PickPort, Learns, AssignPort, SetMode, Goto
<1>7. ~(ListTargets(a) \/ GetConf(a) \/ PutConf(a) \/ GetDep(a) \/ ListModes(a) \/ CallFails(a))
    BY <1>0 DEF ListTargets, GetConf, PutConf, GetDep, ListModes, CallFails, Learns, Get, Fails, Goto
<1>8. ~(ReadAllows(a) \/ ReadConfig(a) \/ GetPolicy(a) \/ PutPolicy(a))
    BY <1>0 DEF ReadAllows, ReadConfig, GetPolicy, PutPolicy, Learns, Get, Fails, Goto
<1> QED
    BY <1>1, <1>3, <1>4, <1>5, <1>6, <1>7, <1>8 DEF Step

LEMMA StepIsLocal ==
    ASSUME TypeInv, NEW b \in Actors, Step(b), NEW a \in Actors, a # b
    PROVE  pc'[a] = pc[a]
<1>1. pc \in [Actors -> PC]
    BY DEF TypeInv, ProcOK
<1>2. ASSUME NEW at, Goto(b, at) PROVE pc'[a] = pc[a]
    BY <1>1, <1>2 DEF Goto
<1>3. ASSUME ReadPort(b) \/ PickPort(b) \/ AssignPort(b) \/ SetMode(b) PROVE \E at : Goto(b, at)
    BY <1>3, Zenon DEF ReadPort, HavePort, Steps, Fails, BreaksOff, PickPort, Learns, AssignPort, SetMode
<1>4. ASSUME ListTargets(b) \/ GetConf(b) \/ PutConf(b) \/ GetDep(b) \/ PutDep(b)
      PROVE  \E at : Goto(b, at)
    BY <1>4, Zenon DEF ListTargets, GetConf, PutConf, GetDep, PutDep, ProxySynced, Learns, Get, Fails, BreaksOff
<1>5. ASSUME ReadAllows(b) \/ ReadConfig(b) \/ GetPolicy(b) \/ PutPolicy(b) \/ GetApp(b) \/ PutApp(b)
      PROVE  \E at : Goto(b, at)
    BY <1>5, Zenon DEF ReadAllows, ReadConfig, GetPolicy, PutPolicy, GetApp, PutApp, AccessSynced,
        Learns, Get, Fails, BreaksOff
<1>6. ASSUME ListModes(b) \/ NextProject(b) \/ CallFails(b) PROVE \E at : Goto(b, at)
    BY <1>6, Zenon DEF ListModes, NextProject, CallFails, Ends, Learns, Fails, BreaksOff
<1> QED
    BY <1>2, <1>3, <1>4, <1>5, <1>6 DEF Step

LEMMA OthersDoNotEnd ==
    ASSUME TypeInv, NEW a \in Actors, pc[a] # "idle", pc'[a] = "idle", faults' = faults, [Next]_vars
    PROVE  Step(a)
<1>1. pc \in [Actors -> PC] /\ faults \in Nat
    BY EgressAssumption DEF TypeInv, ProcOK, HistoryOK
<1>2. ~Begin
    <2>1. ASSUME NEW b \in Actors, NEW at, NEW j, Begins(b, at, j) PROVE FALSE
        BY <1>1, <2>1 DEF Begins, Goto
    <2>2. ASSUME NEW p \in Projects, DeleteProject(p) \/ \E m \in Mode : FlipInDatabase(p, m)
          PROVE  FALSE
        BY <2>2 DEF DeleteProject, FlipInDatabase, procVars
    <2> QED
        BY <2>1, <2>2, ActorsApart DEF Begin, PatchMode, PutRules, Deploy
<1>3. ~(Rollout \/ ContainerRestarts \/ UNCHANGED vars)
    BY DEF Rollout, ContainerRestarts, vars, procVars
<1>4. ~Restart
    BY <1>1 DEF Restart
<1> QED
    BY <1>2, <1>3, <1>4, StepIsLocal DEF Next

\* Whatever raced or failed before, an operation that nothing disturbs leaves the
\* proxy, the policies and the pods as the rows say: handlePatchEgressMode,
\* handlePutProjectEgress, SweepEgressModesAtStartup and the reconciler's Apply.
THEOREM SoloConvergesAlways == Spec => SoloConverges
<1>1. TypeInv /\ SoloInv /\ [Next]_vars
        => [\A a \in Actors :
              pc[a] # "idle" /\ pc'[a] = "idle" /\ alone = a /\ alone' = a /\ faults' = faults
                  => Converged(a)]_vars
    <2> SUFFICES ASSUME TypeInv, SoloInv, [Next]_vars, NEW a \in Actors,
                        pc[a] # "idle", pc'[a] = "idle", alone = a, alone' = a, faults' = faults
                 PROVE  Converged(a)
        OBVIOUS
    <2> QED
        BY OthersDoNotEnd, LastStep DEF SoloInv, Solo
<1> QED
    BY <1>1, SoloAlways, PTL DEF Spec, SoloConverges, Converged

================================================================================
