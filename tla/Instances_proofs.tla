-------------------------- MODULE Instances_proofs --------------------------
(***************************************************************************)
(* Proofs about Instances, for every number of starts.                     *)
(***************************************************************************)
EXTENDS Instances, TLAPS

LEMMA NoFileIsFile == NoFile \in File
BY DEF NoFile, File

LEMMA InitTypeOK == Init => TypeOK
BY DEF Init, TypeOK, File, NoFile, Places

LEMMA StepTypeOK == TypeOK /\ [Next]_vars => TypeOK'
<1> SUFFICES ASSUME TypeOK, [Next]_vars PROVE TypeOK'
  OBVIOUS
<1> USE DEF TypeOK
<1>1. CASE UNCHANGED vars
  BY <1>1 DEF vars
<1>2. ASSUME NEW p \in Pids, Start(p) PROVE TypeOK'
  BY <1>2 DEF Start, Go, Places
<1>3. ASSUME NEW p \in Pids, Acquire(p) PROVE TypeOK'
  <2>1. at' \in [Pids -> Places]
    BY <1>3 DEF Acquire, Create, Exists, ReadPid, ReadNothing, Running, Stale,
                TakeOver, WritePid, WriteFails, Go, Places
  <2>2. pid_file' \in File
    <3>1. CASE Create(p)
      BY <3>1 DEF Create, File
    <3>2. CASE WritePid(p)
      <4>1. (pid_file.written \/ pid_file.maker = p) \in BOOLEAN
        OBVIOUS
      <4> QED
        BY <3>2, <4>1 DEF WritePid, File
    <3>3. CASE TakeOver(p) \/ WriteFails(p)
      BY <3>3, NoFileIsFile DEF TakeOver, WriteFails
    <3>4. CASE Exists(p) \/ ReadPid(p) \/ ReadNothing(p) \/ Running(p) \/ Stale(p)
      BY <3>4 DEF Exists, ReadPid, ReadNothing, Running, Stale
    <3> QED
      BY <1>3, <3>1, <3>2, <3>3, <3>4 DEF Acquire
  <2>3. attempt' \in [Pids -> {0, 1}] /\ seen' \in [Pids -> Pids \cup {NoPid}]
    BY <1>3 DEF Acquire, Create, Exists, ReadPid, ReadNothing, Running, Stale,
                TakeOver, WritePid, WriteFails, File
  <2>4. UNCHANGED <<shm, crashed>>
    BY <1>3 DEF Acquire, Create, Exists, ReadPid, ReadNothing, Running, Stale,
                TakeOver, WritePid, WriteFails
  <2> QED
    BY <2>1, <2>2, <2>3, <2>4
<1>4. ASSUME NEW p \in Pids, Live(p) PROVE TypeOK'
  <2>1. at' \in [Pids -> Places]
    BY <1>4 DEF Live, ConfigFails, CreateMemory, MemoryExists, Stop, Destroy, Own,
                NotOwn, Drop, Go, Places
  <2>2. pid_file' \in File /\ shm' \in Pids \cup {NoPid}
    BY <1>4, NoFileIsFile DEF Live, ConfigFails, CreateMemory, MemoryExists, Stop,
                              Destroy, Own, NotOwn, Drop
  <2>3. UNCHANGED <<attempt, seen, crashed>>
    BY <1>4 DEF Live, ConfigFails, CreateMemory, MemoryExists, Stop, Destroy, Own,
                NotOwn, Drop
  <2> QED
    BY <2>1, <2>2, <2>3
<1>5. ASSUME NEW p \in Pids, Crash(p) PROVE TypeOK'
  BY <1>5 DEF Crash, Places
<1> QED
  BY <1>1, <1>2, <1>3, <1>4, <1>5 DEF Next

\* The steps of acquire_pid_file leave the memory and those who work on it alone.
LEMMA AcquireKeepsMemory ==
  ASSUME TypeOK, NEW p \in Pids, Start(p) \/ Acquire(p)
  PROVE  /\ UNCHANGED <<shm, crashed>>
         /\ \A q \in Pids : at'[q] \in {"run", "destroy"} <=> at[q] \in {"run", "destroy"}
BY DEF TypeOK, Start, Acquire, Create, Exists, ReadPid, ReadNothing, Running, Stale,
       TakeOver, WritePid, WriteFails, Go

MemoryInv == OnlyOneRuns /\ MemoryLeftByCrash

LEMMA StepMemoryInv ==
  ASSUME TypeOK, MemoryInv, [Next]_vars
  PROVE  MemoryInv'
<1> USE DEF MemoryInv, OnlyOneRuns, MemoryLeftByCrash, TypeOK
<1>1. CASE UNCHANGED vars
  BY <1>1 DEF vars
<1>2. ASSUME NEW p \in Pids, Start(p) \/ Acquire(p) PROVE MemoryInv'
  <2>1. /\ UNCHANGED <<shm, crashed>>
        /\ \A q \in Pids : at'[q] \in {"run", "destroy"} <=> at[q] \in {"run", "destroy"}
    BY <1>2, AcquireKeepsMemory
  <2> QED
    BY <2>1
<1>3. ASSUME NEW p \in Pids, CreateMemory(p) PROVE MemoryInv'
  BY <1>3, InstanceAssumption DEF CreateMemory, Go
<1>4. ASSUME NEW p \in Pids, Destroy(p) PROVE MemoryInv'
  BY <1>4, InstanceAssumption DEF Destroy, Go
<1>5. ASSUME NEW p \in Pids,
             \/ ConfigFails(p) \/ MemoryExists(p) \/ Stop(p)
             \/ Own(p) \/ NotOwn(p) \/ Drop(p)
      PROVE  MemoryInv'
  <2>1. /\ UNCHANGED <<shm, crashed>>
        /\ \A q \in Pids : at'[q] \in {"run", "destroy"} <=> at[q] \in {"run", "destroy"}
    BY <1>5 DEF ConfigFails, MemoryExists, Stop, Own, NotOwn, Drop, Go
  <2> QED
    BY <2>1
<1>6. ASSUME NEW p \in Pids, Crash(p) PROVE MemoryInv'
  BY <1>6, InstanceAssumption DEF Crash, Alive
<1> QED
  BY <1>1, <1>2, <1>3, <1>4, <1>5, <1>6 DEF Next, Live

LEMMA MemoryInvHolds == Spec => []MemoryInv
<1>1. Init => MemoryInv
  BY DEF Init, MemoryInv, OnlyOneRuns, MemoryLeftByCrash
<1>2. TypeOK /\ MemoryInv /\ [Next]_vars => MemoryInv'
  BY StepMemoryInv
<1> QED
  BY <1>1, <1>2, InitTypeOK, StepTypeOK, PTL DEF Spec

\* The variables keep their types.
THEOREM TypeCorrect == Spec => []TypeOK
BY InitTypeOK, StepTypeOK, PTL DEF Spec

\* For every number of starts, stops and kills, in every interleaving of the pid
\* file's races, at most one instance is between the creation of the memory and
\* its removal.
THEOREM OneInstanceRuns == Spec => []OnlyOneRuns
<1>1. MemoryInv => OnlyOneRuns
  BY DEF MemoryInv
<1> QED
  BY <1>1, MemoryInvHolds, PTL

\* Only a kill leaves the memory behind: every other way out of main that has
\* created it also removes it.
THEOREM OnlyCrashLeavesMemory == Spec => []MemoryLeftByCrash
<1>1. MemoryInv => MemoryLeftByCrash
  BY DEF MemoryInv
<1> QED
  BY <1>1, MemoryInvHolds, PTL
=============================================================================
