------------------------------ MODULE Instances ------------------------------
(***************************************************************************)
(* Instances of onvif_notify_server that are started, stopped and killed:  *)
(* the pid file (acquire_pid_file, check_pid, release_pid_file) and the    *)
(* exclusive creation of the shared memory (create_shared_memory).  One    *)
(* step is one system call, or a few that touch nothing shared.  Every     *)
(* start is an instance of its own, with its own pid.                      *)
(*                                                                         *)
(* The pid file is NoFile, or says which instance created it and whether   *)
(* that instance has written its pid into it yet.                          *)
(***************************************************************************)
EXTENDS Integers

CONSTANTS
  Pids,       \* the instances that are ever started
  NoPid       \* no instance

ASSUME InstanceAssumption == NoPid \notin Pids

VARIABLES
  pid_file,   \* the pid file
  shm,        \* the instance that created the memory that SHMOBJ_PATH names
  at,         \* where each instance is
  attempt,    \* the loop variable of acquire_pid_file
  seen,       \* the pid that check_pid has read
  crashed     \* history: the instances that were killed

vars == <<pid_file, shm, at, attempt, seen, crashed>>

File   == [maker : Pids \cup {NoPid}, written : BOOLEAN]
NoFile == [maker |-> NoPid, written |-> FALSE]

Places == {"new", "open", "read", "kill", "unlink", "write", "memory", "run",
           "destroy", "release", "drop", "gone"}

TypeOK == /\ pid_file \in File
          /\ shm \in Pids \cup {NoPid}
          /\ at \in [Pids -> Places]
          /\ attempt \in [Pids -> {0, 1}]
          /\ seen \in [Pids -> Pids \cup {NoPid}]
          /\ crashed \subseteq Pids

Init == /\ pid_file = NoFile
        /\ shm = NoPid
        /\ at = [p \in Pids |-> "new"]
        /\ attempt = [p \in Pids |-> 0]
        /\ seen = [p \in Pids |-> NoPid]
        /\ crashed = {}

Alive(p) == at[p] \notin {"new", "gone"}

Go(p, from, to) == at[p] = from /\ at' = [at EXCEPT ![p] = to]

Start(p) == /\ Go(p, "new", "open")
            /\ UNCHANGED <<pid_file, shm, attempt, seen, crashed>>

-----------------------------------------------------------------------------
(* acquire_pid_file *)

\* open with O_CREAT and O_EXCL: the file is created, empty
Create(p) == /\ pid_file = NoFile
             /\ Go(p, "open", "write")
             /\ pid_file' = [maker |-> p, written |-> FALSE]
             /\ UNCHANGED <<shm, attempt, seen, crashed>>

Exists(p) == /\ pid_file # NoFile
             /\ Go(p, "open", "read")
             /\ UNCHANGED <<pid_file, shm, attempt, seen, crashed>>

\* check_pid reads a pid
ReadPid(p) == /\ pid_file.written
              /\ Go(p, "read", "kill")
              /\ seen' = [seen EXCEPT ![p] = pid_file.maker]
              /\ UNCHANGED <<pid_file, shm, attempt, crashed>>

\* the file is gone, or has no pid in it: nobody is taken to own it
ReadNothing(p) == /\ ~pid_file.written
                  /\ Go(p, "read", "unlink")
                  /\ UNCHANGED <<pid_file, shm, attempt, seen, crashed>>

\* kill(pid, 0): "Program is already running."
Running(p) == /\ Go(p, "kill", "gone")
              /\ Alive(seen[p])
              /\ UNCHANGED <<pid_file, shm, attempt, seen, crashed>>

Stale(p) == /\ Go(p, "kill", "unlink")
            /\ ~Alive(seen[p])
            /\ UNCHANGED <<pid_file, shm, attempt, seen, crashed>>

\* mutant: try for as long as a stale file is found
TakeOverForever(p) == /\ Go(p, "unlink", "open")
                      /\ pid_file' = NoFile
                      /\ attempt' = [attempt EXCEPT ![p] = @ + 1]
                      /\ UNCHANGED <<shm, seen, crashed>>

\* remove the file, if there still is one, and try once more
TakeOver(p) == /\ Go(p, "unlink", IF attempt[p] = 0 THEN "open" ELSE "gone")
               /\ pid_file' = NoFile
               /\ attempt' = [attempt EXCEPT ![p] = 1]
               /\ UNCHANGED <<shm, seen, crashed>>

\* the pid goes into the file that was created, which may have lost its name
WritePid(p) == /\ Go(p, "write", "memory")
               /\ pid_file' = [pid_file EXCEPT !.written = @ \/ pid_file.maker = p]
               /\ UNCHANGED <<shm, attempt, seen, crashed>>

\* the write fails: the name is unlinked, and the program ends
WriteFails(p) == /\ Go(p, "write", "gone")
                 /\ pid_file' = NoFile
                 /\ UNCHANGED <<shm, attempt, seen, crashed>>

-----------------------------------------------------------------------------
(* main *)

\* a wrong configuration or a missing directory: the pid file stays
ConfigFails(p) == /\ Go(p, "memory", "gone")
                  /\ UNCHANGED <<pid_file, shm, attempt, seen, crashed>>

\* mutant: without O_EXCL
CreateMemoryShared(p) == /\ Go(p, "memory", "run")
                         /\ shm' = p
                         /\ UNCHANGED <<pid_file, attempt, seen, crashed>>

\* shm_open with O_CREAT and O_EXCL
CreateMemory(p) == /\ shm = NoPid
                   /\ Go(p, "memory", "run")
                   /\ shm' = p
                   /\ UNCHANGED <<pid_file, attempt, seen, crashed>>

\* "Unable to create shared memory."
MemoryExists(p) == /\ shm # NoPid
                   /\ Go(p, "memory", "release")
                   /\ UNCHANGED <<pid_file, shm, attempt, seen, crashed>>

\* the end of the main loop, or inotify cannot be used
Stop(p) == /\ Go(p, "run", "destroy")
           /\ UNCHANGED <<pid_file, shm, attempt, seen, crashed>>

\* mutant: the memory is unmapped and not unlinked
DestroyKeepsName(p) == /\ Go(p, "destroy", "release")
                       /\ UNCHANGED <<pid_file, shm, attempt, seen, crashed>>

\* shm_unlink, whatever memory has the name
Destroy(p) == /\ Go(p, "destroy", "release")
              /\ shm' = NoPid
              /\ UNCHANGED <<pid_file, attempt, seen, crashed>>

\* release_pid_file reads the file
Own(p) == /\ pid_file = [maker |-> p, written |-> TRUE]
          /\ Go(p, "release", "drop")
          /\ UNCHANGED <<pid_file, shm, attempt, seen, crashed>>

NotOwn(p) == /\ pid_file # [maker |-> p, written |-> TRUE]
             /\ Go(p, "release", "gone")
             /\ UNCHANGED <<pid_file, shm, attempt, seen, crashed>>

Drop(p) == /\ Go(p, "drop", "gone")
           /\ pid_file' = NoFile
           /\ UNCHANGED <<shm, attempt, seen, crashed>>

Crash(p) == /\ Alive(p)
            /\ at' = [at EXCEPT ![p] = "gone"]
            /\ crashed' = crashed \cup {p}
            /\ UNCHANGED <<pid_file, shm, attempt, seen>>

-----------------------------------------------------------------------------
Acquire(p) == \/ Create(p) \/ Exists(p) \/ ReadPid(p) \/ ReadNothing(p)
              \/ Running(p) \/ Stale(p) \/ TakeOver(p) \/ WritePid(p) \/ WriteFails(p)

Live(p) == \/ ConfigFails(p) \/ CreateMemory(p) \/ MemoryExists(p)
           \/ Stop(p) \/ Destroy(p) \/ Own(p) \/ NotOwn(p) \/ Drop(p)

Next == \E p \in Pids : Start(p) \/ Acquire(p) \/ Live(p) \/ Crash(p)

Spec == Init /\ [][Next]_vars

-----------------------------------------------------------------------------
\* Whatever becomes of the pid file, at most one instance runs, and the memory
\* that the CGI processes find is the one it works on: main takes the exclusive
\* creation of the memory as a second guard.
OnlyOneRuns == \A p \in Pids : at[p] \in {"run", "destroy"} => shm = p

\* The memory outlives the instance that created it only if that was killed; then
\* every later start fails on it, though it may take over the "stale file from a
\* crashed instance" (acquire_pid_file).
MemoryLeftByCrash ==
  shm # NoPid => at[shm] \in {"run", "destroy"} \/ shm \in crashed
=============================================================================
