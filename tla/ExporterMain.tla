---------------------------- MODULE ExporterMain ----------------------------
(***************************************************************************)
(* The process from start to end: main (__main__.py), the validation of    *)
(* the options (configuration.py), the host override (networking.py), and  *)
(* the service scripts that decide what an exit means for the container.   *)
(* What a cycle and the registry worker do inside is ImportService's and   *)
(* RegistrySync's subject; here they are activities that may take for ever.*)
(***************************************************************************)
EXTENDS Integers, Sequences

CONSTANTS
  OptionSets,     \* /data/options.json and the environment of a container
  HostFiles,      \* the contents /etc/hosts may have in a new container
  MaxFaults       \* bound: failed calls, kills and signals

(***************************************************************************)
(* The options, each by the class of its value that validation tells apart.*)
(***************************************************************************)
Option ==
  [hauzer_url: {"http", "no hostname", "no netloc", "other scheme", "no text"},
   hauzer_token: {"valid", "malformed", "no text"},
   hauzer_host_ip: {"blank", "private", "public", "loopback", "no address", "no text"},
   verify_tls: {"bool", "no bool"},
   initial_backfill_hours: [type: {"int", "bool", "other"}, value: Int],
   registry_sync: {"absent", "true", "false", "no bool"},
   supervisor_token: {"empty", "set"},
   overrides: {"blank", "ids", "empty id", "unsafe id", "no text"},
   run_once: BOOLEAN]

\* A hosts file: its lines, and whether the last one ends in a newline.
HostsFile == [lines: Seq({"localhost", "override"}), ended: BOOLEAN]

ASSUME ExporterAssumption ==
  /\ OptionSets \subseteq Option
  /\ HostFiles \subseteq {f \in HostsFile : \A i \in DOMAIN f.lines : f.lines[i] = "localhost"}
  /\ MaxFaults \in Nat

VARIABLES
  container,    \* "up", "stopping" or "halted"
  options,      \* /data/options.json, written when the container starts
  hosts,        \* /etc/hosts of the container
  pc,           \* where the main thread is; "down": no process
  stop,         \* stop_event.is_set()
  worker,       \* registry_worker and the state of its thread
  delivery,     \* a registry delivery thread is alive
  faults

vars == <<container, options, hosts, pc, stop, worker, delivery, faults>>
threads == <<worker, delivery>>
machine == <<container, options, hosts>>

Starting == {"options", "hosts", "signals"}
Running == {"worker", "loop", "cycle", "wait", "leave", "join"}

-----------------------------------------------------------------------------
(***************************************************************************)
(* AppConfig.from_options.                                                 *)
(***************************************************************************)
UrlValid == options.hauzer_url \in {"http", "no hostname"}
TokenValid == options.hauzer_token = "valid"
HostIpValid == options.hauzer_host_ip \in {"blank", "private"}
VerifyTlsValid == options.verify_tls = "bool"
BackfillValid ==
  /\ options.initial_backfill_hours.type = "int"
  /\ options.initial_backfill_hours.value \in 1..720
RegistrySyncValid == options.registry_sync # "no bool"
OverridesValid == options.overrides \in {"blank", "ids"}

Accepted ==
  /\ UrlValid
  /\ TokenValid
  /\ HostIpValid
  /\ VerifyTlsValid
  /\ BackfillValid
  /\ RegistrySyncValid
  /\ options.supervisor_token = "set"
  /\ OverridesValid

-----------------------------------------------------------------------------
Init ==
  /\ container = "up"
  /\ options \in OptionSets
  /\ hosts \in HostFiles
  /\ pc = "down"
  /\ stop = FALSE
  /\ worker = "none"
  /\ delivery = FALSE
  /\ faults = 0

Fault == faults < MaxFaults /\ faults' = faults + 1

\* The finish script: other codes than 0 and 256 (a signal) halt the app.
Halts(code) == code \notin {0, 256} \/ container = "stopping"

\* Mutant: the threads are no daemons, and the interpreter waits for them.
ProcessEndsLast(code) ==
  /\ worker # "running" /\ ~delivery
  /\ pc' = "down"
  /\ stop' = FALSE
  /\ worker' = "none"
  /\ delivery' = FALSE
  /\ container' = IF Halts(code) THEN "halted" ELSE container
  /\ UNCHANGED <<options, hosts>>

\* The process is gone, and with it its threads, which are daemons.
ProcessEnds(code) ==
  /\ pc' = "down"
  /\ stop' = FALSE
  /\ worker' = "none"
  /\ delivery' = FALSE
  /\ container' = IF Halts(code) THEN "halted" ELSE container
  /\ UNCHANGED <<options, hosts>>

\* The run script, started by the supervision tree of the container.
StartService ==
  /\ pc = "down"
  /\ container = "up"
  /\ pc' = "options"
  /\ UNCHANGED <<machine, stop, threads, faults>>

-----------------------------------------------------------------------------
(***************************************************************************)
(* main, up to its loop.                                                   *)
(***************************************************************************)
\* Mutant: the host override is installed before all options are validated.
ReadOptionsPartly ==
  /\ pc = "options"
  /\ UrlValid /\ HostIpValid
  /\ pc' = "hosts"
  /\ UNCHANGED <<machine, stop, threads, faults>>

ReadOptions ==
  /\ pc = "options"
  /\ Accepted
  /\ pc' = "hosts"
  /\ UNCHANGED <<machine, stop, threads, faults>>

RefuseOptions ==
  /\ pc = "options"
  /\ ~Accepted
  /\ ProcessEnds(1)
  /\ UNCHANGED faults

HasEntry == \E i \in DOMAIN hosts.lines : hosts.lines[i] = "override"

\* Mutant: the entry is written right behind what the file ends with.
AppendedUnguarded ==
  [lines |-> IF hosts.lines = <<>> \/ hosts.ended
             THEN Append(hosts.lines, "override")
             ELSE [hosts.lines EXCEPT ![Len(hosts.lines)] = "glued"],
   ended |-> TRUE]

\* A last line without a newline gets one before the entry is appended.
Appended == [lines |-> Append(hosts.lines, "override"), ended |-> TRUE]

InstallHostOverride ==
  /\ pc = "hosts"
  /\ options.hauzer_host_ip = "private" => options.hauzer_url # "no hostname"
  /\ hosts' = IF options.hauzer_host_ip = "blank" \/ HasEntry THEN hosts ELSE Appended
  /\ pc' = "signals"
  /\ UNCHANGED <<container, options, stop, threads, faults>>

RefuseHostOverride ==
  /\ pc = "hosts"
  /\ options.hauzer_host_ip = "private" /\ options.hauzer_url = "no hostname"
  /\ ProcessEnds(1)
  /\ UNCHANGED faults

\* OSError from the options or the hosts file.
StartupFails ==
  /\ pc \in {"options", "hosts"}
  /\ Fault
  /\ ProcessEnds(1)

\* Mutant: a registry worker is started also where registry_sync is off.
SetUpAlways ==
  /\ pc = "signals"
  /\ pc' = "worker"
  /\ UNCHANGED <<machine, stop, threads, faults>>

\* The signal handlers, the clients and the service are set up.
SetUp ==
  /\ pc = "signals"
  /\ pc' = IF options.registry_sync = "false" THEN "loop" ELSE "worker"
  /\ UNCHANGED <<machine, stop, threads, faults>>

StartWorker ==
  /\ pc = "worker"
  /\ worker' = "running"
  /\ pc' = "loop"
  /\ UNCHANGED <<machine, stop, delivery, faults>>

\* The worker could not be built, or its thread could not be started.
WorkerNotStarted ==
  /\ pc = "worker"
  /\ Fault
  /\ worker' \in {"none", "unstarted"}
  /\ pc' = "loop"
  /\ UNCHANGED <<machine, stop, delivery>>

-----------------------------------------------------------------------------
(***************************************************************************)
(* The five-minute loop and the end of main.                               *)
(***************************************************************************)
BeginCycle ==
  /\ pc = "loop"
  /\ ~stop
  /\ pc' = "cycle"
  /\ UNCHANGED <<machine, stop, threads, faults>>

\* run_cycle has returned or raised: no exception leaves the loop.
EndCycle ==
  /\ pc = "cycle"
  /\ pc' = IF options.run_once THEN "leave" ELSE "wait"
  /\ UNCHANGED <<machine, stop, threads, faults>>

\* Five minutes are over, or the stop event was set.
EndWait ==
  /\ pc = "wait"
  /\ pc' = "loop"
  /\ UNCHANGED <<machine, stop, threads, faults>>

\* Mutant: join is called on any worker there is; on one never started it raises.
LeaveUnguarded ==
  /\ pc = "leave" \/ (pc = "loop" /\ stop)
  /\ IF worker = "unstarted"
     THEN ProcessEnds(1)
     ELSE IF worker = "none"
          THEN ProcessEnds(0)
          ELSE stop' = TRUE /\ pc' = "join" /\ UNCHANGED <<machine, threads>>
  /\ UNCHANGED faults

Leave ==
  /\ pc = "leave" \/ (pc = "loop" /\ stop)
  /\ IF worker = "running"
     THEN stop' = TRUE /\ pc' = "join" /\ UNCHANGED <<machine, threads>>
     ELSE ProcessEnds(0)
  /\ UNCHANGED faults

\* Mutant: join without a timeout.
JoinForever ==
  /\ pc = "join"
  /\ worker = "ended"
  /\ ProcessEnds(0)
  /\ UNCHANGED faults

\* The worker has ended, or two seconds are over.
Join ==
  /\ pc = "join"
  /\ ProcessEnds(0)
  /\ UNCHANGED faults

-----------------------------------------------------------------------------
(***************************************************************************)
(* The registry threads.  The worker ends only by the stop event; either   *)
(* thread may stay in a call for as long as it likes.                      *)
(***************************************************************************)
StartDelivery ==
  /\ worker = "running"
  /\ ~delivery
  /\ delivery' = TRUE
  /\ UNCHANGED <<machine, pc, stop, worker, faults>>

EndDelivery ==
  /\ delivery
  /\ delivery' = FALSE
  /\ UNCHANGED <<machine, pc, stop, worker, faults>>

EndWorker ==
  /\ worker = "running"
  /\ stop
  /\ worker' = "ended"
  /\ UNCHANGED <<machine, pc, stop, delivery, faults>>

-----------------------------------------------------------------------------
(***************************************************************************)
(* Signals, kills, and the container.                                      *)
(***************************************************************************)
\* SIGTERM or SIGINT: a request to stop once main has installed its handler.
Terminate ==
  /\ pc # "down"
  /\ ~stop
  /\ Fault
  /\ IF pc \in Running
     THEN stop' = TRUE /\ UNCHANGED <<machine, pc, threads>>
     ELSE ProcessEnds(256)

Kill ==
  /\ pc # "down"
  /\ Fault
  /\ ProcessEnds(256)

StopContainer ==
  /\ container = "up"
  /\ Fault
  /\ CASE pc = "down" -> container' = "halted" /\ UNCHANGED <<pc, stop, threads>>
       [] pc \in Starting ->
            container' = "halted" /\ pc' = "down" /\ UNCHANGED <<stop, threads>>
       [] pc \in Running -> container' = "stopping" /\ stop' = TRUE /\ UNCHANGED <<pc, threads>>
  /\ UNCHANGED <<options, hosts>>

\* A new container: its hosts file is written anew, the options may differ.
StartContainer ==
  /\ container = "halted"
  /\ container' = "up"
  /\ options' \in OptionSets
  /\ hosts' \in HostFiles
  /\ UNCHANGED <<pc, stop, threads, faults>>

-----------------------------------------------------------------------------
Main ==
  \/ ReadOptions \/ RefuseOptions \/ InstallHostOverride \/ RefuseHostOverride \/ SetUp
  \/ StartWorker \/ BeginCycle \/ EndCycle \/ EndWait \/ Leave \/ Join

Failure == StartupFails \/ WorkerNotStarted \/ Terminate \/ Kill

Threads == StartDelivery \/ EndDelivery \/ EndWorker

Next == StartService \/ Main \/ Failure \/ Threads \/ StopContainer \/ StartContainer

Spec == Init /\ [][Next]_vars

(***************************************************************************)
(* The main thread keeps running, each cycle ends (its calls have          *)
(* timeouts), and the supervision tree starts the service again.  Nothing  *)
(* is assumed of the registry threads.                                     *)
(***************************************************************************)
FairSpec == Spec /\ WF_vars(Main) /\ WF_vars(StartService)

-----------------------------------------------------------------------------
Types ==
  /\ container \in {"up", "stopping", "halted"}
  /\ options \in Option
  /\ hosts \in HostsFile
  /\ pc \in {"down"} \cup Starting \cup Running
  /\ stop \in BOOLEAN
  /\ worker \in {"none", "unstarted", "running", "ended"}
  /\ delivery \in BOOLEAN
  /\ faults \in 0..MaxFaults

\* There is a registry worker only where the options ask for one.
WorkerWanted == worker # "none" \/ pc = "worker" => options.registry_sync # "false"

(***************************************************************************)
(* Every variable has its type, and the worker belongs to options that     *)
(* want it, across service restarts and containers with other options.     *)
(***************************************************************************)
TypeOK == Types /\ WorkerWanted

(***************************************************************************)
(* Options that are refused leave no trace: no line in /etc/hosts, no      *)
(* thread, no cycle.                                                       *)
(***************************************************************************)
RefusedLeavesNoTrace ==
  ~Accepted => hosts \in HostFiles /\ worker = "none" /\ pc \in {"down", "options"}

(***************************************************************************)
(* With a host override, the file has exactly one line of its own for it   *)
(* by the time anything may use the network, and keeps the lines it had,   *)
(* however often the service is started again in the same container.       *)
(***************************************************************************)
HostOverridden ==
  pc \in Running /\ options.hauzer_host_ip = "private" =>
    \E f \in HostFiles : hosts = [lines |-> Append(f.lines, "override"), ended |-> TRUE]

(***************************************************************************)
(* Once the loop is reached, nothing that happens to the import or to the  *)
(* registry worker ends in an exit code that halts the app.                *)
(***************************************************************************)
NothingHaltsTheLoop ==
  [][container = "up" /\ pc \in Running => container' # "halted"]_vars

(***************************************************************************)
(* The process ends after the stop event, whatever the registry worker and *)
(* its delivery are doing (the timeout of join, daemon threads).           *)
(***************************************************************************)
StopEndsProcess == stop ~> (pc = "down")

(***************************************************************************)
(* DOCS.md: "Registry reads, delivery errors and retry waits do not delay  *)
(* or stop the five-minute utility import loop."  In a container that      *)
(* stays up there is always another cycle, also after exits and kills.     *)
(***************************************************************************)
ImportsGoOn == <>[](container = "up") => []<>(pc = "cycle")

=============================================================================
