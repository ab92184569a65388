--------------------------- MODULE ExporterProofs ---------------------------
(***************************************************************************)
(* Proofs about the start and the end of the process, for every set of     *)
(* options, every hosts file and any number of faults.                     *)
(***************************************************************************)
EXTENDS ExporterMain, TLAPS

\* /etc/hosts is as the container got it, or has one more line.
Extended(f) == [lines |-> Append(f.lines, "override"), ended |-> TRUE]

HostsKnown == hosts \in HostFiles \/ \E f \in HostFiles : hosts = Extended(f)

HostsInvariant ==
  /\ HostsKnown
  /\ pc \in Running \cup {"signals"} /\ options.hauzer_host_ip = "private" => HasEntry

\* A halted container has no process, no thread lives before main's loop, and
\* the worker is one the options ask for.
ProcessInvariant ==
  /\ container = "halted" => pc = "down"
  /\ pc \in {"down"} \cup Starting => worker = "none"
  /\ WorkerWanted

ExporterInvariant == Types /\ RefusedLeavesNoTrace /\ HostsInvariant

-----------------------------------------------------------------------------
LEMMA NewHostsHaveNoEntry ==
  ASSUME NEW f \in HostFiles
  PROVE  /\ f \in HostsFile
         /\ \A i \in DOMAIN f.lines : f.lines[i] = "localhost"
BY ExporterAssumption

LEMMA ExtendedHasEntry ==
  ASSUME NEW f \in HostFiles
  PROVE  /\ Extended(f) \in HostsFile
         /\ Extended(f).lines[Len(f.lines) + 1] = "override"
         /\ Len(f.lines) + 1 \in DOMAIN Extended(f).lines
<1>1. f.lines \in Seq({"localhost", "override"})
  BY NewHostsHaveNoEntry DEF HostsFile
<1>2. Append(f.lines, "override") \in Seq({"localhost", "override"})
  BY <1>1
<1>3. /\ Append(f.lines, "override")[Len(f.lines) + 1] = "override"
      /\ Len(f.lines) + 1 \in DOMAIN Append(f.lines, "override")
  BY <1>1
<1> QED
  BY <1>2, <1>3 DEF Extended, HostsFile

\* The file has the entry just when the override was appended to it.
LEMMA EntryMeansExtended ==
  ASSUME HostsKnown
  PROVE  /\ HasEntry => \E f \in HostFiles : hosts = Extended(f)
         /\ ~HasEntry => hosts \in HostFiles
         /\ HostsKnown
<1>1. hosts \in HostFiles => ~HasEntry
  BY NewHostsHaveNoEntry DEF HasEntry
<1>2. ASSUME NEW f \in HostFiles, hosts = Extended(f)
      PROVE  HasEntry
  BY <1>2, ExtendedHasEntry DEF HasEntry
<1> QED
  BY <1>1, <1>2 DEF HostsKnown

LEMMA InvariantInit == Init => ExporterInvariant
<1> SUFFICES ASSUME Init PROVE ExporterInvariant
  OBVIOUS
<1>1. hosts \in HostsFile
  BY NewHostsHaveNoEntry DEF Init
<1>2. options \in Option /\ faults \in 0..MaxFaults
  BY ExporterAssumption DEF Init
<1>3. Types
  BY <1>1, <1>2 DEF Init, Types
<1> QED
  BY <1>3 DEF Init, ExporterInvariant, RefusedLeavesNoTrace, HostsInvariant, HostsKnown, Running

\* A process that ends leaves the files of its container alone.
LEMMA ProcessEndsKeeps ==
  ASSUME ExporterInvariant, NEW code, ProcessEnds(code), faults' \in 0..MaxFaults
  PROVE  ExporterInvariant'
<1>1. Types'
  BY DEF ProcessEnds, ExporterInvariant, Types
<1>2. hosts' = hosts /\ options' = options /\ pc' = "down" /\ worker' = "none"
  BY DEF ProcessEnds
<1> QED
  BY <1>1, <1>2 DEF ExporterInvariant, RefusedLeavesNoTrace, HostsInvariant, HostsKnown, Running,
     Accepted, UrlValid, TokenValid, HostIpValid, VerifyTlsValid, BackfillValid, RegistrySyncValid, OverridesValid

LEMMA FaultType == Types /\ Fault => faults' \in 0..MaxFaults
BY ExporterAssumption DEF Types, Fault

LEMMA ProcessInit == Init => ProcessInvariant
BY DEF Init, ProcessInvariant, WorkerWanted

LEMMA ProcessStep == Types /\ ProcessInvariant /\ [Next]_vars => ProcessInvariant'
<1> SUFFICES ASSUME Types, ProcessInvariant, [Next]_vars PROVE ProcessInvariant'
  OBVIOUS
<1> USE DEF ProcessInvariant, WorkerWanted, Running, Starting
<1>1. ASSUME NEW code, ProcessEnds(code)
      PROVE  ProcessInvariant'
  BY <1>1 DEF ProcessEnds
<1>2. CASE StartService
  BY <1>2 DEF StartService, machine, threads
<1>3. CASE \/ ReadOptions \/ InstallHostOverride \/ SetUp \/ StartWorker \/ WorkerNotStarted
           \/ BeginCycle \/ EndCycle \/ EndWait
  BY <1>3 DEF ReadOptions, InstallHostOverride, SetUp, StartWorker, WorkerNotStarted,
     BeginCycle, EndCycle, EndWait, machine, threads
<1>4. CASE RefuseOptions \/ RefuseHostOverride \/ StartupFails \/ Join \/ Kill
  BY <1>1, <1>4 DEF RefuseOptions, RefuseHostOverride, StartupFails, Join, Kill
<1>5. CASE Leave
  <2>1. CASE worker = "running"
    BY <1>5, <2>1 DEF Leave, machine, threads
  <2>2. CASE worker # "running"
    BY <1>1, <1>5, <2>2 DEF Leave
  <2> QED
    BY <2>1, <2>2
<1>6. CASE Threads
  BY <1>6 DEF Threads, StartDelivery, EndDelivery, EndWorker, machine
<1>7. CASE Terminate
  <2>1. CASE pc \in Running
    BY <1>7, <2>1 DEF Terminate, machine, threads
  <2>2. CASE pc \notin Running
    BY <1>1, <1>7, <2>2 DEF Terminate
  <2> QED
    BY <2>1, <2>2
<1>8. CASE StopContainer
  <2>1. CASE pc = "down"
    BY <1>8, <2>1 DEF StopContainer, threads
  <2>2. CASE pc \in Starting
    BY <1>8, <2>2 DEF StopContainer, threads
  <2>3. CASE pc \in Running
    BY <1>8, <2>3 DEF StopContainer, threads
  <2> QED
    BY <2>1, <2>2, <2>3 DEF Types
<1>9. CASE StartContainer
  BY <1>9 DEF StartContainer, threads
<1>10. CASE UNCHANGED vars
  BY <1>10 DEF vars
<1> QED
  BY <1>2, <1>3, <1>4, <1>5, <1>6, <1>7, <1>8, <1>9, <1>10 DEF Next, Main, Failure

LEMMA InvariantStep ==
  ProcessInvariant /\ ExporterInvariant /\ [Next]_vars => ExporterInvariant'
<1> SUFFICES ASSUME ProcessInvariant, ExporterInvariant, [Next]_vars PROVE ExporterInvariant'
  OBVIOUS
<1> USE DEF ExporterInvariant
<1>1. faults \in 0..MaxFaults /\ (Fault => faults' \in 0..MaxFaults)
  BY FaultType DEF Types
<1>2. options' = options => Accepted' = Accepted
  BY DEF Accepted, UrlValid, TokenValid, HostIpValid, VerifyTlsValid, BackfillValid, RegistrySyncValid, OverridesValid
\* Within a container whose options are accepted.
<1>3. ASSUME options' = options, hosts' = hosts, Types', Accepted,
             pc' \in Running \cup {"signals"} =>
               pc \in Running \cup {"signals"} \/ options.hauzer_host_ip = "blank"
      PROVE  ExporterInvariant'
  BY <1>2, <1>3 DEF RefusedLeavesNoTrace, HostsInvariant, HostsKnown, HasEntry
<1>4. pc \notin {"down", "options"} \/ worker # "none" => Accepted
  BY DEF RefusedLeavesNoTrace
<1>5. CASE StartService
  <2>1. Types'
    BY <1>5 DEF StartService, machine, threads, Types, Starting
  <2> QED
    BY <1>2, <1>5, <2>1 DEF StartService, machine, threads, RefusedLeavesNoTrace,
       HostsInvariant, HostsKnown, Running
<1>6. CASE ReadOptions
  <2>1. Types'
    BY <1>6 DEF ReadOptions, machine, threads, Types, Starting
  <2> QED
    BY <1>3, <1>6, <2>1 DEF ReadOptions, machine, Running
<1>7. CASE RefuseOptions \/ RefuseHostOverride \/ StartupFails \/ Join \/ Kill
  BY <1>1, <1>7, ProcessEndsKeeps
     DEF RefuseOptions, RefuseHostOverride, StartupFails, Join, Kill
<1>8. CASE InstallHostOverride
  <2>1. CASE options.hauzer_host_ip = "blank" \/ HasEntry
    <3>1. hosts' = hosts /\ options' = options /\ pc' = "signals" /\ UNCHANGED threads
      BY <1>8, <2>1 DEF InstallHostOverride
    <3>2. Types' /\ Accepted
      BY <1>4, <1>8, <3>1 DEF InstallHostOverride, threads, Types, Starting
    <3> QED
      BY <1>2, <2>1, <3>1, <3>2 DEF RefusedLeavesNoTrace, HostsInvariant, HostsKnown, HasEntry
  <2>2. CASE options.hauzer_host_ip # "blank" /\ ~HasEntry
    <3>1. hosts \in HostFiles /\ hosts' = Extended(hosts)
      BY <1>8, <2>2, EntryMeansExtended DEF InstallHostOverride, HostsInvariant, Appended, Extended
    <3>2. HostsKnown' /\ hosts' \in HostsFile /\ HasEntry'
      BY <3>1, ExtendedHasEntry DEF HostsKnown, HasEntry
    <3>3. /\ pc = "hosts" /\ pc' = "signals" /\ UNCHANGED threads
          /\ UNCHANGED <<container, options, stop, faults>>
      BY <1>8 DEF InstallHostOverride
    <3>4. Types'
      BY <3>2, <3>3 DEF threads, Types, Starting
    <3>5. Accepted'
      BY <1>2, <1>4, <3>3
    <3> QED
      BY <3>2, <3>4, <3>5 DEF RefusedLeavesNoTrace, HostsInvariant
  <2> QED
    BY <2>1, <2>2
<1>9. CASE SetUp \/ StartWorker \/ WorkerNotStarted \/ BeginCycle \/ EndCycle \/ EndWait
  <2>1. /\ options' = options /\ hosts' = hosts /\ container' = container /\ Accepted
        /\ pc \in Running \cup {"signals"} /\ pc' \in Running
        /\ stop' = stop /\ delivery' = delivery
    BY <1>4, <1>9 DEF SetUp, StartWorker, WorkerNotStarted, BeginCycle, EndCycle, EndWait,
       machine, threads, Running
  <2>2. worker' \in {"none", "unstarted", "running", "ended"} /\ faults' \in 0..MaxFaults
    BY <1>1, <1>9 DEF SetUp, StartWorker, WorkerNotStarted, BeginCycle, EndCycle, EndWait,
       threads, Types
  <2> QED
    BY <1>3, <2>1, <2>2 DEF Types
<1>10. CASE Leave
  <2>1. CASE worker = "running"
    <3>1. /\ UNCHANGED machine /\ UNCHANGED threads /\ stop' = TRUE /\ pc' = "join" /\ Accepted
          /\ pc \in Running /\ faults' = faults
      BY <1>4, <1>10, <2>1 DEF Leave, Running
    <3> QED
      BY <1>3, <3>1 DEF machine, threads, Types, Running
  <2>2. CASE worker # "running"
    BY <1>1, <1>10, <2>2, ProcessEndsKeeps DEF Leave
  <2> QED
    BY <2>1, <2>2
<1>11. CASE Threads
  <2>1. /\ UNCHANGED machine /\ pc' = pc /\ stop' = stop /\ faults' = faults
        /\ worker' \in {worker, "ended"} /\ delivery' \in BOOLEAN
        /\ worker = "none" => worker' = "none"
    BY <1>11 DEF Threads, StartDelivery, EndDelivery, EndWorker, Types
  <2>2. Types'
    BY <2>1 DEF machine, Types
  <2> QED
    BY <1>2, <2>1, <2>2 DEF machine, RefusedLeavesNoTrace, HostsInvariant, HostsKnown, HasEntry
<1>12. CASE Terminate
  <2>1. CASE pc \in Running
    <3>1. UNCHANGED machine /\ UNCHANGED threads /\ stop' = TRUE /\ pc' = pc /\ Fault
      BY <1>12, <2>1 DEF Terminate
    <3>2. Types' /\ Accepted
      BY <1>1, <1>4, <2>1, <3>1 DEF machine, threads, Types, Running
    <3> QED
      BY <1>3, <2>1, <3>1, <3>2 DEF machine
  <2>2. CASE pc \notin Running
    BY <1>1, <1>12, <2>2, ProcessEndsKeeps DEF Terminate
  <2> QED
    BY <2>1, <2>2
<1>13. CASE StopContainer
  <2>1. /\ UNCHANGED <<options, hosts>> /\ UNCHANGED threads /\ Fault
        /\ container' \in {"halted", "stopping"} /\ stop' \in BOOLEAN
        /\ pc' \in {pc, "down"}
    <3>1. CASE pc = "down"
      BY <1>13, <3>1 DEF StopContainer, Types
    <3>2. CASE pc \in Starting
      BY <1>13, <3>2 DEF StopContainer, Types, Starting
    <3>3. CASE pc \in Running
      BY <1>13, <3>3 DEF StopContainer, Types, Running
    <3> QED
      BY <3>1, <3>2, <3>3 DEF Types
  <2>2. Types'
    BY <1>1, <2>1 DEF threads, Types
  <2> QED
    BY <1>2, <2>1, <2>2 DEF threads, RefusedLeavesNoTrace, HostsInvariant, HostsKnown, HasEntry,
       Running
<1>14. CASE StartContainer
  <2>1. hosts' \in HostFiles /\ options' \in OptionSets /\ pc' = pc /\ UNCHANGED threads
    BY <1>14 DEF StartContainer
  <2>2. Types'
    BY <1>14, <2>1, NewHostsHaveNoEntry, ExporterAssumption DEF StartContainer, threads, Types
  <2>3. pc = "down" /\ worker = "none"
    BY <1>14 DEF StartContainer, ProcessInvariant
  <2> QED
    BY <2>1, <2>2, <2>3 DEF threads, RefusedLeavesNoTrace, HostsInvariant, HostsKnown, Running
<1>15. CASE UNCHANGED vars
  BY <1>2, <1>15 DEF vars, Types, RefusedLeavesNoTrace, HostsInvariant, HostsKnown, HasEntry
<1> QED
  BY <1>5, <1>6, <1>7, <1>8, <1>9, <1>10, <1>11, <1>12, <1>13, <1>14, <1>15
     DEF Next, Main, Failure

-----------------------------------------------------------------------------
LEMMA InvariantHolds == Spec => [](ProcessInvariant /\ ExporterInvariant)
<1>1. Init => ProcessInvariant /\ ExporterInvariant
  BY ProcessInit, InvariantInit
<1>2. ProcessInvariant /\ ExporterInvariant /\ [Next]_vars
        => (ProcessInvariant /\ ExporterInvariant)'
  BY ProcessStep, InvariantStep DEF ExporterInvariant
<1> QED
  BY <1>1, <1>2, PTL DEF Spec

(***************************************************************************)
(* Every variable keeps its type, and the worker is one the options want.  *)
(***************************************************************************)
THEOREM ExporterTypeCorrect == Spec => []TypeOK
<1>1. ProcessInvariant /\ ExporterInvariant => TypeOK
  BY DEF ProcessInvariant, ExporterInvariant, TypeOK
<1> QED
  BY <1>1, InvariantHolds, PTL

(***************************************************************************)
(* Refused options change no file and start nothing.                       *)
(***************************************************************************)
THEOREM NoTraceOfRefusal == Spec => []RefusedLeavesNoTrace
BY InvariantHolds, PTL DEF ExporterInvariant

(***************************************************************************)
(* A host override is in the file, once and on a line of its own, before   *)
(* anything uses the network.                                              *)
(***************************************************************************)
THEOREM OverrideInstalled == Spec => []HostOverridden
<1>1. ExporterInvariant => HostOverridden
  <2> SUFFICES ASSUME ExporterInvariant, pc \in Running, options.hauzer_host_ip = "private"
               PROVE  \E f \in HostFiles :
                        hosts = [lines |-> Append(f.lines, "override"), ended |-> TRUE]
    BY DEF HostOverridden
  <2>1. HostsKnown /\ HasEntry
    BY DEF ExporterInvariant, HostsInvariant
  <2> QED
    BY <2>1, EntryMeansExtended DEF Extended
<1> QED
  BY <1>1, InvariantHolds, PTL

(***************************************************************************)
(* Whatever happens to the import or the registry worker, the loop never   *)
(* ends in a halted app (NothingHaltsTheLoop).                             *)
(***************************************************************************)
THEOREM LoopIsNotHalted == Spec => NothingHaltsTheLoop
<1>1. ASSUME [Next]_vars, container = "up", pc \in Running
      PROVE  container' # "halted"
  <2> USE DEF Running
  <2>1. ProcessEnds(0) \/ ProcessEnds(256) => container' # "halted"
    BY <1>1 DEF ProcessEnds, Halts
  <2>2. CASE UNCHANGED container
    BY <1>1, <2>2
  <2>3. CASE Main
    BY <1>1, <2>1, <2>2, <2>3 DEF Main, ReadOptions, RefuseOptions, InstallHostOverride,
       RefuseHostOverride, SetUp, StartWorker, BeginCycle, EndCycle, EndWait, Leave, Join, machine
  <2>4. CASE Failure
    BY <1>1, <2>1, <2>2, <2>4 DEF Failure, StartupFails, WorkerNotStarted, Terminate, Kill, machine
  <2>5. CASE Threads
    BY <2>2, <2>5 DEF Threads, StartDelivery, EndDelivery, EndWorker, machine
  <2>6. CASE StopContainer
    BY <1>1, <2>6 DEF StopContainer, Starting
  <2> QED
    BY <1>1, <2>2, <2>3, <2>4, <2>5, <2>6
       DEF Next, vars, StartService, StartContainer, machine
<1>2. [Next]_vars => [container = "up" /\ pc \in Running => container' # "halted"]_vars
  BY <1>1
<1> QED
  BY <1>2, PTL DEF Spec, NothingHaltsTheLoop

=============================================================================
