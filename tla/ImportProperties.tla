-------------------------- MODULE ImportProperties --------------------------
(***************************************************************************)
(* What the five-minute utility import promises, stated over ImportService.*)
(***************************************************************************)
EXTENDS ImportService

CONSTANT Electricity    \* the keys whose metric is one of electricity

ASSUME ElectricityAssumption == Electricity \subseteq Keys

SlotRange == 0 .. MaxNow - 1

FileContent == ImportState \cup {Absent, Torn}

TypeOK ==
  /\ now \in 0..MaxNow
  /\ offered \in SUBSET Keys
  /\ rows \in [Keys -> SUBSET SlotRange]
  /\ received \in [Keys -> SUBSET SlotRange]
  /\ disk \in FileContent
  /\ durable \in FileContent
  /\ tmp \in FileContent
  /\ pc \in {"idle", "discover", "window", "post", "posting", "save", "flush", "replace", "down"}
  /\ cfg \in Backfills
  /\ stop \in BOOLEAN
  /\ wend \in 0..MaxNow
  /\ loaded \in ImportState
  /\ maps \in SUBSET Keys
  /\ todo \in SUBSET (Keys \X SlotRange)
  /\ batch \in SUBSET todo
  /\ pc # "posting" => batch = {}
  /\ fetchedTo \in -1..MaxNow
  /\ late \in [Keys -> SUBSET SlotRange]
  /\ faults \in 0..MaxFaults
  /\ changes \in 0..MaxChanges
  /\ jumps \in 0..MaxJumps

-----------------------------------------------------------------------------
(***************************************************************************)
(* The state file is never seen half-written, whatever the moment of a     *)
(* crash, a loss of power or a failed write: ImportState.load never has a  *)
(* file of the app's own making to refuse.                                 *)
(***************************************************************************)
StateFileIsWhole == Torn \notin {disk, durable}

(***************************************************************************)
(* The cursor of a state covers slot s of key k if Hauzer has taken it, or *)
(* there was nothing to send when the recorder was read past it.           *)
(***************************************************************************)
Covered(state) ==
  \A k \in state.mapping_keys :
    /\ state.window_end <= fetchedTo
    /\ \A s \in rows[k] :
         state.since[k] <= s /\ s < state.window_end => s \in received[k] \cup late[k]

(***************************************************************************)
(* The durable cursor never runs ahead of Hauzer.  In every reachable      *)
(* state, also after a crash, a failed batch, a replay or a lost rename,   *)
(* every slot the cursor has passed since its mapping was taken up either  *)
(* is at Hauzer or was recorded only after the recorder had been read.     *)
(***************************************************************************)
CursorCovers ==
  \A file \in {disk, durable} : file \in ImportState => Covered(file)

-----------------------------------------------------------------------------
(***************************************************************************)
(* The import as its state file is read: the slots a file says need not be *)
(* sent.  A file that ImportState.load refuses says nothing.               *)
(***************************************************************************)
Claim(file) ==
  IF file \in ImportState
  THEN {p \in Keys \X SlotRange : /\ p[1] \in file.mapping_keys
                                  /\ file.since[p[1]] <= p[2]
                                  /\ p[2] < file.window_end}
  ELSE {}

Contract == INSTANCE ImportContract
  WITH Slots <- SlotRange, recorded <- rows, horizon <- fetchedTo,
       promised <- Claim(disk), fallback <- Claim(durable)

(***************************************************************************)
(* Every step of the import is a step of the contract or of none of its    *)
(* business: no step hands over what was not read, promises what is not    *)
(* settled, or brings back a promise other than the last one flushed       *)
(* (run_cycle, save_atomic).                                               *)
(***************************************************************************)
ImplementsContract == Contract!Spec

-----------------------------------------------------------------------------

(***************************************************************************)
(* A mapping is written down as known only when Hauzer has taken readings  *)
(* of it; with a replay that found nothing it would never be replayed.     *)
(***************************************************************************)
KnownMappingsWereSent ==
  \A file \in {disk, durable} :
    file \in ImportState => \A k \in file.mapping_keys : received[k] # {}

(***************************************************************************)
(* Saving never moves the cursor back, although load rewinds it in memory  *)
(* for a raised backfill and run_cycle for a changed mapping; only a lost  *)
(* rename or an adjusted clock does.                                       *)
(***************************************************************************)
SavesNeverRewind ==
  [][ReplaceFile /\ disk # Absent /\ jumps = 0 => disk'.window_end >= disk.window_end]_vars

-----------------------------------------------------------------------------
(***************************************************************************)
(* The strengthening that makes CursorCovers and KnownMappingsWereSent     *)
(* inductive: what a cycle under way has established before it saves.      *)
(***************************************************************************)
Fetched == pc \in {"post", "posting", "save", "flush", "replace"}

\* Every row of the window was sent, is still to be sent, or came too late.
WindowAccountedFor ==
  Fetched =>
    /\ wend <= fetchedTo
    /\ \A k \in maps : \A s \in rows[k] :
         WindowStart <= s /\ s < wend => <<k, s>> \in todo \/ s \in received[k] \cup late[k]
    /\ \A k \in maps : received[k] # {} \/ \E s \in SlotRange : <<k, s>> \in todo

AllPosted == pc \in {"save", "flush", "replace"} => todo = {}

ReadyToReplace == pc = "replace" => tmp = CompletedState

LoadedCovers ==
  /\ Covered(loaded)
  /\ \A k \in loaded.mapping_keys : received[k] # {}

CycleInvariant ==
  /\ StateFileIsWhole
  /\ CursorCovers
  /\ KnownMappingsWereSent
  /\ LoadedCovers
  /\ WindowAccountedFor
  /\ AllPosted
  /\ ReadyToReplace

-----------------------------------------------------------------------------
KnownMappings == IF disk = Absent THEN {} ELSE disk.mapping_keys

ReplayStart == IF disk = Absent THEN now - cfg ELSE MinOf(disk.window_end, now - cfg)

\* A replay is due, and one of these mappings has no row to show for it.
HeldBackBy(keys) ==
  /\ offered # KnownMappings
  /\ \E k \in offered \cap keys : rows[k] \cap (ReplayStart .. now - 1) = {}

ReplayHeldBack == HeldBackBy(Keys)

\* The slots of key k a cycle that started now would still send.
WithinReach(k, s) ==
  IF k \in KnownMappings THEN disk.window_end <= s ELSE now - cfg <= s

\* Slot s of a known key was recorded too late: the cursor has passed it.
Overtaken(k, s) == k \in KnownMappings /\ s \in late[k] /\ s < disk.window_end

Expired(k, s) == k \notin KnownMappings /\ s < now - cfg

\* A recorded slot of an offered mapping that the cursor has still to pass.
Awaited(k, s) == k \in offered /\ s \in rows[k] /\ WithinReach(k, s)

(***************************************************************************)
(* Every rejected reading that may be sent lies so far behind slot s that  *)
(* no batch holds both, wherever the batches are cut.                      *)
(***************************************************************************)
AheadOfRejected(s) ==
  \A r \in Rejected :
    r[1] \in offered /\ r[2] \in rows[r[1]] =>
      /\ s < r[2]
      /\ Cardinality({q \in offered \X (s + 1 .. r[2] - 1) : q[2] \in rows[q[1]]}) + 1 >= BatchSize

(***************************************************************************)
(* A recorded slot within reach of the cursor does arrive at Hauzer, past  *)
(* any finite number of failed calls, crashes and restarts, provided its   *)
(* mapping is offered in the end, no replay stays held back for want of    *)
(* rows of another mapping, and it is ahead of every reading Hauzer would  *)
(* reject.  Only a cursor that has overtaken it, or a backfill window it   *)
(* has left before its mapping was imported, stop it.                      *)
(***************************************************************************)
RecordedSlotArrives ==
  \A k \in Keys, s \in SlotRange :
    <>[](k \in offered /\ ~ReplayHeldBack /\ AheadOfRejected(s))
      => (Awaited(k, s) ~> (s \in received[k] \/ Overtaken(k, s) \/ Expired(k, s)))

(***************************************************************************)
(* DOCS.md: "Missing or ambiguous gas or water data does not block         *)
(* electricity."  As above for a slot of an electricity mapping, whatever  *)
(* the gas and water mappings have to show: only an electricity mapping    *)
(* without rows may hold the replay back.                                  *)
(***************************************************************************)
MissingDataDoesNotBlock ==
  \A k \in Electricity, s \in SlotRange :
    <>[](k \in offered /\ ~HeldBackBy(Electricity) /\ AheadOfRejected(s))
      => (Awaited(k, s) ~> (s \in received[k] \/ Overtaken(k, s) \/ Expired(k, s)))

(***************************************************************************)
(* DOCS.md: the app "sends completed utility intervals to Hauzer".  A slot *)
(* recorded for a known mapping arrives even if the recorder was slow.     *)
(***************************************************************************)
CompletedIntervalsAreSent ==
  \A k \in Keys, s \in SlotRange :
    <>[](k \in offered /\ ~ReplayHeldBack)
      => ((k \in KnownMappings /\ s \in rows[k] /\ disk.since[k] <= s) ~> s \in received[k])

=============================================================================
