----------------------------- MODULE Discovery -----------------------------
(***************************************************************************)
(* discover_utilities (discovery.py): which statistics are imported under  *)
(* which metric, from the overrides of the configuration and three answers *)
(* of Home Assistant that change independently of one another: the energy  *)
(* preferences, the statistics it lists and the states of its entities.    *)
(***************************************************************************)
EXTENDS Naturals

CONSTANTS
  Statistics,     \* statistic ids
  Terms,          \* Terms[s]: the words discovery looks for in the id of s
  OverrideSets,   \* configurations: Metric -> sets of statistics
  Preferences,    \* energy preferences
  Listings,       \* Listings[s]: the rows statistics_metadata may have for s
  States          \* States[s]: the states entity s may have

Metric ==
  {"electricity_consumption", "electricity_grid_export", "gas_consumption", "water_consumption"}
Electricity == {"electricity_consumption", "electricity_grid_export"}

EnergyUnits == {"Wh", "kWh", "MWh"}
VolumeUnits == {"L", "m3"}
NoUnit == ""

Word == {"excluded", "import", "export", "grid", "gas", "water"}
DeviceClass == {"none", "energy", "gas", "water"}
Unit == EnergyUnits \cup VolumeUnits \cup {NoUnit, "other"}

Listing == [unit_of_measurement: Unit, has_sum: BOOLEAN]
State == [total: BOOLEAN, device_class: DeviceClass, unit_of_measurement: Unit]
Source == [type: {"grid", "gas", "water", "other"},
           stat_energy_from: SUBSET Statistics, stat_energy_to: SUBSET Statistics]
Preference == [energy_sources: SUBSET Source, device_consumption_water: SUBSET Statistics]

\* metadata_by_id.get and states_by_id.get of an id they do not have: {}.
Unlisted == [unit_of_measurement |-> NoUnit, has_sum |-> FALSE]
NoState == [total |-> FALSE, device_class |-> "none", unit_of_measurement |-> NoUnit]

ASSUME DiscoveryAssumption ==
  /\ Terms \in [Statistics -> SUBSET Word]
  /\ OverrideSets \subseteq [Metric -> SUBSET Statistics]
  /\ Preferences \subseteq Preference
  /\ \A s \in Statistics : Listings[s] \subseteq Listing /\ States[s] \subseteq State

VARIABLES overrides, preferences, metadata, states

vars == <<overrides, preferences, metadata, states>>

-----------------------------------------------------------------------------
(***************************************************************************)
(* The energy dashboard.                                                   *)
(***************************************************************************)
SourcesOf(type) == {source \in preferences.energy_sources : source.type = type}
EnergyFrom(type) == UNION {source.stat_energy_from : source \in SourcesOf(type)}
EnergyTo(type) == UNION {source.stat_energy_to : source \in SourcesOf(type)}

EnergyDashboardIds(metric) ==
  CASE metric = "electricity_consumption" -> EnergyFrom("grid")
    [] metric = "electricity_grid_export" -> EnergyTo("grid")
    [] metric = "gas_consumption" -> EnergyFrom("gas")
    [] metric = "water_consumption" ->
         EnergyFrom("water") \cup preferences.device_consumption_water

(***************************************************************************)
(* Automatic discovery: a statistic with a sum, in a unit of the metric,   *)
(* is scored by its id and by what the state of its entity says of it.     *)
(***************************************************************************)
\* Mutant: a volume is taken for any metric.
UnitMatchesAny(metric, unit) == unit \in EnergyUnits \cup VolumeUnits

UnitMatches(metric, unit) == unit \in IF metric \in Electricity THEN EnergyUnits ELSE VolumeUnits

ClassOf(metric) ==
  CASE metric \in Electricity -> "energy"
    [] metric = "gas_consumption" -> "gas"
    [] metric = "water_consumption" -> "water"

Keyword(metric) == IF metric \in Electricity THEN "grid" ELSE ClassOf(metric)

\* _electricity_direction_score is not None.
DirectionFits(metric, terms) ==
  CASE metric = "electricity_consumption" -> "import" \in terms /\ "export" \notin terms
    [] metric = "electricity_grid_export" -> "export" \in terms /\ "import" \notin terms
    [] OTHER -> TRUE

Eligible(metric, s) ==
  /\ "excluded" \notin Terms[s]
  /\ UnitMatches(metric, metadata[s].unit_of_measurement)
  /\ metadata[s].has_sum
  /\ DirectionFits(metric, Terms[s])

Worth(points, holds) == IF holds THEN points ELSE 0

Score(metric, s) ==
  3 + Worth(3, metric \in Electricity)
    + Worth(3, states[s].total)
    + Worth(4, states[s].device_class = ClassOf(metric))
    + Worth(2, Keyword(metric) \in Terms[s])

Candidates(metric) == {s \in Statistics : Eligible(metric, s) /\ Score(metric, s) >= 5}

\* Mutant: a state class alone is enough.
ConfidentAtSix(metric) == {s \in Candidates(metric) : Score(metric, s) >= 6}

HighConfidence(metric) == {s \in Candidates(metric) : Score(metric, s) >= 7}

\* Mutant: the candidate with the best score is taken.
TakeBest(metric) ==
  {s \in HighConfidence(metric) :
     \A c \in HighConfidence(metric) \ {s} : Score(metric, c) < Score(metric, s)}

\* The one statistic above doubt, if there is exactly one.
Automatic(metric) == {s \in HighConfidence(metric) : HighConfidence(metric) = {s}}

Ambiguous(metric) ==
  IF Automatic(metric) = {} /\ \E a, b \in Candidates(metric) : a # b
  THEN Candidates(metric)
  ELSE {}

(***************************************************************************)
(* discover_utilities: an override, or else the dashboard, or else the     *)
(* automatic discovery decides what a metric is taken from.                *)
(***************************************************************************)
Chosen(metric) == overrides[metric] # {} \/ EnergyDashboardIds(metric) # {}

Mapped(metric) ==
  IF overrides[metric] # {}
  THEN overrides[metric]
  ELSE IF EnergyDashboardIds(metric) # {}
       THEN EnergyDashboardIds(metric)
       ELSE Automatic(metric)

\* Mutant: the unit the state shows goes before the unit of the statistic.
UnitShown(metric, s) ==
  IF states[s].unit_of_measurement # NoUnit
  THEN states[s].unit_of_measurement
  ELSE metadata[s].unit_of_measurement

DefaultUnit(metric) == IF metric \in Electricity THEN "kWh" ELSE "m3"

UnitFor(metric, s) ==
  IF metadata[s].unit_of_measurement # NoUnit
  THEN metadata[s].unit_of_measurement
  ELSE IF states[s].unit_of_measurement # NoUnit
       THEN states[s].unit_of_measurement
       ELSE DefaultUnit(metric)

-----------------------------------------------------------------------------
Init ==
  /\ overrides \in OverrideSets
  /\ preferences \in Preferences
  /\ metadata = [s \in Statistics |-> Unlisted]
  /\ states = [s \in Statistics |-> NoState]

\* A restart with other options.
Reconfigure ==
  /\ overrides' \in OverrideSets \ {overrides}
  /\ UNCHANGED <<preferences, metadata, states>>

EditDashboard ==
  /\ preferences' \in Preferences \ {preferences}
  /\ UNCHANGED <<overrides, metadata, states>>

ListStatistic(s) ==
  /\ \E row \in Listings[s] \cup {Unlisted} : metadata' = [metadata EXCEPT ![s] = row]
  /\ UNCHANGED <<overrides, preferences, states>>

ReportState(s) ==
  /\ \E state \in States[s] : states' = [states EXCEPT ![s] = state]
  /\ UNCHANGED <<overrides, preferences, metadata>>

\* Entities that have no state, as after a restart of Home Assistant.
LoseStates(lost) ==
  /\ states' = [s \in Statistics |-> IF s \in lost THEN NoState ELSE states[s]]
  /\ UNCHANGED <<overrides, preferences, metadata>>

Next ==
  \/ Reconfigure \/ EditDashboard
  \/ \E s \in Statistics : ListStatistic(s) \/ ReportState(s)
  \/ \E lost \in SUBSET Statistics : LoseStates(lost)

Spec == Init /\ [][Next]_vars

-----------------------------------------------------------------------------
TypeOK ==
  /\ overrides \in [Metric -> SUBSET Statistics]
  /\ preferences \in Preference
  /\ metadata \in [Statistics -> Listing]
  /\ states \in [Statistics -> State]

OnlyStatesLost ==
  /\ \A s \in Statistics : states'[s] \in {states[s], NoState}
  /\ UNCHANGED <<overrides, preferences, metadata>>

(***************************************************************************)
(* Entities that go missing never make discovery switch: what an override  *)
(* or the dashboard names stays, a metric found automatically keeps its    *)
(* statistic or loses it, and a metric that gains one was ambiguous before.*)
(* The import replays a mapping it did not know, so a switch would send    *)
(* another meter's history under the same metric.                          *)
(***************************************************************************)
LostStatesNeverSwitch ==
  [][OnlyStatesLost =>
       \A m \in Metric :
         /\ Chosen(m) => Mapped(m)' = Mapped(m)
         /\ Mapped(m)' \subseteq IF Mapped(m) # {} THEN Mapped(m) ELSE Ambiguous(m)]_vars

(***************************************************************************)
(* Nor do they change the unit, and so the factor, of a statistic found    *)
(* automatically: it is the one the recorder keeps its sum in.  Of a       *)
(* statistic named by an override or the dashboard they do so only when    *)
(* Home Assistant lists no unit for it, and then to the default alone.     *)
(***************************************************************************)
LostStatesKeepUnits ==
  [][OnlyStatesLost =>
       \A m \in Metric : \A s \in Mapped(m) :
         \/ UnitFor(m, s)' = UnitFor(m, s)
         \/ /\ Chosen(m)
            /\ metadata[s].unit_of_measurement = NoUnit
            /\ UnitFor(m, s)' = DefaultUnit(m)]_vars

IsEnergy(s) == metadata[s].unit_of_measurement \notin VolumeUnits \cup {NoUnit}

OnlyVolumesChanged ==
  /\ UNCHANGED <<overrides, preferences>>
  /\ \A s \in Statistics :
       IsEnergy(s) \/ IsEnergy(s)' => metadata'[s] = metadata[s] /\ states'[s] = states[s]

(***************************************************************************)
(* DOCS.md: "Missing or ambiguous gas or water data does not block         *)
(* electricity."  Whatever becomes of a statistic that is a volume before  *)
(* and after, electricity is taken from the same statistics.               *)
(***************************************************************************)
VolumesLeaveElectricity ==
  [][OnlyVolumesChanged => \A m \in Electricity : Mapped(m)' = Mapped(m)]_vars

(***************************************************************************)
(* Automatic discovery never takes one meter for both directions, nor for  *)
(* both gas and water unless its id and its device class contradict each   *)
(* other or its id names both.  An override or the dashboard may.          *)
(***************************************************************************)
OneMetric ==
  /\ Automatic("electricity_consumption") \cap Automatic("electricity_grid_export") = {}
  /\ \A s \in Automatic("gas_consumption") \cap Automatic("water_consumption") :
       {"gas", "water"} \subseteq Terms[s] \cup {states[s].device_class}

=============================================================================
