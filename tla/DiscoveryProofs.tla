-------------------------- MODULE DiscoveryProofs --------------------------
(***************************************************************************)
(* Proofs about discovery, for every catalogue of statistics and every     *)
(* configuration.                                                          *)
(***************************************************************************)
EXTENDS Discovery, TLAPS

LEMMA Init_TypeOK == Init => TypeOK
<1> SUFFICES ASSUME Init PROVE TypeOK
  OBVIOUS
<1>1. Unlisted \in Listing /\ NoState \in State
  BY DEF Unlisted, NoState, Listing, State, NoUnit, Unit, EnergyUnits, VolumeUnits, DeviceClass
<1> QED
  BY <1>1, DiscoveryAssumption DEF Init, TypeOK

LEMMA Next_TypeOK == TypeOK /\ [Next]_vars => TypeOK'
<1> SUFFICES ASSUME TypeOK, [Next]_vars PROVE TypeOK'
  OBVIOUS
<1> USE DEF TypeOK
<1>1. Unlisted \in Listing /\ NoState \in State
  BY DEF Unlisted, NoState, Listing, State, NoUnit, Unit, EnergyUnits, VolumeUnits, DeviceClass
<1>2. CASE Reconfigure
  BY <1>2, DiscoveryAssumption DEF Reconfigure
<1>3. CASE EditDashboard
  BY <1>3, DiscoveryAssumption DEF EditDashboard
<1>4. ASSUME NEW s \in Statistics, ListStatistic(s)
      PROVE  TypeOK'
  BY <1>1, <1>4, DiscoveryAssumption DEF ListStatistic
<1>5. ASSUME NEW s \in Statistics, ReportState(s)
      PROVE  TypeOK'
  BY <1>5, DiscoveryAssumption DEF ReportState
<1>6. ASSUME NEW lost \in SUBSET Statistics, LoseStates(lost)
      PROVE  TypeOK'
  BY <1>1, <1>6 DEF LoseStates
<1>7. CASE UNCHANGED vars
  BY <1>7 DEF vars
<1> QED
  BY <1>2, <1>3, <1>4, <1>5, <1>6, <1>7 DEF Next

(***************************************************************************)
(* Overrides, preferences, metadata and states keep their types.           *)
(***************************************************************************)
THEOREM DiscoveryTypeCorrect == Spec => []TypeOK
BY Init_TypeOK, Next_TypeOK, PTL DEF Spec

-----------------------------------------------------------------------------
(***************************************************************************)
(* A state that goes missing takes points away and never adds any.         *)
(***************************************************************************)
LEMMA LostStatesLowerScores ==
  ASSUME OnlyStatesLost, NEW m \in Metric, NEW s \in Statistics
  PROVE  Score(m, s)' <= Score(m, s)
<1>1. states'[s] = states[s] \/ states'[s] = NoState
  BY DEF OnlyStatesLost
<1>2. ClassOf(m) # "none"
  BY DEF ClassOf, Metric, Electricity
<1>3. CASE states'[s] = states[s]
  BY <1>3 DEF Score, Worth
<1>4. CASE states'[s] = NoState
  <2>1. states'[s].total = FALSE /\ states'[s].device_class # ClassOf(m)
    BY <1>2, <1>4 DEF NoState
  <2> QED
    BY <2>1 DEF Score, Worth
<1> QED
  BY <1>1, <1>3, <1>4

LEMMA LostStatesLoseConfidence ==
  ASSUME OnlyStatesLost, NEW m \in Metric
  PROVE  HighConfidence(m)' \subseteq HighConfidence(m)
<1> SUFFICES ASSUME NEW s \in Statistics, Eligible(m, s)', Score(m, s)' >= 5, Score(m, s)' >= 7
             PROVE  Eligible(m, s) /\ Score(m, s) >= 5 /\ Score(m, s) >= 7
  BY DEF HighConfidence, Candidates
<1>1. Eligible(m, s)
  BY DEF OnlyStatesLost, Eligible
<1>2. Score(m, s) \in Nat /\ Score(m, s)' \in Nat
  BY DEF Score, Worth
<1> QED
  BY <1>1, <1>2, LostStatesLowerScores

LEMMA LostStatesKeepChoice ==
  ASSUME OnlyStatesLost, NEW m \in Metric
  PROVE  /\ Chosen(m)' <=> Chosen(m)
         /\ Chosen(m) => Mapped(m)' = Mapped(m)
<1>1. overrides' = overrides /\ preferences' = preferences
  BY DEF OnlyStatesLost
<1>2. EnergyDashboardIds(m)' = EnergyDashboardIds(m)
  BY <1>1 DEF EnergyDashboardIds, EnergyFrom, EnergyTo, SourcesOf
<1> QED
  BY <1>1, <1>2 DEF Chosen, Mapped

LEMMA LostStatesKeepAutomatic ==
  ASSUME OnlyStatesLost, NEW m \in Metric
  PROVE  Automatic(m)' \subseteq IF Automatic(m) # {} THEN Automatic(m) ELSE Ambiguous(m)
<1> SUFFICES ASSUME NEW s, s \in Automatic(m)'
             PROVE  s \in IF Automatic(m) # {} THEN Automatic(m) ELSE Ambiguous(m)
  OBVIOUS
<1>1. s \in HighConfidence(m)
  BY LostStatesLoseConfidence DEF Automatic
<1>2. CASE Automatic(m) # {}
  <2>1. PICK a : HighConfidence(m) = {a} /\ Automatic(m) = {a}
    BY <1>2 DEF Automatic
  <2> QED
    BY <1>1, <1>2, <2>1
<1>3. CASE Automatic(m) = {}
  <2>1. PICK b \in HighConfidence(m) : b # s
    BY <1>1, <1>3 DEF Automatic
  <2>2. s \in Candidates(m) /\ b \in Candidates(m)
    BY <1>1, <2>1 DEF HighConfidence
  <2> QED
    BY <1>3, <2>1, <2>2 DEF Ambiguous
<1> QED
  BY <1>2, <1>3

(***************************************************************************)
(* Whatever the catalogue, entities that go missing never make a metric    *)
(* switch to another statistic (LostStatesNeverSwitch).                    *)
(***************************************************************************)
THEOREM NoSwitchOnLoss == Spec => LostStatesNeverSwitch
<1> DEFINE Kept(m) ==
      /\ Chosen(m) => Mapped(m)' = Mapped(m)
      /\ Mapped(m)' \subseteq IF Mapped(m) # {} THEN Mapped(m) ELSE Ambiguous(m)
<1>1. ASSUME OnlyStatesLost, NEW m \in Metric
      PROVE  Kept(m)
  <2>1. CASE Chosen(m)
    <3>1. Mapped(m)' = Mapped(m) /\ Mapped(m) # {}
      BY <1>1, <2>1, LostStatesKeepChoice DEF Chosen, Mapped
    <3> QED
      BY <2>1, <3>1
  <2>2. CASE ~Chosen(m)
    <3>1. ~Chosen(m)'
      BY <1>1, <2>2, LostStatesKeepChoice
    <3>2. Mapped(m) = Automatic(m) /\ Mapped(m)' = Automatic(m)'
      BY <2>2, <3>1 DEF Chosen, Mapped
    <3> QED
      BY <1>1, <2>2, <3>2, LostStatesKeepAutomatic
  <2> QED
    BY <2>1, <2>2
<1>2. [Next]_vars => [OnlyStatesLost => \A m \in Metric : Kept(m)]_vars
  BY <1>1
<1> QED
  BY <1>2, PTL DEF Spec, LostStatesNeverSwitch

(***************************************************************************)
(* No meter is found automatically in both directions, nor as both gas and *)
(* water without evidence for both (OneMetric).                            *)
(***************************************************************************)
THEOREM OneMetricEach == Spec => []OneMetric
<1>1. OneMetric
  <2>1. Automatic("electricity_consumption") \cap Automatic("electricity_grid_export") = {}
    BY DEF Automatic, HighConfidence, Candidates, Eligible, DirectionFits
  <2>2. ASSUME NEW s \in Automatic("gas_consumption"), s \in Automatic("water_consumption")
        PROVE  {"gas", "water"} \subseteq Terms[s] \cup {states[s].device_class}
    <3>1. Score("gas_consumption", s) >= 7 /\ Score("water_consumption", s) >= 7
      BY <2>2 DEF Automatic, HighConfidence
    <3>2. /\ ClassOf("gas_consumption") = "gas" /\ ClassOf("water_consumption") = "water"
          /\ "gas_consumption" \notin Electricity /\ "water_consumption" \notin Electricity
      BY DEF ClassOf, Electricity
    <3>3. Keyword("gas_consumption") = "gas" /\ Keyword("water_consumption") = "water"
      BY <3>2 DEF Keyword
    <3>4. "gas" \in Terms[s] \/ states[s].device_class = "gas"
      BY <3>1, <3>2, <3>3 DEF Score, Worth
    <3>5. "water" \in Terms[s] \/ states[s].device_class = "water"
      BY <3>1, <3>2, <3>3 DEF Score, Worth
    <3> QED
      BY <3>4, <3>5
  <2> QED
    BY <2>1, <2>2 DEF OneMetric
<1> QED
  BY <1>1, PTL

(***************************************************************************)
(* The unit of a statistic found automatically is the recorder's, so lost  *)
(* states do not change it, and that of a chosen one only to the default   *)
(* (LostStatesKeepUnits).                                                  *)
(***************************************************************************)
THEOREM UnitsKeptOnLoss == Spec => LostStatesKeepUnits
<1> DEFINE Kept(m, s) ==
      \/ UnitFor(m, s)' = UnitFor(m, s)
      \/ /\ Chosen(m)
         /\ metadata[s].unit_of_measurement = NoUnit
         /\ UnitFor(m, s)' = DefaultUnit(m)
<1>1. ASSUME OnlyStatesLost, NEW m \in Metric, NEW s \in Mapped(m), s \in Statistics
      PROVE  Kept(m, s)
  <2>1. metadata'[s] = metadata[s]
    BY <1>1 DEF OnlyStatesLost
  <2>2. CASE metadata[s].unit_of_measurement # NoUnit
    BY <2>1, <2>2 DEF UnitFor
  <2>3. CASE metadata[s].unit_of_measurement = NoUnit
    <3>1. Chosen(m)
      <4>1. s \notin Automatic(m)
        BY <2>3 DEF Automatic, HighConfidence, Candidates, Eligible, UnitMatches,
                    EnergyUnits, VolumeUnits, NoUnit
      <4> QED
        BY <1>1, <4>1 DEF Chosen, Mapped
    <3>2. states'[s] = states[s] \/ states'[s].unit_of_measurement = NoUnit
      BY <1>1 DEF OnlyStatesLost, NoState
    <3> QED
      BY <2>1, <2>3, <3>1, <3>2 DEF UnitFor, DefaultUnit
  <2> QED
    BY <2>2, <2>3
<1>2. ASSUME TypeOK, NEW m \in Metric
      PROVE  Mapped(m) \subseteq Statistics
  <2>1. EnergyDashboardIds(m) \subseteq Statistics
    BY <1>2 DEF TypeOK, Preference, Source, Metric, EnergyDashboardIds, EnergyFrom, EnergyTo,
                SourcesOf
  <2> QED
    BY <1>2, <2>1 DEF TypeOK, Mapped, Automatic, HighConfidence, Candidates
<1>3. TypeOK /\ [Next]_vars =>
        [OnlyStatesLost => \A m \in Metric : \A s \in Mapped(m) : Kept(m, s)]_vars
  BY <1>1, <1>2
<1> QED
  BY <1>3, DiscoveryTypeCorrect, PTL DEF Spec, LostStatesKeepUnits

-----------------------------------------------------------------------------
LEMMA VolumesLeaveCandidates ==
  ASSUME OnlyVolumesChanged, NEW m \in Electricity
  PROVE  HighConfidence(m)' = HighConfidence(m)
<1>1. ASSUME NEW s \in Statistics, IsEnergy(s) \/ IsEnergy(s)'
      PROVE  /\ Eligible(m, s)' <=> Eligible(m, s)
             /\ Score(m, s)' = Score(m, s)
  <2>1. metadata'[s] = metadata[s] /\ states'[s] = states[s]
    BY <1>1 DEF OnlyVolumesChanged
  <2> QED
    BY <2>1 DEF Eligible, Score
<1>2. ASSUME NEW s \in Statistics, ~IsEnergy(s), ~IsEnergy(s)'
      PROVE  ~Eligible(m, s) /\ ~Eligible(m, s)'
  <2>1. EnergyUnits \cap (VolumeUnits \cup {NoUnit}) = {}
    BY DEF EnergyUnits, VolumeUnits, NoUnit
  <2> QED
    BY <1>2, <2>1 DEF IsEnergy, Eligible, UnitMatches
<1> QED
  BY <1>1, <1>2 DEF HighConfidence, Candidates

(***************************************************************************)
(* Whatever becomes of gas and water statistics, electricity is taken from *)
(* the same meters (VolumesLeaveElectricity).                              *)
(***************************************************************************)
THEOREM ElectricityUndisturbed == Spec => VolumesLeaveElectricity
<1>1. ASSUME OnlyVolumesChanged, NEW m \in Electricity
      PROVE  Mapped(m)' = Mapped(m)
  <2>1. overrides' = overrides /\ preferences' = preferences
    BY <1>1 DEF OnlyVolumesChanged
  <2>2. EnergyDashboardIds(m)' = EnergyDashboardIds(m)
    BY <2>1 DEF EnergyDashboardIds, EnergyFrom, EnergyTo, SourcesOf
  <2>3. Automatic(m)' = Automatic(m)
    BY <1>1, VolumesLeaveCandidates DEF Automatic
  <2> QED
    BY <2>1, <2>2, <2>3 DEF Mapped
<1>2. [Next]_vars => [OnlyVolumesChanged => \A m \in Electricity : Mapped(m)' = Mapped(m)]_vars
  BY <1>1
<1> QED
  BY <1>2, PTL DEF Spec, VolumesLeaveElectricity

=============================================================================
