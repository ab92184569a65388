---------------------------- MODULE MCDiscovery ----------------------------
(***************************************************************************)
(* An instance of discovery for TLC: a gas meter, a meter of gas or water, *)
(* a P1 port and a meter that counts both directions.                      *)
(***************************************************************************)
EXTENDS Discovery

MCStatistics == {"gas_consumption", "gas_water_delivered", "grid_import", "import_export"}

MCTerms ==
  [s \in MCStatistics |->
     CASE s = "gas_consumption" -> {"gas", "import"}
       [] s = "gas_water_delivered" -> {"gas", "water", "import"}
       [] s = "grid_import" -> {"import", "grid"}
       [] s = "import_export" -> {"import", "export", "grid"}]

NoOverride == [m \in Metric |-> {}]

MCOverrideSets ==
  {NoOverride, [NoOverride EXCEPT !["gas_consumption"] = {"gas_water_delivered"}]}

NoPreference == [energy_sources |-> {}, device_consumption_water |-> {}]

MCPreferences ==
  {NoPreference,
   [NoPreference EXCEPT !.energy_sources =
      {[type |-> "grid", stat_energy_from |-> {"grid_import"}, stat_energy_to |-> {}]}],
   [NoPreference EXCEPT !.device_consumption_water = {"gas_water_delivered"}]}

MCListings ==
  [s \in MCStatistics |->
     CASE s = "gas_consumption" -> [unit_of_measurement: {"L"}, has_sum: BOOLEAN]
       [] s = "gas_water_delivered" -> [unit_of_measurement: {"L"}, has_sum: {TRUE}]
       [] OTHER -> [unit_of_measurement: {"Wh"}, has_sum: {TRUE}]]

MCStates ==
  [s \in MCStatistics |->
     CASE s = "gas_consumption" ->
            [total: BOOLEAN, device_class: {"none", "gas"}, unit_of_measurement: {"m3"}]
       [] s = "gas_water_delivered" ->
            [total: BOOLEAN, device_class: {"none", "gas", "water"}, unit_of_measurement: {"L"}]
       [] s = "grid_import" ->
            [total: BOOLEAN, device_class: {"energy"}, unit_of_measurement: {"kWh"}]
       [] s = "import_export" ->
            [total: {TRUE}, device_class: {"energy"}, unit_of_measurement: {"kWh"}]]

=============================================================================
