--------------------------- MODULE MCRegistrySync ---------------------------
(***************************************************************************)
(* The instance of the registry worker for TLC: three registries, and      *)
(* deadlines in the order of the code's.                                   *)
(***************************************************************************)
EXTENDS RegistryProperties

ThreeRegistries == <<"floor", "area", "device">>
MCReconnectDelays == <<1, 2>>

=============================================================================
