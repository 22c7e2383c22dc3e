----------------------------- MODULE GroupRoles -----------------------------
(* What the program makes of the addresses the installer enters: config.ts    *)
(* lists those to listen to (collectAllGAs) and, apart from that, gives each  *)
(* a role (buildGAIndex), and knxBus.ts reads a telegram by the datapoint     *)
(* type of the roles of its address.  Every place of types.ts where an        *)
(* address can be entered is here, by its name there; an option decides the   *)
(* role of some.                                                              *)
EXTENDS Naturals, Sequences, FiniteSets

CONSTANTS
    MaxFilled,  \* the fields that a save leaves filled in
    None

GroupRolesAssumption == MaxFilled \in Nat

VARIABLES
    place,      \* what is configured: the kind of device, its option, the fields filled in
    bound,      \* the addresses listened to since the last refresh, by field
    gaRoles,    \* the roles of the addresses: pairs of a field and a role
    address,    \* an address with two roles, in their order
    telegram    \* the last telegram on it: what was sent, and the type it was read by

vars == <<place, bound, gaRoles, address, telegram>>

(* Pairs of a field and what it is given.                                     *)
To(fields, role) == {<<f, role>> : f \in fields}
Fields(pairs) == {e[1] : e \in pairs}

-----------------------------------------------------------------------------
(* types.ts: the addresses of each kind of device.                            *)
LightSwitchGA == {"switch", "switch_status"}
LightDimmerGA == LightSwitchGA \cup {"dim_value", "dim_status"}
ShadingGA == {"up_down", "stop_step", "position", "position_status", "slat", "slat_status", "moving"}
ClimateGA == {"actual_temp", "setpoint", "setpoint_status", "mode", "mode_status", "hvac_mode",
              "hvac_mode_status", "heat_demand", "cool_demand"}
Channels == {"r", "g", "b", "w", "ww", "cw"}
RgbwWwGA == Channels \cup {"on", "composite", "rgb232", "bright", "kelvin"}
Knx == {"playPause", "mute", "next", "previous", "nextPreset", "previousPreset", "volumeDim"}
DiscreteLevel == {"dlOn", "dlOff", "dlUp", "dlDown"}
StatusBits == {"error", "fuel", "working", "ready"}
Fireplace == {"onOff", "onOffStatus", "flame", "flameStatus", "safetyLockout"} \cup DiscreteLevel \cup StatusBits
Ac == {"onOff", "onOffStatus", "setpoint", "setpointStatus", "actualTemp", "mode", "modeStatus",
       "fanSpeed", "fanSpeedStatus"}
Fan == {"onOff", "onOffStatus", "speed", "speedStatus", "oscillate", "oscillateStatus", "direction",
        "directionStatus"}
Universal == {"action", "actionOff", "actionLong", "status", "level"}
Logic == {"trigger", "or", "until", "when", "untilWhen"}
ZehnderBits == {"stand", "standStatus", "fault", "filter"}
ZehnderCounts == {"boostTime", "boostTimeStatus", "filterDays"}
Intercom == {"doorbell", "release"}
Energy == {"gridPowerW", "solarPowerW", "batteryPowerW", "batterySoc", "importEnergyKwh",
           "exportEnergyKwh", "solarEnergyKwh", "gasM3"}
MeldingDpts == {"1.001", "5.001", "5.010", "6.001", "7.001", "8.001", "9.001", "12.001", "13.001", "14.019", "hex"}
EnergyDpts == {"float2", "float4", "int16", "uint16", "int32", "uint32", "percent", "other"}
MvModels == {"mv_1contact", "mv_scene", "mv_0_10v"}
ModbusDpts == {"bit", "byte", "uint16", "temperature"}

(* The options of a kind that bear on its roles.                              *)
Options == [light |-> {"-"}, shading |-> {"-"}, rgbw_ww |-> {"-"}, ac |-> {"-"}, media |-> {"-"},
            climate |-> {"absolute", "relative_6.010", "relative_9.002"},
            fireplace |-> {"steps", "bands", "percent"},
            fan |-> {"steps", "byte", "percent"} \cup MvModels,
            universal |-> {"bit", "byte", "percent", "temperature", "raw_int", "scene"},
            wtw |-> {"zehnder", "duco"} \cup MvModels, modbus |-> ModbusDpts,
            melding |-> MeldingDpts, intercom |-> {"knx", "http", "doorbird"},
            scene |-> {"switch", "dim_value", "setpoint", "position", "scene_number", "bit", "byte",
                       "percent", "temperature", "raw_bytes", "rgb232", "pulse"},
            energy |-> EnergyDpts]
Kinds == DOMAIN Options

Modbus == {"command", "statusGa", "stand", "diagnostic", "reset"}
Mv == {"switchGa", "switchStatusGa", "sceneGa", "command", "statusGa"} \cup Logic \cup {"tempRise"}
FieldsOf(kind) ==
    CASE kind = "light"     -> LightDimmerGA
      [] kind = "shading"   -> ShadingGA
      [] kind = "climate"   -> ClimateGA
      [] kind = "rgbw_ww"   -> RgbwWwGA
      [] kind = "media"     -> Knx
      [] kind = "fireplace" -> Fireplace
      [] kind = "ac"        -> Ac
      [] kind = "fan"       -> Fan \cup Mv
      [] kind = "universal" -> Universal
      [] kind = "wtw"       -> ZehnderBits \cup ZehnderCounts \cup Mv
      [] kind = "modbus"    -> Modbus \cup Logic \cup {"tempRise"}
      [] kind = "melding"   -> {"item", "reset"}
      [] kind = "intercom"  -> Intercom
      [] kind = "scene"     -> {"actionGa", "knxGa"}
      [] kind = "energy"    -> Energy

-----------------------------------------------------------------------------
(* wtw.ts: the addresses of a unit and their roles (collect...Subscriptions). *)
LogicRoles == To(Logic, "bit") \cup To({"tempRise"}, "temperature")
ZehnderSubscriptions == To(ZehnderBits, "bit") \cup To(ZehnderCounts, "uint16") \cup LogicRoles
DucoSubscriptions == To({"command", "statusGa"}, "byte") \cup To({"fault", "filter"}, "bit")
                     \cup To({"filterDays"}, "uint16") \cup LogicRoles
MvSubscriptions(model) ==
    LogicRoles \cup CASE model = "mv_1contact" -> To({"switchGa", "switchStatusGa"}, "bit")
                      [] model = "mv_scene"    -> To({"sceneGa"}, "scene_number")
                      [] OTHER                 -> To({"command", "statusGa"}, "byte")
ModbusSubscriptions(dpt) == To(Modbus, dpt) \cup LogicRoles
Subscriptions(model) ==
    CASE model = "zehnder" -> ZehnderSubscriptions
      [] model = "duco"    -> DucoSubscriptions
      [] OTHER             -> MvSubscriptions(model)
IsMv(opt) == opt \in MvModels

(* collectAllGAs: which of the fields that are filled in are listened to.     *)
Listened(kind, opt) ==
    CASE kind = "fan"       -> Fan \cup IF IsMv(opt) THEN Fields(MvSubscriptions(opt)) ELSE {}
      [] kind = "wtw"       -> Fields(Subscriptions(opt))
      [] kind = "intercom"  -> IF opt = "knx" THEN Intercom ELSE {"doorbell"}
      [] kind = "energy"    -> IF opt = "other" THEN {} ELSE Energy
      [] OTHER              -> FieldsOf(kind)
CollectAllGAs(p) == p.filled \cap Listened(p.kind, p.opt)

-----------------------------------------------------------------------------
(* The roles: climateBusRole, wtwDptToRoleConfig, energyDptRole.              *)
ClimateBusRole(opt, key) ==
    CASE opt = "relative_6.010" /\ key = "setpoint"        -> "setpoint_shift_6"
      [] opt = "relative_6.010" /\ key = "setpoint_status" -> "setpoint_shift_6_status"
      [] opt = "relative_9.002" /\ key = "setpoint"        -> "setpoint_shift_9"
      [] opt = "relative_9.002" /\ key = "setpoint_status" -> "setpoint_shift_9_status"
      [] OTHER -> key

WtwDptToRoleConfig(dpt) ==
    CASE dpt = "1.001"  -> "bit"        [] dpt = "9.001"  -> "temperature"  [] dpt = "14.019" -> "float4byte"
      [] dpt = "5.001"  -> "percent"    [] dpt = "6.001"  -> "signed_byte"  [] dpt = "7.001"  -> "uint16"
      [] dpt = "8.001"  -> "signed_2byte" [] dpt = "12.001" -> "uint32"     [] dpt = "13.001" -> "int32"
      [] OTHER -> "byte"

EnergyDptRole == [float2 |-> "energy_float2", float4 |-> "energy_float4", int16 |-> "energy_int16",
                  uint16 |-> "energy_uint16", int32 |-> "energy_int32", uint32 |-> "energy_uint32",
                  percent |-> "energy_percent"]

FireplaceRoles(opt) ==
    To({"onOff"} \cup DiscreteLevel, "switch") \cup To({"onOffStatus"}, "switch_status")
    \cup To({"safetyLockout"} \cup StatusBits, "bit")
    \cup To({"flame"}, IF opt = "steps" THEN "flame" ELSE "percent")
    \cup To({"flameStatus"}, IF opt = "steps" THEN "flame_status" ELSE "percent")
AcRoles == {<<"onOff", "switch">>, <<"onOffStatus", "switch_status">>, <<"setpoint", "setpoint">>,
            <<"setpointStatus", "setpoint_status">>, <<"actualTemp", "actual_temp">>, <<"mode", "ac_mode">>,
            <<"modeStatus", "ac_mode_status">>, <<"fanSpeed", "fan_speed">>, <<"fanSpeedStatus", "fan_speed">>}
FanRoles(opt) ==
    To({"onOff", "oscillate", "direction"}, "switch")
    \cup To({"onOffStatus", "oscillateStatus", "directionStatus"}, "switch_status")
    \cup To({"speed", "speedStatus"}, IF opt = "steps" THEN "byte" ELSE "percent")
    \cup IF IsMv(opt) THEN MvSubscriptions(opt) ELSE {}
MediaRoles == To(Knx \ {"volumeDim"}, "switch") \cup To({"volumeDim"}, "dim_control")
(* MUTANT: the rocker's address is left out of the index.                     *)
MediaRolesWithoutRocker == To(Knx \ {"volumeDim"}, "switch")
MediaListRoles == MediaRoles

(* buildGAIndex: the role of each address.                                    *)
RolesOf(kind, opt) ==
    CASE kind = "climate"   -> {<<f, ClimateBusRole(opt, f)>> : f \in ClimateGA}
      [] kind = "fireplace" -> FireplaceRoles(opt)
      [] kind = "ac"        -> AcRoles
      [] kind = "fan"       -> FanRoles(opt)
      [] kind = "universal" -> To(Universal \ {"level"}, opt) \cup To({"level"}, "percent")
      [] kind = "wtw"       -> Subscriptions(opt)
      [] kind = "modbus"    -> ModbusSubscriptions(opt)
      [] kind = "melding"   -> To({"item"}, WtwDptToRoleConfig(opt)) \cup To({"reset"}, "bit")
      [] kind = "media"     -> MediaListRoles
      [] kind = "intercom"  -> To({"doorbell"} \cup (IF opt = "knx" THEN {"release"} ELSE {}), "switch")
      [] kind = "scene"     -> To({"actionGa"}, opt) \cup To({"knxGa"}, "scene")
      [] kind = "energy"    -> IF opt = "other" THEN {} ELSE To(Energy, EnergyDptRole[opt])
      [] OTHER              -> {<<f, f>> : f \in FieldsOf(kind)}
BuildGAIndex(p) == {e \in RolesOf(p.kind, p.opt) : e[1] \in p.filled}

-----------------------------------------------------------------------------
(* knxBus.ts: the datapoint type of a role; without one it is a bit.          *)
ROLE_DPT(role) ==
    CASE role \in {"switch", "switch_status", "moving", "bit"} -> "1.001"
      [] role = "up_down"     -> "1.008"
      [] role = "stop_step"   -> "1.007"
      [] role = "dim_control" -> "3.007"
      [] role \in {"dim_value", "dim_status", "position", "position_status", "slat", "slat_status", "percent",
                   "energy_percent", "fan_speed"} -> "5.001"
      [] role \in {"byte", "raw_int", "scene", "flame", "flame_status"} \cup Channels -> "5.010"
      [] role \in {"actual_temp", "setpoint", "setpoint_status", "temperature", "energy_float2"} -> "9.001"
      [] role \in {"setpoint_shift_6", "setpoint_shift_6_status"} -> "6.010"
      [] role \in {"setpoint_shift_9", "setpoint_shift_9_status"} -> "9.002"
      [] role \in {"mode", "mode_status"}           -> "20.102"
      [] role \in {"ac_mode", "ac_mode_status"}     -> "20.105"
      [] role \in {"uint16", "energy_uint16"}       -> "7.001"
      [] role = "signed_byte"                       -> "6.001"
      [] role \in {"signed_2byte", "energy_int16"}  -> "8.001"
      [] role \in {"uint32", "energy_uint32"}       -> "12.001"
      [] role \in {"int32", "energy_int32"}         -> "13.001"
      [] role \in {"float4byte", "energy_float4"}   -> "14.019"
      [] role = "scene_number"                      -> "17.001"
      [] role \in {"composite", "raw_bytes"}        -> "16.000"
      [] role = "rgb232"                            -> "232.600"
      [] OTHER -> "undefined"
Dpt(role) == IF ROLE_DPT(role) = "undefined" THEN "1.001" ELSE ROLE_DPT(role)

(* The bytes of a telegram; less than a byte arrives as one.                  *)
Bytes(dpt) ==
    CASE dpt \in {"7.001", "8.001", "9.001", "9.002"} -> 2
      [] dpt \in {"12.001", "13.001", "14.019"}       -> 4
      [] dpt = "232.600" -> 3
      [] dpt = "16.000"  -> 14
      [] OTHER -> 1

(* resolveDptForTelegram: the first of the types that the length suggests;    *)
(* what starts with DPT1 is more than the bits.                               *)
Temperatures == {"9.001", "9.002", "14.019"}
Numbers == {"5.001", "5.010", "7.001", "8.001", "20.102"}
StartsWithDPT1 == {"1.001", "1.007", "1.008", "12.001", "13.001", "14.019", "16.000", "17.001"}
AnyOf(dpts, among) == \E i \in {1, 2} : dpts[i] \in among
FirstOf(dpts, among) == IF dpts[1] \in among THEN dpts[1] ELSE dpts[2]
Resolve(dpts, len) ==
    IF dpts[1] = dpts[2]                           THEN dpts[1]
    ELSE IF len > 1 /\ AnyOf(dpts, Temperatures)   THEN FirstOf(dpts, Temperatures)
    ELSE IF len > 1 /\ AnyOf(dpts, Numbers)        THEN FirstOf(dpts, Numbers)
    ELSE IF len < 2 /\ AnyOf(dpts, {"3.007"})      THEN "3.007"
    ELSE IF len < 2 /\ AnyOf(dpts, StartsWithDPT1) THEN FirstOf(dpts, StartsWithDPT1)
    ELSE dpts[1]

-----------------------------------------------------------------------------
(* Every kind of device, and the roles that have a type.                      *)
Setups == UNION {{[kind |-> k, opt |-> o] : o \in Options[k]} : k \in Kinds}
TypedRoles == {r \in UNION {{e[2] : e \in RolesOf(s.kind, s.opt)} : s \in Setups} : ROLE_DPT(r) # "undefined"}

Refreshed(p) == bound' = CollectAllGAs(p) /\ gaRoles' = BuildGAIndex(p)

(* At first everything is filled in, or nothing.                              *)
Init ==
    /\ \E s \in Setups : \E filled \in {{}, FieldsOf(s.kind)} :
          place = [kind |-> s.kind, opt |-> s.opt, filled |-> filled]
    /\ bound = CollectAllGAs(place) /\ gaRoles = BuildGAIndex(place)
    /\ address \in TypedRoles \X TypedRoles
    /\ place.kind = "light" \/ address = <<"bit", "byte">>
    /\ telegram = None

(* The house is saved with a field filled in or cleared, and the bus is told  *)
(* of its addresses.                                                          *)
Saves(f) ==
    /\ place' = [place EXCEPT !.filled = IF f \in place.filled THEN place.filled \ {f} ELSE place.filled \cup {f}]
    /\ Cardinality(place'.filled) <= MaxFilled
    /\ Refreshed(place')
    /\ UNCHANGED <<address, telegram>>

(* Some device sends a value of one of the address's roles.                   *)
Telegram(role) ==
    /\ telegram = None
    /\ telegram' = [sent |-> Dpt(role),
                    read |-> Resolve(<<Dpt(address[1]), Dpt(address[2])>>, Bytes(Dpt(role)))]
    /\ UNCHANGED <<place, bound, gaRoles, address>>

Next ==
    \/ \E f \in FieldsOf(place.kind) : Saves(f)
    \/ \E role \in {address[1], address[2]} : Telegram(role)

-----------------------------------------------------------------------------
(* The state has its type.                                                    *)
TypesOK ==
    /\ place.kind \in Kinds /\ place.opt \in Options[place.kind]
    /\ place.filled \subseteq FieldsOf(place.kind)
    /\ bound \subseteq place.filled /\ Fields(gaRoles) \subseteq place.filled
    /\ telegram = None \/ telegram.sent \in {Dpt(address[1]), Dpt(address[2])}

(* The datapoint types types.ts gives for the fields of a kind.               *)
Documented(kind, opt) ==
    CASE kind = "climate" -> To({"actual_temp"}, "9.001") \cup To({"mode", "mode_status"}, "20.102")
                             \cup To({"hvac_mode", "hvac_mode_status", "heat_demand", "cool_demand"}, "1.001")
                             \cup To({"setpoint", "setpoint_status"},
                                     CASE opt = "relative_6.010" -> "6.010"
                                       [] opt = "relative_9.002" -> "9.002" [] OTHER -> "9.001")
      [] kind = "rgbw_ww" -> To(Channels \cup {"bright"}, "5.010") \cup To({"on"}, "1.001")
                             \cup To({"rgb232"}, "232.600") \cup To({"kelvin"}, "9.001")
      [] kind = "media"   -> To(Knx \ {"volumeDim"}, "1.001") \cup To({"volumeDim"}, "3.007")
      [] kind = "fireplace" -> To(DiscreteLevel \cup StatusBits, "1.001")
                               \cup To({"flame", "flameStatus"}, IF opt = "steps" THEN "5.010" ELSE "5.001")
      [] kind = "universal" -> To({"level"}, "5.001")
      [] kind = "wtw" /\ opt = "zehnder" -> To({"boostTime", "boostTimeStatus"}, "7.001") \cup To({"tempRise"}, "9.001")
      [] kind = "fan" /\ ~IsMv(opt) -> To({"speed", "speedStatus"}, IF opt = "percent" THEN "5.001" ELSE "5.010")
      [] kind = "melding" /\ opt # "hex" -> To({"item"}, opt)
      [] OTHER -> {}

ReadAs(f) == {Dpt(e[2]) : e \in {e \in gaRoles : e[1] = f}}
AsDocumented(but) ==
    \A d \in Documented(place.kind, place.opt) : d[1] \in place.filled \ but => ReadAs(d[1]) = {d[2]}

(* No address is listened to that has no role, and none has a role that is    *)
(* not listened to; and every field is read by the type the configuration's   *)
(* documentation gives it, but for the fields of FieldsReadAsDocumented.      *)
IndexCoversBound ==
    /\ bound = Fields(gaRoles)
    /\ AsDocumented({"bright", "kelvin"} \cup IF place.kind = "fan" THEN {"speed", "speedStatus"} ELSE {})

(* When an address has a role of a bit, or of the four of a rocker, and one   *)
(* of two bytes, each telegram is read by a type of its own length.           *)
DecodesByLength ==
    telegram # None
        /\ (\E i \in {1, 2} : Dpt(address[i]) \in {"1.001", "1.007", "1.008", "3.007"})
        /\ (\E i \in {1, 2} : Bytes(Dpt(address[i])) = 2) =>
        Bytes(telegram.read) = Bytes(telegram.sent)

GroupRolesSound == IndexCoversBound /\ DecodesByLength

(* "tunable_white: helderheid GA (DPT 5.010, 0-255)", "kleurtemperatuur GA    *)
(* (DPT 9.001, Kelvin)", "byte: continue slider 0-255, DPT 5.010".            *)
FieldsReadAsDocumented == AsDocumented({})
=============================================================================
