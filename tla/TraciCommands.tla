------------------------------ MODULE TraciCommands -----------------------------
(* What the methods of the scopes of TraCIAPI ask of SUMO: each method is a command, a *)
(* variable and the value it writes, and a method that gets something also the type it *)
(* expects and how it reads the value. The object an asker names is added later.       *)
EXTENDS TraciStorage

GetterType ==
  [ getInt |-> TYPE_INTEGER, getDouble |-> TYPE_DOUBLE, getString |-> TYPE_STRING,
    getStringVector |-> TYPE_STRINGLIST, getPolygon |-> TYPE_POLYGON, getPosition |-> POSITION_2D,
    getPosition3D |-> POSITION_3D, getColor |-> TYPE_COLOR ]

GetReading(d, name, value, type, reads) ==
  [ kind |-> "get", command |-> CMD_GET + Domain[d], variable |-> Var[name], value |-> value,
    expects |-> type, reads |-> reads ]

Get(d, name, value, getter) == GetReading(d, name, value, GetterType[getter], "plain")
GetCompound(d, name, value, reads) == GetReading(d, name, value, TYPE_COMPOUND, reads)

\* The getters of a scope without a value, by the getter of TraCIAPI they go through.
Gets(d, table) == UNION {{Get(d, name, <<>>, getter) : name \in table[getter]} : getter \in DOMAIN table}

Set(d, name, value) ==
  [ kind |-> "set", command |-> CMD_SET + Domain[d], variable |-> Var[name], value |-> value,
    expects |-> 0, reads |-> "plain" ]

\* The setters of a scope that write the same value.
Sets(d, names, value) == {Set(d, name, value) : name \in names}

\* Lists and polygons come in these sizes.
ListSizes == {0, 2}
PolygonSizes == {1, 255, 256}
----------------------------------------------------------------------------------
\* A time travels with some questions about an edge.
EdgeGets ==
  Gets("EDGE",
    [ getStringVector |-> {"TRACI_ID_LIST", "LAST_STEP_VEHICLE_ID_LIST"},
      getInt |-> {"ID_COUNT", "LAST_STEP_VEHICLE_NUMBER", "LAST_STEP_VEHICLE_HALTING_NUMBER",
        "VAR_LANE_INDEX"},
      getDouble |-> {"VAR_CO2EMISSION", "VAR_COEMISSION", "VAR_HCEMISSION", "VAR_PMXEMISSION",
        "VAR_NOXEMISSION", "VAR_FUELCONSUMPTION", "VAR_NOISEEMISSION", "VAR_ELECTRICITYCONSUMPTION",
        "LAST_STEP_MEAN_SPEED", "LAST_STEP_OCCUPANCY", "LAST_STEP_LENGTH", "VAR_CURRENT_TRAVELTIME"},
      getString |-> {"VAR_NAME"} ])
  \cup {Get("EDGE", name, ADouble, "getDouble") : name \in {"VAR_EDGE_TRAVELTIME", "VAR_EDGE_EFFORT"}}

\* Until endSeconds or for ever.
EdgeSets ==
  {Set("EDGE", name, value) : name \in {"VAR_EDGE_TRAVELTIME", "VAR_EDGE_EFFORT"},
      value \in {ACompound(3, Copies(3, <<ADouble>>)), ACompound(1, <<ADouble>>)}}

\* EdgeScope::setMaxSpeed writes its double without a type.
UntypedSetMaxSpeed == Set("EDGE", "VAR_MAXSPEED", <<Doubles(1)>>)

GUIGets ==
  Gets("GUI",
    [ getStringVector |-> {"TRACI_ID_LIST"},
      getDouble |-> {"VAR_VIEW_ZOOM"},
      getPosition |-> {"VAR_VIEW_OFFSET"},
      getString |-> {"VAR_VIEW_SCHEMA"},
      getPolygon |-> {"VAR_VIEW_BOUNDARY"} ])

GUISets ==
  {Set("GUI", "VAR_VIEW_ZOOM", ADouble)}
  \cup {Set("GUI", "VAR_VIEW_OFFSET", APosition2D)}
  \cup Sets("GUI", {"VAR_VIEW_SCHEMA", "VAR_TRACK_VEHICLE"}, AString)
  \cup {Set("GUI", "VAR_VIEW_BOUNDARY", <<UByte(TYPE_POLYGON), Byte(2), Doubles(4)>>)}
  \cup {Set("GUI", "VAR_SCREENSHOT", ACompound(3, <<AString, AnInt, AnInt>>))}

InductionLoopGets ==
  Gets("INDUCTIONLOOP",
    [ getStringVector |-> {"TRACI_ID_LIST", "LAST_STEP_VEHICLE_ID_LIST"},
      getDouble |-> {"VAR_POSITION", "LAST_STEP_MEAN_SPEED", "LAST_STEP_OCCUPANCY",
        "LAST_STEP_LENGTH", "LAST_STEP_TIME_SINCE_DETECTION"},
      getString |-> {"VAR_LANE_ID"},
      getInt |-> {"LAST_STEP_VEHICLE_NUMBER"} ])
  \cup {GetCompound("INDUCTIONLOOP", "LAST_STEP_VEHICLE_DATA", <<>>, "vehicleData")}

JunctionGets ==
  Gets("JUNCTION",
    [ getStringVector |-> {"TRACI_ID_LIST"},
      getPosition |-> {"VAR_POSITION"} ])

LaneGets ==
  Gets("LANE",
    [ getStringVector |-> {"TRACI_ID_LIST", "LANE_ALLOWED", "LANE_DISALLOWED"},
      getInt |-> {"ID_COUNT", "LANE_LINK_NUMBER"},
      getDouble |-> {"VAR_LENGTH", "VAR_MAXSPEED", "VAR_WIDTH"} ])
  \cup {GetCompound("LANE", "LANE_LINKS", <<>>, "links")}

\* getInternalFoes asks for the foes towards no lane.
LaneStepGets ==
  Gets("LANE",
    [ getStringVector |-> {"LAST_STEP_VEHICLE_ID_LIST"},
      getInt |-> {"LAST_STEP_VEHICLE_NUMBER", "LAST_STEP_VEHICLE_HALTING_NUMBER"},
      getDouble |-> {"VAR_CO2EMISSION", "VAR_COEMISSION", "VAR_HCEMISSION", "VAR_PMXEMISSION",
        "VAR_NOXEMISSION", "VAR_FUELCONSUMPTION", "VAR_NOISEEMISSION", "VAR_ELECTRICITYCONSUMPTION",
        "LAST_STEP_MEAN_SPEED", "LAST_STEP_OCCUPANCY", "LAST_STEP_LENGTH", "VAR_CURRENT_TRAVELTIME"},
      getPolygon |-> {"VAR_SHAPE"},
      getString |-> {"LANE_EDGE_ID"} ])
  \cup {Get("LANE", "VAR_FOES", <<UByte(TYPE_STRING), String(n)>>, "getStringVector") : n \in {0, 1}}

LaneSets ==
  {Set("LANE", name, AStringList(n)) : name \in {"LANE_ALLOWED", "LANE_DISALLOWED"}, n \in ListSizes}
  \cup Sets("LANE", {"VAR_MAXSPEED", "VAR_LENGTH"}, ADouble)

LaneAreaGets ==
  Gets("LANEAREA",
    [ getStringVector |-> {"TRACI_ID_LIST"} ])

\* getLastStepMeanSpeed of this scope goes through getInt, not getDouble.
MeMeGets ==
  Gets("MULTIENTRYEXIT",
    [ getStringVector |-> {"TRACI_ID_LIST", "LAST_STEP_VEHICLE_ID_LIST"},
      getInt |-> {"LAST_STEP_VEHICLE_NUMBER", "LAST_STEP_MEAN_SPEED",
        "LAST_STEP_VEHICLE_HALTING_NUMBER"} ])

POIGets ==
  Gets("POI",
    [ getStringVector |-> {"TRACI_ID_LIST"},
      getInt |-> {"ID_COUNT"},
      getString |-> {"VAR_TYPE", "VAR_IMAGEFILE"},
      getPosition |-> {"VAR_POSITION"},
      getColor |-> {"VAR_COLOR"},
      getDouble |-> {"VAR_WIDTH", "VAR_HEIGHT", "VAR_ANGLE"} ])

POISets ==
  Sets("POI", {"VAR_TYPE", "VAR_IMAGEFILE"}, AString)
  \cup Sets("POI", {"VAR_WIDTH", "VAR_HEIGHT", "VAR_ANGLE"}, ADouble)
  \cup {Set("POI", "VAR_POSITION", APosition2D), Set("POI", "VAR_COLOR", AColor), Set("POI", "REMOVE", AnInt)}
  \cup {Set("POI", "ADD", ACompound(8, <<AString, AColor, AnInt, APosition2D, AString, ADouble, ADouble, ADouble>>))}

PolygonGets ==
  Gets("POLYGON",
    [ getStringVector |-> {"TRACI_ID_LIST"},
      getInt |-> {"ID_COUNT"},
      getDouble |-> {"VAR_WIDTH"},
      getString |-> {"VAR_TYPE"},
      getPolygon |-> {"VAR_SHAPE"},
      getColor |-> {"VAR_COLOR"} ])

\* add writes the number of points as one byte, whatever it is: 256 points throw.
PolygonSets ==
  {Set("POLYGON", "VAR_WIDTH", ADouble), Set("POLYGON", "VAR_TYPE", AString), Set("POLYGON", "VAR_COLOR", AColor),
     Set("POLYGON", "REMOVE", AnInt)}
  \cup {Set("POLYGON", "VAR_SHAPE", APolygon(n)) : n \in PolygonSizes}
  \cup {Set("POLYGON", "ADD",
           ACompound(5, <<AString, AColor, AUByte(1), AnInt, <<UByte(TYPE_POLYGON), UByte(n), Doubles(2 * n)>> >>))
       : n \in PolygonSizes}

RouteCalls ==
  Gets("ROUTE",
    [ getStringVector |-> {"TRACI_ID_LIST", "VAR_EDGES"} ])
  \cup {Set("ROUTE", "ADD", AStringList(n)) : n \in ListSizes}

SimulationGets ==
  Gets("SIM",
    [ getInt |-> {"VAR_TIME_STEP", "VAR_LOADED_VEHICLES_NUMBER", "VAR_DEPARTED_VEHICLES_NUMBER",
        "VAR_ARRIVED_VEHICLES_NUMBER", "VAR_TELEPORT_STARTING_VEHICLES_NUMBER",
        "VAR_TELEPORT_ENDING_VEHICLES_NUMBER", "VAR_MIN_EXPECTED_VEHICLES"},
      getDouble |-> {"VAR_TIME", "VAR_DELTA_T"},
      getStringVector |-> {"VAR_LOADED_VEHICLES_IDS", "VAR_DEPARTED_VEHICLES_IDS",
        "VAR_ARRIVED_VEHICLES_IDS", "VAR_TELEPORT_STARTING_VEHICLES_IDS",
        "VAR_TELEPORT_ENDING_VEHICLES_IDS"},
      getPolygon |-> {"VAR_NET_BOUNDING_BOX"} ])

\* Positions go as a plane or geographic position or as one on a road; the type asked
\* for is the last value written, as an unsigned byte.
PositionOn(type) == <<Byte(type), Doubles(1), Doubles(1)>>
PositionOnRoad == <<Byte(POSITION_ROADMAP), String(1), Doubles(1), Byte(0)>>
Convert(from, to, more) ==
  GetReading("SIM", "POSITION_CONVERSION",
             ACompound(2 + Len(more), <<from, <<Byte(TYPE_UBYTE), Byte(to)>> >> \o more), to, "plain")

Conversions ==
  {Convert(PositionOnRoad, type, <<>>) :
      type \in {POSITION_LON_LAT, POSITION_2D, POSITION_LON_LAT_ALT, POSITION_3D}}
  \cup {Convert(PositionOn(type), POSITION_ROADMAP, <<AString>>) : type \in {POSITION_LON_LAT, POSITION_2D}}
  \cup {Convert(PositionOn(POSITION_LON_LAT), POSITION_2D, <<>>),
     Convert(PositionOn(POSITION_2D), POSITION_LON_LAT, <<>>)}

\* The kind of distance goes without a type.
Distances ==
  {GetReading("SIM", "DISTANCE_REQUEST", ACompound(3, <<from, from, <<Byte(driving)>> >>), TYPE_DOUBLE, "plain") :
     from \in {PositionOn(POSITION_LON_LAT), PositionOn(POSITION_2D), PositionOnRoad}, driving \in {0, 1}}

TrafficLightGets ==
  Gets("TL",
    [ getStringVector |-> {"TRACI_ID_LIST", "TL_CONTROLLED_LANES"},
      getInt |-> {"ID_COUNT", "TL_CURRENT_PHASE"},
      getString |-> {"TL_RED_YELLOW_GREEN_STATE", "TL_CURRENT_PROGRAM", "VAR_NAME"},
      getDouble |-> {"TL_PHASE_DURATION", "TL_NEXT_SWITCH"} ])
  \cup {GetCompound("TL", "TL_COMPLETE_DEFINITION_RYG", <<>>, "logics"),
        GetCompound("TL", "TL_CONTROLLED_LINKS", <<>>, "controlledLinks")}

TrafficLightSets ==
  Sets("TL", {"TL_RED_YELLOW_GREEN_STATE", "VAR_NAME", "TL_PROGRAM"}, AString)
  \cup {Set("TL", "TL_PHASE_INDEX", AnInt), Set("TL", "TL_PHASE_DURATION", ADouble)}

\* A program with n phases that name n next phases each, and n parameters.
APhase(n) == ACompound(6, <<ADouble, AString, ADouble, ADouble, ACompound(n, Copies(n, <<AnInt>>)), AString>>)
TrafficLightDefinitionSets ==
  {Set("TL", "TL_COMPLETE_PROGRAM_RYG",
       ACompound(5, <<AString, AnInt, AnInt, ACompound(n, Copies(n, <<APhase(n)>>)),
                      ACompound(n, Copies(n, <<AStringList(2)>>))>>)) : n \in ListSizes}

VehicleTypeGets ==
  Gets("VEHICLETYPE",
    [ getStringVector |-> {"TRACI_ID_LIST"},
      getDouble |-> {"VAR_LENGTH", "VAR_MAXSPEED", "VAR_SPEED_FACTOR", "VAR_SPEED_DEVIATION",
        "VAR_ACCEL", "VAR_DECEL", "VAR_EMERGENCY_DECEL", "VAR_APPARENT_DECEL", "VAR_IMPERFECTION",
        "VAR_TAU", "VAR_MINGAP", "VAR_MINGAP_LAT", "VAR_MAXSPEED_LAT", "VAR_WIDTH", "VAR_HEIGHT"},
      getString |-> {"VAR_VEHICLECLASS", "VAR_EMISSIONCLASS", "VAR_SHAPECLASS", "VAR_LATALIGNMENT"},
      getColor |-> {"VAR_COLOR"} ])

VehicleTypeSets ==
  Sets("VEHICLETYPE",
         {"VAR_LENGTH", "VAR_MAXSPEED", "VAR_SPEED_FACTOR", "VAR_SPEED_DEVIATION", "VAR_WIDTH", "VAR_HEIGHT", "VAR_MINGAP",
          "VAR_MINGAP_LAT", "VAR_MAXSPEED_LAT", "VAR_ACCEL", "VAR_DECEL", "VAR_EMERGENCY_DECEL", "VAR_APPARENT_DECEL",
          "VAR_IMPERFECTION", "VAR_TAU"}, ADouble)
  \cup Sets("VEHICLETYPE", {"VAR_VEHICLECLASS", "VAR_EMISSIONCLASS", "VAR_LATALIGNMENT", "COPY", "VAR_SHAPECLASS"},
              AString)
  \cup {Set("VEHICLETYPE", "VAR_COLOR", AColor)}

VehicleGets ==
  Gets("VEHICLE",
    [ getStringVector |-> {"TRACI_ID_LIST", "VAR_EDGES"},
      getInt |-> {"ID_COUNT", "VAR_LANE_INDEX", "VAR_ROUTE_INDEX", "VAR_SIGNALS"},
      getDouble |-> {"VAR_SPEED", "VAR_ACCELERATION", "VAR_MAXSPEED", "VAR_ANGLE",
        "VAR_LANEPOSITION", "VAR_DISTANCE", "VAR_LANEPOSITION_LAT", "VAR_CO2EMISSION",
        "VAR_COEMISSION", "VAR_HCEMISSION", "VAR_PMXEMISSION", "VAR_NOXEMISSION",
        "VAR_FUELCONSUMPTION", "VAR_NOISEEMISSION", "VAR_ELECTRICITYCONSUMPTION", "VAR_WAITING_TIME"},
      getPosition |-> {"VAR_POSITION"},
      getPosition3D |-> {"VAR_POSITION3D"},
      getString |-> {"VAR_ROAD_ID", "VAR_LANE_ID", "VAR_TYPE", "VAR_ROUTE_ID"},
      getColor |-> {"VAR_COLOR"} ])

VehicleMoreGets ==
  Gets("VEHICLE",
    [ getStringVector |-> {"VAR_VIA"},
      getInt |-> {"VAR_SPEEDSETMODE"},
      getDouble |-> {"VAR_SLOPE"},
      getString |-> {"VAR_LINE", "VAR_EMISSIONCLASS", "VAR_SHAPECLASS"} ])

VehicleCompoundGets ==
  {GetCompound("VEHICLE", "VAR_NEXT_TLS", <<>>, "nextTLS"), GetCompound("VEHICLE", "VAR_BEST_LANES", <<>>, "bestLanes"),
     GetCompound("VEHICLE", "VAR_LEADER", ADouble, "leader"),
     GetCompound("VEHICLE", "CMD_CHANGELANE", AnInt, "laneChangeState")}

VehicleStateGets ==
  Gets("VEHICLE",
    [ getStringVector |-> {"LAST_STEP_PERSON_ID_LIST"},
      getInt |-> {"VAR_STOPSTATE", "VAR_ROUTING_MODE", "VAR_PERSON_NUMBER"},
      getDouble |-> {"VAR_ACCEL", "VAR_DECEL", "VAR_TAU", "VAR_IMPERFECTION", "VAR_SPEED_FACTOR",
        "VAR_SPEED_DEVIATION", "VAR_MINGAP", "VAR_WIDTH", "VAR_LENGTH", "VAR_HEIGHT",
        "VAR_ACCUMULATED_WAITING_TIME", "VAR_ALLOWED_SPEED", "VAR_SPEED_WITHOUT_TRACI",
        "VAR_MAXSPEED_LAT", "VAR_MINGAP_LAT"},
      getString |-> {"VAR_VEHICLECLASS", "VAR_LATALIGNMENT"} ])
  \cup {Get("VEHICLE", "VAR_ROUTE_VALID", <<>>, "getInt")}

VehicleAddSets ==
  {Set("VEHICLE", "ADD_FULL", ACompound(14, Copies(12, <<AString>>) \o <<AnInt, AnInt>>))}

VehicleManeuverSets ==
  {Set("VEHICLE", "REMOVE", <<UByte(TYPE_BYTE), UByte(reason)>>) : reason \in 0 .. 4}
  \cup Sets("VEHICLE", {"CMD_CHANGETARGET", "VAR_ROUTE_ID"}, AString)
  \cup {Set("VEHICLE", "CMD_CHANGELANE", ACompound(2, <<AByte(1), ADouble>>)),
     Set("VEHICLE", "CMD_CHANGELANE", ACompound(3, <<AByte(-1), ADouble, AByte(1)>>)),
     Set("VEHICLE", "CMD_CHANGESUBLANE", ADouble)}
  \cup {Set("VEHICLE", "VAR_ROUTE", AStringList(n)) : n \in ListSizes}
  \cup {Set("VEHICLE", "CMD_REROUTE_TRAVELTIME", ACompound(0, <<>>)),
     Set("VEHICLE", "VAR_MOVE_TO", ACompound(2, <<AString, ADouble>>)),
     Set("VEHICLE", "MOVE_TO_XY", ACompound(6, <<AString, AnInt, ADouble, ADouble, ADouble, AByte(1)>>)),
     Set("VEHICLE", "CMD_SLOWDOWN", ACompound(2, <<ADouble, ADouble>>))}

\* A gap is opened with or without a bound on the braking.
VehicleSets ==
  {Set("VEHICLE", "CMD_OPENGAP", ACompound(n, Copies(n, <<ADouble>>))) : n \in {3, 4}}
  \cup Sets("VEHICLE", {"VAR_SPEED", "VAR_SPEED_FACTOR", "VAR_MAXSPEED"}, ADouble)
  \cup Sets("VEHICLE", {"VAR_SPEEDSETMODE", "VAR_SIGNALS", "VAR_ROUTING_MODE"}, AnInt)
  \cup Sets("VEHICLE", {"VAR_TYPE", "VAR_LINE", "VAR_SHAPECLASS", "VAR_EMISSIONCLASS"}, AString)
  \cup {Set("VEHICLE", "CMD_STOP", ACompound(7, <<AString, ADouble, AByte(0), ADouble, AByte(1), ADouble, ADouble>>)),
     Set("VEHICLE", "VAR_COLOR", AColor)}
  \cup {Set("VEHICLE", "VAR_VIA", AStringList(n)) : n \in ListSizes}

PersonGets ==
  Gets("PERSON",
    [ getStringVector |-> {"TRACI_ID_LIST"},
      getInt |-> {"ID_COUNT", "VAR_STAGES_REMAINING"},
      getDouble |-> {"VAR_SPEED", "VAR_ANGLE", "VAR_SLOPE", "VAR_LANEPOSITION", "VAR_LENGTH",
        "VAR_WAITING_TIME"},
      getPosition |-> {"VAR_POSITION"},
      getPosition3D |-> {"VAR_POSITION3D"},
      getColor |-> {"VAR_COLOR"},
      getString |-> {"VAR_ROAD_ID", "VAR_TYPE", "VAR_NEXT_EDGE", "VAR_VEHICLE"} ])
  \cup {Get("PERSON", "VAR_STAGE", AnInt, "getInt"), Get("PERSON", "VAR_EDGES", AnInt, "getStringVector")}

\* A stage is a waiting, a walking or a driving one.
PersonSets ==
  Sets("PERSON", {"VAR_SPEED", "VAR_LENGTH", "VAR_WIDTH", "VAR_HEIGHT", "VAR_MINGAP"}, ADouble)
  \cup {Set("PERSON", "CMD_REROUTE_TRAVELTIME", ACompound(0, <<>>)),
     Set("PERSON", "ADD", ACompound(4, <<AString, AString, ADouble, ADouble>>)),
     Set("PERSON", "APPEND_STAGE", ACompound(4, <<AnInt, AnInt, AString, AString>>)),
     Set("PERSON", "APPEND_STAGE", ACompound(4, <<AnInt, AString, AString, AString>>)),
     Set("PERSON", "REMOVE_STAGE", AnInt), Set("PERSON", "VAR_TYPE", AString), Set("PERSON", "VAR_COLOR", AColor)}
  \cup {Set("PERSON", "APPEND_STAGE", ACompound(6, <<AnInt, AStringList(n), ADouble, AnInt, ADouble, AString>>)) :
       n \in ListSizes}

\* Scopes constructed with -1 for the command to set something.
ReadOnly == {"INDUCTIONLOOP", "LANEAREA", "MULTIENTRYEXIT"}

\* Every scope has parameters. Setting one of a ReadOnly scope throws before anything is sent.
ParameterCalls ==
  {Get(d, "VAR_PARAMETER", AString, "getString") : d \in DOMAIN Domain}
  \cup {[Set(d, "VAR_PARAMETER", ACompound(2, <<AString, AString>>))
            EXCEPT !.command = IF d \in ReadOnly THEN -1 ELSE @] : d \in DOMAIN Domain}

GetsAndSets ==
  UNION {EdgeGets, EdgeSets, {UntypedSetMaxSpeed}, GUIGets, GUISets, InductionLoopGets, JunctionGets, LaneGets, LaneStepGets,
         LaneSets, LaneAreaGets, MeMeGets, POIGets, POISets, PolygonGets, PolygonSets, RouteCalls,
         SimulationGets, Conversions, Distances, TrafficLightGets, TrafficLightSets,
         TrafficLightDefinitionSets, VehicleTypeGets, VehicleTypeSets, VehicleGets, VehicleMoreGets,
         VehicleCompoundGets, VehicleStateGets, VehicleAddSets, VehicleManeuverSets, VehicleSets,
         PersonGets, PersonSets, ParameterCalls}

=================================================================================
