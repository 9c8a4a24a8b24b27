SPECIFICATION Spec
CONSTANTS
    Vehicles = {v1, v2}
    Transmissions = {t1, t2}
    None = None
INVARIANTS InAirUntilEnd 
 
