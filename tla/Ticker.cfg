SPECIFICATION Spec
CONSTANTS
  Contents = {camera, alert, system, guest}
  Ttls = {1, 6}
  MaxDepth = 3
  Window = 7
  DrainMin = 1
  DrainMax = 2
INVARIANTS
  TypeOK DrainsInTime
