\* Every installation, device and mode; one packet and its answer under way.
CONSTANTS
  InFlight = 2
SPECIFICATION FairSpec
INVARIANTS
  TypeOK
  LeaseHolds
PROPERTIES
  StartupSettles
