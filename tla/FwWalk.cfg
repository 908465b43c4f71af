\* Four sources and a statistics map of three elements, so that a source can
\* stay while the others evict each other.
CONSTANTS
  Sources = {1, 2, 3, 4}
  Absent = Absent
  MaxIps = 3
  MaxBlock = 2
SPECIFICATION Spec
PROPERTIES OffenderBanned SignalStopsWatch
