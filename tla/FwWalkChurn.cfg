\* Three sources and a map of two elements: they keep evicting each other.
CONSTANTS
  Sources = {1, 2, 3}
  Absent = Absent
  MaxIps = 2
  MaxBlock = 2
SPECIFICATION Spec
PROPERTY SignalAlwaysStopsWatch
