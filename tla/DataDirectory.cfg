SPECIFICATION Spec
CONSTANTS
  Ceremonies = {k1, k2, k3}
  Absent = Absent
  Partial = Partial
  NoCeremony = NoCeremony
  MaxLines = 4
INVARIANTS TypeOK ServedIsOfOneCeremony SameAuthorityForever RefusedOnlyHalfWritten LossShows
SYMMETRY Symmetry
