\* Two ports to scan, one more that only a previous report lists.
CONSTANTS
  Jobs = {j1, j2}
  Elsewhere = {p1}
SPECIFICATION Spec
INVARIANTS OneLinePerPort ReportExact BaselineExact
