CONSTANTS
  m1 = m1
  m2 = m2
  Managers = {m1, m2}
  Issuers = {"issuer", "peer"}
  Focus = "issuer"
  CusipsOf <- MCCusipsOf
  Reports <- MCReports
  LastQuarter = 3
  Places = {"NE"}
  Known = {"A", "P"}
  Ownership <- MCOwnership
  States = {"NE"}
  Categories = {"bank"}
  Asked = {"register", "activity", "domicile", "series", "periods", "points", "shape", "peers", "coholding"}
  Top = 3
  MinOverlap = 10
  MaxStores = 3
  MaxLocated = 1
SYMMETRY Symmetry
SPECIFICATION Spec
INVARIANTS OneRegister FlowsMirror ShapeAgrees
