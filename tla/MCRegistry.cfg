SPECIFICATION Spec
CONSTANTS
  Nodes = {n1, n2}
  Hosts = {h1, h2}
  Conns = {c1, c2}
  Mappings = {m1, m2}
  Ports = {p1, p2}
  AdminPorts = {7400, 7401}
  Names = {a, b}
  Listeners = {"bind", "kcp", "http"}
  Protocols = {"tcp", "kcp"}
  Types = {"tcp", "http"}
  Slots = {s1}
  None = None
  MaxEdits = 5
SYMMETRY Symmetry
INVARIANTS TypeOK NoCollision Referential
PROPERTIES Versioned Announced
CHECK_DEADLOCK FALSE
