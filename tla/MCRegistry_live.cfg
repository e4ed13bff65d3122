SPECIFICATION FairSpec
CONSTANTS
  Nodes = {n1}
  Hosts = {h1}
  Conns = {c1}
  Mappings = {m1, m2}
  Ports = {p1, p2, p3}
  AdminPorts = {7400}
  Names = {a, b}
  Listeners = {"bind"}
  Protocols = {"tcp"}
  Types = {"tcp"}
  Slots = {s1}
  None = None
  MaxEdits = 6
PROPERTY Heals
CHECK_DEADLOCK FALSE
