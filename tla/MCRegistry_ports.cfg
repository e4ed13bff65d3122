SPECIFICATION Spec
CONSTANTS
  Nodes = {n1}
  Hosts = {h1}
  Conns = {c1}
  Mappings = {m1}
  Ports = {p1, p2}
  AdminPorts = {7400}
  Names = {a}
  Listeners = {"bind", "kcp"}
  Protocols = {"tcp"}
  Types = {"tcp"}
  Slots = {s1}
  None = None
  MaxEdits = 4
INVARIANT ListenersFree
CHECK_DEADLOCK FALSE
