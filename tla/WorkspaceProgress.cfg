SPECIFICATION Spec
CONSTANTS
    Conns = {c1, c2}
    Users = {u1}
    Roles = {finance}
    Observer = observer
    Critical = {finance}
    QuorumMin = 1
    MaxSeals = 2
    MaxChanges = 2
PROPERTY RequestsEnd
