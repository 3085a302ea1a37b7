\* The same cancellation sent twice.
CONSTANTS
    User = {u1, u2, u3}
    InitialCapacity = 2
    NewCapacities = {}
    MaxRegistrations = 4
    Registrant = {r1}
    Canceller = {c1, c2}
    Scanner = {}
    Failing = {}
SPECIFICATION Spec
SYMMETRY UsersAndSlots
INVARIANT RegisteredWithinCapacity
