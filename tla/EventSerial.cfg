\* Cancellations one at a time; whatever else races with them may fail, and the capacity may shrink.
\* No symmetry: liveness.
CONSTANTS
    User = {u1, u2, u3}
    InitialCapacity = 2
    NewCapacities = {1}
    MaxRegistrations = 3
    Registrant = {r1, r2}
    Canceller = {c1}
    Scanner = {s1}
    Failing = {r1, s1}
SPECIFICATION FairSpec
INVARIANT TypeOK
INVARIANT OneActivePerUser
INVARIANT CountIsRegistered
PROPERTY GrantsBelowCapacity
PROPERTY WaitlistServed
PROPERTY ImplementsLifecycle
