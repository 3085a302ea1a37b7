------------------------ MODULE MCEventRegistration ------------------------
(* Symmetry for checking EventRegistration: users and slots of a kind. *)
EXTENDS EventRegistration, TLC

UsersAndSlots ==
    Permutations(User) \cup Permutations(Registrant)
        \cup Permutations(Canceller) \cup Permutations(Scanner)
=============================================================================
