---------------------------- MODULE MCAuthService ----------------------------
(* Small instances of AuthService for TLC. *)
EXTENDS AuthService, TLC

Symmetry ==
    Permutations(Requests) \cup Permutations(UserIds)
        \cup Permutations(Emails) \cup Permutations(TokenIds)
=============================================================================
