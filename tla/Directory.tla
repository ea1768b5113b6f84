------------------------------ MODULE Directory ------------------------------
(* The identities that accounts, teams and imports share. *)
EXTENDS FiniteSets

CONSTANTS
  Users,       \* possible rows of profiles
  Teams,       \* rows of teams
  DialerNames  \* normalized names of agents in dialer files

\* They are rows of tables.
ASSUME FiniteDirectory == IsFiniteSet(Users) /\ IsFiniteSet(Teams) /\ IsFiniteSet(DialerNames)

=============================================================================
