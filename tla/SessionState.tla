---------------------------- MODULE SessionState ----------------------------
(***************************************************************************)
(* The state of the session cache that all processes share: the utmp array *)
(* and the user table in shared memory, and the keys in Redis.             *)
(* SessionCache and SessionSteps both describe what becomes of it.         *)
(***************************************************************************)
EXTENDS SessionTable

CONSTANT MaxSid     \* bound on the session ids drawn

ASSUME StateAssumption == MaxSid \in Nat

VARIABLES utmp,     \* shm_utmp->uinfo
          rows,     \* shm_user_table->users[uid - 1].utmp_indices
          keys,     \* the session keys in Redis
          nsid      \* session ids drawn so far
=============================================================================
