----------------------------- MODULE MCMigrate -----------------------------
(***************************************************************************)
(* Migrate for TLC with migrations like those of backend/migrations: the   *)
(* extensions, users and api_keys, each with the objects it refers to; the *)
(* last is the one that is being written.                                  *)
(***************************************************************************)
EXTENDS Migrate

Tables == << {}, {1}, {2} >>
=============================================================================
