------------------------------- MODULE MCServer -------------------------------
(***************************************************************************)
(* The front door for TLC, started in any environment whose variables are  *)
(* right, missing or wrong in the ways that Load tells apart.              *)
(***************************************************************************)
EXTENDS FrontDoor

(* The values tried of each variable; the others are unset. *)
Tried ==
  [LISTEN_ADDR : {Unset, Text},
   PORT : {Unset, Text, Number(0), Number(8080), Number(65535), Number(65536)},
   DATABASE_URL : {Unset, Text, Address("postgres"), Address("hostless"), Address("http")},
   VLLM_API_KEY : {Unset, Text},
   JWT_SECRET : {Unset, Text},
   VLLM_URL : {Unset, Address("http"), Address("hostless"), Text},
   AUTO_MIGRATE : {Unset, Flag(TRUE), Number(0), Text},
   SHUTDOWN_GRACE : {Unset, Number(0 - 1)}]
MCEnv == {[v \in EnvKeys |-> IF v \in DOMAIN e THEN e[v] ELSE Unset] : e \in Tried}
===============================================================================
