--------------------------- MODULE MCAdminSession ---------------------------
(***************************************************************************)
(* AdminSession for TLC: account "a" is created and reset while logins to  *)
(* it, and to "b", which exists, are under way.                            *)
(***************************************************************************)
EXTENDS AdminSession

Commands == { [email |-> "a", pw |-> "p", update |-> FALSE],
              [email |-> "a", pw |-> "q", update |-> TRUE],
              [email |-> "a", pw |-> "short", update |-> TRUE] }
Credentials == { [email |-> "a", pw |-> "p"], [email |-> "b", pw |-> "p"] }
=============================================================================
