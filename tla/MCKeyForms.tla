----------------------------- MODULE MCKeyForms -----------------------------
(***************************************************************************)
(* KeyForms for TLC: two visits of one tab and what other clients send     *)
(* meanwhile, about one existing key and the keys that are created.        *)
(***************************************************************************)
EXTENDS KeyForms

CONSTANTS k0, p1

Sent(kind, k, n, p) == [kind |-> kind, key |-> k, name |-> n, persona |-> p]

(* The tab's first request may fail, be refused or lose its answer, the    *)
(* second lose its answer; another client's may be done and reported as    *)
(* failed.                                                                 *)
FaultsOf == [r \in Request |-> IF r = p1 THEN {"db", "auth", "net"}
                             ELSE IF r \in PageRequest THEN {"net"} ELSE {"lostAck"}]

(* An edit of one field, which the pages do not send but the API allows,   *)
(* and one of both; a name that is refused; a key that does not exist; a   *)
(* revocation.                                                             *)
OtherOps ==
  {Sent("create", Unknown, Blank, Omitted), Sent("list", Unknown, Omitted, Omitted),
   Sent("patch", k0, "b", Omitted), Sent("patch", k0, "a", "b"),
   Sent("patch", Unknown, "b", Blank), Sent("revoke", k0, Omitted, Omitted)}

WhatIsTyped == {[name |-> "b", persona |-> p] : p \in {"a", Blank}}
=============================================================================
