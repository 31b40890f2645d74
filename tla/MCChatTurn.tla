----------------------------- MODULE MCChatTurn -----------------------------
(***************************************************************************)
(* Instances of ChatTurn for TLC: one request that opens a session and one *)
(* that may follow it up, from the same key or from another.               *)
(***************************************************************************)
EXTENDS ChatTurn, TLC

CONSTANTS r1, r2, k1, k2

Opening(k, s) == [key |-> k, secret |-> TRUE, body |-> TRUE, model |-> TRUE, stream |-> s, session |-> "new"]
FollowUp(k, s) == [Opening(k, s) EXCEPT !.session = r1, !.model = FALSE]

(* A session opened by a plain call or by a stream, and a turn that        *)
(* follows it up.                                                          *)
SessionCalls == [r \in Request |-> IF r = r1 THEN {Opening(k1, s) : s \in BOOLEAN}
                                   ELSE {FollowUp(k1, FALSE)}]

(* Two projects that talk to their own and to each other's sessions, and   *)
(* calls that the middleware or prepareTurn refuses.                       *)
ProjectCalls ==
  UNION { { Opening(k, FALSE), FollowUp(k, FALSE),
            [Opening(k, FALSE) EXCEPT !.key = NoKey],
            [Opening(k, FALSE) EXCEPT !.secret = FALSE],
            [Opening(k, FALSE) EXCEPT !.body = FALSE],
            [Opening(k, FALSE) EXCEPT !.model = FALSE],
            [Opening(k, FALSE) EXCEPT !.session = "malformed"] } : k \in Key }
TenantCalls == [r \in Request |-> ProjectCalls]
KeySymmetry == Permutations(Key)
=============================================================================
