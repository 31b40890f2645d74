--------------------------- MODULE MCConversation ---------------------------
(***************************************************************************)
(* Instances of Conversation for TLC.  Texts are small numbers; the inputs *)
(* are a plain user turn, a turn preceded by a re-sent reply, and the      *)
(* re-sending of a whole exchange.                                         *)
(***************************************************************************)
EXTENDS Conversation, TLC

CONSTANTS t1, t2, t3, c1, c2

MCContent == {1, 2}
MCInput == { << User(1) >>, << Assistant(1), User(2) >> }
EchoInput == { << Assistant(1), User(2) >> }
TurnSymmetry == Permutations(Turn)
SameConvSymmetry == Permutations({t1, t2})
OneConv == [t \in Turn |-> c1]
TwoConvs == [t \in Turn |-> IF t = t3 THEN c2 ELSE c1]

=============================================================================
