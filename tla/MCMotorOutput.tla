---------------------------- MODULE MCMotorOutput ----------------------------
(***************************************************************************)
(* Instances of MotorOutput for TLC: two motors, of which the second stays *)
(* stopped whenever the first does.                                        *)
(***************************************************************************)
EXTENDS MotorOutput

AllMotors == {Motors}
FullOnly  == {[i \in Motors |-> Full]}
BothAlike == {[i \in Motors |-> Stop], [i \in Motors |-> Full]}
FirstOnly == {[i \in Motors |-> Stop], [i \in Motors |-> IF i = 0 THEN Spin ELSE Stop]}
=============================================================================
