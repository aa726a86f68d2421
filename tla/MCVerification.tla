---------------------------- MODULE MCVerification -----------------------------
(* A small instance of Verification: one phone in two spellings.               *)
EXTENDS Verification

CONSTANTS m1, m2

\* m2 is m1 with spaces around it.
Spaces == [m \in Mobile |-> m1]
Quiet == [sequential : {TRUE}, faulty : {FALSE}, calls : {3}, sent : {<<>>}, spelt : {{m1, m2}}]
Overlapping == [sequential : {FALSE}, faulty : {FALSE}, calls : {3}, sent : {<<>>}, spelt : {{m1}}]
\* Where things fail there are two calls, perhaps after one that has sent a code.
Faulty == [sequential : {FALSE}, faulty : BOOLEAN, calls : {2}, sent : {<<>>, <<m1>>}, spelt : {{m1, m2}}]
AllModes == Quiet \cup Overlapping \cup Faulty
================================================================================
