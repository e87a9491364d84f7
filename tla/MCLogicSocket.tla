---------------------------- MODULE MCLogicSocket ----------------------------
(***************************************************************************)
(* Bodies of 0, 1, 2 and 8 bytes, among them one of all ones, for TLC.      *)
(***************************************************************************)
EXTENDS LogicSocket, FiniteSets

MCBodies == {<<>>, <<{0, 5}>>, <<{1}, {0, 1, 2}>>,
             <<{0}, {1}, 0..7, 0..7, 0..7, 0..7, {}, {6}>>}

\* One bit or two bits of a byte turned over, or all of them.
MCErrors == {e \in Byte : Cardinality(e) \in {1, 2, 8}}

\* The definition the sum is compared with is that of CRC-32: it gives the published check
\* value 0xcbf43926 for the characters 1 to 9.
ASSUME CheckValue ==
    RemainderSum([i \in 1..9 |-> {5, 4} \cup {b \in 0..3 : (i \div 2^b) % 2 = 1}]) =
        {31, 30, 27, 25, 24, 23, 22, 21, 20, 18, 13, 12, 11, 8, 5, 2, 1}
=============================================================================
