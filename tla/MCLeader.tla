------------------------------ MODULE MCLeader ------------------------------
(***************************************************************************)
(* A hash ring for model checking: members and work sit at points of a     *)
(* ring of size RingSize; work belongs to the first member at or after its *)
(* point.                                                                  *)
(***************************************************************************)
EXTENDS Leader

CONSTANTS m1, m2, m3, w1, w2, r1, r2

RingSize == 6
Point == [x \in {m1, m2, m3, w1, w2} |->
            CASE x = m1 -> 1 [] x = w1 -> 2 [] x = m2 -> 3 [] x = w2 -> 4
              [] x = m3 -> 5]

Distance(w, m) == (Point[m] + RingSize - Point[w]) % RingSize

MCRing(ms, w) ==
  CHOOSE m \in ms : \A n \in ms : Distance(w, m) <= Distance(w, n)
=============================================================================
