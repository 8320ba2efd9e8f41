--------------------------- MODULE SmpBarrierSpec ---------------------------
(***************************************************************************)
(* What smp_pause / smp_resume (include/platform/smp.h) promise the test   *)
(* programs that use them, without the msip registers that implement it:   *)
(* a hart leaves its n-th smp_resume only when every hart has reached its  *)
(* n-th smp_resume.                                                        *)
(***************************************************************************)
EXTENDS Naturals

CONSTANT Harts

VARIABLES
  arrived,   \* arrived[h]: how many smp_resume hart h has acknowledged
  left       \* left[h]:    how many smp_resume hart h has returned from

vars == <<arrived, left>>

Init ==
  /\ arrived = [h \in Harts |-> 0]
  /\ left    = [h \in Harts |-> 0]

Arrive(h) ==
  /\ arrived[h] = left[h]
  /\ arrived' = [arrived EXCEPT ![h] = @ + 1]
  /\ UNCHANGED left

Leave(h) ==
  /\ left[h] < arrived[h]
  /\ \A g \in Harts : arrived[g] >= arrived[h]
  /\ left' = [left EXCEPT ![h] = @ + 1]
  /\ UNCHANGED arrived

Next == \E h \in Harts : Arrive(h) \/ Leave(h)

Spec == Init /\ [][Next]_vars
=============================================================================
