-------------------------------- MODULE Calc --------------------------------
(***************************************************************************)
(* One call of one function: the function, its input and, once it has      *)
(* returned, its result.                                                   *)
(***************************************************************************)
VARIABLE calc

Pending == <<>>      \* out before the function has returned, and <<result>> after

Asked(alg, in) == calc = [alg |-> alg, in |-> in, out |-> Pending]
Called(alg) == calc.alg = alg /\ calc.out = Pending
Returns(alg, result) ==
    /\ Called(alg)
    /\ calc' = [calc EXCEPT !.out = <<result>>]
Returned(alg) == calc.alg = alg /\ calc.out # Pending

=============================================================================
