----------------------------- MODULE Observable -----------------------------
(***************************************************************************)
(* What a user sees of a compiled program, and what the compiler promises  *)
(* of it: the sequence of printed words and how the run ends.  `expected'  *)
(* is the outcome the source program has (Language!Outcome); `lenient'     *)
(* says that a division trap of it may be lost.                            *)
(***************************************************************************)
EXTENDS Integers, Sequences

VARIABLES expected, lenient, shown, ended, result

obs == <<expected, lenient, shown, ended, result>>

DivisionTraps == {"division_by_zero", "modulo_by_zero"}
Behind == Len(shown) < Len(expected.out)
TrapMayBeLost == lenient /\ expected.end \in DivisionTraps

Init == shown = <<>> /\ ended = "" /\ result = 0

(* The next word the source program prints.                                *)
Show ==
  /\ ended = "" /\ Behind
  /\ shown' = Append(shown, expected.out[Len(shown) + 1])
  /\ UNCHANGED <<expected, lenient, ended, result>>

(* The run ends after the last of them, as the source program's does.      *)
End ==
  /\ ended = "" /\ shown = expected.out
  /\ ended' = expected.end /\ result' = expected.value
  /\ UNCHANGED <<expected, lenient, shown>>

(* Past a lost trap nothing is promised but that what was shown stands.    *)
Beyond ==
  /\ ended = "" /\ ~Behind /\ TrapMayBeLost
  /\ SubSeq(shown', 1, Len(shown)) = shown
  /\ UNCHANGED <<expected, lenient>>

Next == Show \/ End \/ Beyond

Spec == Init /\ [][Next]_obs
=============================================================================
