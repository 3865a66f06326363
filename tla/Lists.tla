-------------------------------- MODULE Lists --------------------------------
(***************************************************************************)
(* What the services do with what they have in hand (messages, calls,      *)
(* timers, watches, jobs): what concerns nobody any more is left out, and  *)
(* the rest stays in its order.                                            *)
(***************************************************************************)
EXTENDS Naturals, Sequences

\* The members of seq that are in S, in the order of seq.
Only(seq, S) ==
  LET Of[i \in 0..Len(seq)] ==
        IF i = 0 THEN <<>>
        ELSE IF seq[i] \in S THEN Append(Of[i - 1], seq[i]) ELSE Of[i - 1]
  IN  Of[Len(seq)]

\* A number for the next call, which none of the calls that are waited for has.
NextId(calls) == IF calls = <<>> THEN 1 ELSE calls[Len(calls)].id + 1
=============================================================================
