----------------------------- MODULE OncePerKey ------------------------------
(* What an idempotency key promises: what is done under it is done once,     *)
(* whoever asks and however often.                                           *)
EXTENDS Naturals

CONSTANT Keys

VARIABLE done   \* how often something was done under each key

KeyInit == done = [k \in Keys |-> 0]

\* Somebody's call takes effect, which happens to a key once.
Take(k) == done[k] = 0 /\ done' = [done EXCEPT ![k] = 1]

KeySpec == KeyInit /\ [][\E k \in Keys : Take(k)]_done

=============================================================================
