----------------------------- MODULE SyncHealth -----------------------------
(* The health file of rate-sync (health.go): what a cycle leaves in it, and  *)
(* what the health check of the container reads from it.  Stamps are kept as *)
(* ages in intervals, up to the age at which they are too old.               *)
EXTENDS Naturals

CONSTANT MaxAge   \* three intervals: the age at which a stamp is too old

Ages == 0..MaxAge
Never == MaxAge   \* a stamp that is missing or too old fails alike

Health == [phase : {"none", "waiting", "healthy", "failed"}, cycle : Ages, success : Ages]

\* A process that starts removes the file of the one before it.
Invalidated == [phase |-> "none", cycle |-> Never, success |-> Never]

Healthy == [phase |-> "healthy", cycle |-> 0, success |-> 0]
Waiting == [phase |-> "waiting", cycle |-> 0, success |-> Never]

\* A failure keeps the stamp of the last success, also when it was not one
\* of this phase.
Failed(h) == [h EXCEPT !.phase = "failed", !.cycle = 0]

Older(age) == IF age < MaxAge THEN age + 1 ELSE age
Aged(h) == [h EXCEPT !.cycle = Older(@), !.success = Older(@)]

Passes(h) ==
  \/ h.phase = "waiting" /\ h.cycle < MaxAge
  \/ h.phase \in {"healthy", "failed"} /\ h.success < MaxAge
=============================================================================
