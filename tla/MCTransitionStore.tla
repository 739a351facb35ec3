------------------------- MODULE MCTransitionStore --------------------------
(* A small instance of TransitionStore for TLC. *)
EXTENDS TransitionStore, FiniteSets

CONSTANTS
  u1, u2, u3,    \* transition ids; u3 is not derived from an identity
  first, second, third,  \* identities: reward schemas of one decision
  plain, fixed   \* contents

Add(id, identity, content) ==
  [item |-> [id |-> id, identity |-> identity, content |-> content], supersedes |-> None]
Correct(id, identity, content, original) ==
  [Add(id, identity, content) EXCEPT !.supersedes = original]

\* A transition, its identity with another content, and its content under
\* another id; a correction under two ids and with two contents, also added as
\* if it were none; a correction of the correction, whose id is taken if the
\* correction has it.
MCRequests ==
  {Add(u1, first, plain), Add(u1, first, fixed), Add(u3, first, plain),
   Correct(u2, second, fixed, u1), Correct(u3, second, fixed, u1),
   Correct(u2, second, plain, u1), Add(u2, second, fixed),
   Correct(u2, third, fixed, u3)}
=============================================================================
