-------------------------- MODULE MCReplaySession --------------------------
(* Small instances of ReplaySession for TLC. *)
EXTENDS ReplaySession

\* Refused, default, ceiling, above the ceiling.
MCBudgets == {0, 100, 250, 300}

\* Prompt, late for the default budget, too late for any, and a prompt answer
\* the translator refuses.
MCAnswers == {[latency |-> 50, usable |-> TRUE], [latency |-> 200, usable |-> TRUE],
              [latency |-> 400, usable |-> TRUE], [latency |-> 50, usable |-> FALSE]}

\* Prompt, or too late for any budget.
MCPromptOrLate == {[latency |-> 50, usable |-> TRUE], [latency |-> 400, usable |-> TRUE]}
=============================================================================
