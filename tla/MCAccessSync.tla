----------------------------- MODULE MCAccessSync -----------------------------
(* Instances of AccessSync for TLC. *)
EXTENDS AccessSync, TLC

CONSTANTS tick, sweep, office, anywhere, internal, public, partners

\* The presets an administrator may store: a network, everybody, nothing.
SomeCidrs == {{office}, {anywhere}, {}}

\* One preset beside those of the schema.
OnePreset == [n \in Presets |-> IF n = partners THEN {office} ELSE {}]

\* A rule of its own for a partner's network, or none.
RuleSources == {{}, {office}}
===============================================================================
