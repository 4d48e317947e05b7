----------------------------- MODULE MCCliCount -----------------------------
(* Model checking of CliCount on every text up to a length. *)
EXTENDS CliCount

CONSTANTS MaxText, Symbols

SmallTexts == UNION {[1..m -> Symbols] : m \in 1..MaxText}

=============================================================================
