----------------------------- MODULE MCPipedRepl -----------------------------
(* Small instances of PipedRepl. *)
EXTENDS PipedRepl

InputsUpTo(n) == UNION {[1..k -> {"a", "b", " ", NEWLINE}] : k \in 0..n}
MCInputs == InputsUpTo(5) \cup {t \o <<"\r", NEWLINE>> : t \in InputsUpTo(3)}
MCShortInputs == InputsUpTo(4)
MCExitWords == {<<"b">>}
=============================================================================
