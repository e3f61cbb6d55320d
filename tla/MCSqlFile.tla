------------------------------ MODULE MCSqlFile ------------------------------
(* Small instances of SqlFile: every text up to a length. *)
EXTENDS SqlFile

TextsOver(bytes, n) == UNION {[1..k -> bytes] : k \in 0..n}

MCLetters == {"a"}
MCDigits == {"1"}
StatementBytes == {"a", "1", QUOTE, ";", " ", "+", "\f", "?"}
MCTexts == TextsOver(StatementBytes, 5)
=============================================================================
