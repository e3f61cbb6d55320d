---------------------------- MODULE MCLineEditor ----------------------------
(* Small instances of LineEditor: one letter and a blank; the letter is the exit word. *)
EXTENDS LineEditor

MCLetters == {"a", " "}
MCExitWords == {<<"a">>}

PlainKeys == {<<"a">>, <<" ">>, <<DEL>>, LeftKey, RightKey, <<NEWLINE>>, <<EOT>>}
MoreKeys == PlainKeys \cup {UpKey, <<UNPRINTABLE>>, EscapeKey}
KeysWithDelete == {<<"a">>, DeleteKey}

MCGarbage == {"a"}
NoGarbage == {NUL}
=============================================================================
