----------------------------- MODULE MCTerminal -----------------------------
(* An instance of the terminal.                                            *)
EXTENDS Terminal

\* Nothing, and two texts, the first with a line feed in it.
ShortOutputs == {<<>>, <<<<"o", "\n", "o">>, <<"o">>>>}

\* The ring has been overrun, a test task has printed: nothing is left to say.
Undisturbed == ~overrun /\ ~printed
=============================================================================
