---------------------------- MODULE MCReloader ----------------------------
\* TLC instances of Reloader.
EXTENDS Reloader
CONSTANTS p1, p2

Text(ok, first, second) ==
  [decodes |-> ok, entries |-> [p \in Providers |-> IF p = p1 THEN first ELSE second]]

\* A provider with an inline token beside one with a token file, the first alone, and a file
\* cut short.
MCTexts == {Text(TRUE, "inline", "file"), Text(TRUE, "inline", "none"),
            Text(FALSE, "none", "none")}
=============================================================================
