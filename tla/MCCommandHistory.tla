--------------------------- MODULE MCCommandHistory ---------------------------
EXTENDS CommandHistory, TLC
CONSTANTS p1, p2, a, b, c, n, m
\* One pane in each of two windows, and tables in which two hosts have the command a, with a star and
\* a note on both rows, and with a note without a star on the later one.
MCProgram == p1 :> p1 @@ p2 :> p2
Symmetry == Permutations({p1, p2})
OldRow(command, note, favorite) == [command |-> command, note |-> note, favorite |-> favorite]
MCOldTables == {<<OldRow(a, m, TRUE), OldRow(b, NoNote, FALSE), OldRow(a, n, TRUE)>>,
                <<OldRow(a, n, TRUE), OldRow(b, NoNote, FALSE), OldRow(a, m, FALSE)>>}
=============================================================================
