--------------------------- MODULE MCTerminalView ---------------------------
EXTENDS TerminalView
\* "W" is wide, "'" combines; the window has a few columns, the start fills and wraps them.
MCNarrow == {"a", "b", "$", " "}
MCSizes == {<<2, 2>>, <<3, 2>>, <<5, 3>>}
MCQuery == <<"W", "b">>
MCRecalled == <<"b">>
MCPastes == {<<"a", "Enter">>, <<"a", "Enter", "W">>}
Char(ch) == Out("character", ch, 1, 1)
NewLine == <<Out("control", "CR", 1, 1), Out("control", "LF", 1, 1)>>
MCStarts ==
    {<<Char("a"), Char(" "), Char("b"), Char("W")>>,
     <<Char("a"), Char("W"), Char("b")>> \o NewLine \o <<Char("W"), Char("'"), Char("b")>> \o NewLine \o <<Char("a")>>}
MCOutputs ==
    {Char("a"), Char("W"), Char("'")}
    \cup {Out("control", ch, 1, 1) : ch \in {"CR", "LF", "BS", "HT"}}
    \cup {Out("escape", ch, 1, 1) : ch \in {"7", "8", "D", "E", "M", "c"}}
    \cup {Out("csi", ch, 1, 1) : ch \in {"A", "B", "C", "D", "E", "F", "S", "T", "X", "P", "@", "L", "M", "K"}}
    \cup {Out("csi", "H", 2, 2), Out("csi", "G", 3, 1), Out("csi", "d", 2, 1), Out("csi", "r", 2, 3),
          Out("csi", "s", 1, 1), Out("csi", "u", 1, 1), Out("csi", "J", 0, 1), Out("csi", "J", 1, 1),
          Out("csi", "J", 2, 1), Out("csi", "J", 3, 1)}
    \cup {Out("shade", "", 1, 1), Out("enter", "", 1, 1), Out("leave", "", 1, 1), Out("leave", "", 0, 1)}
=============================================================================
