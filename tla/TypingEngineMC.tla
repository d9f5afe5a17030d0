--------------------------- MODULE TypingEngineMC ---------------------------
EXTENDS TypingEngine

Default == [method |-> "Telex", spell |-> TRUE, bypass |-> FALSE, modern |-> TRUE, zwjf |-> FALSE,
            quick |-> FALSE, qstart |-> FALSE, qend |-> FALSE, restore |-> TRUE, excl |-> {},
            map |-> <<>>]
Sc(c, keys, len, back) == [cfg |-> c, keys |-> keys, len |-> len, back |-> back, revive |-> FALSE]
With(c, keys, len) == [Sc(c, keys, len, 0) EXCEPT !.revive = TRUE]
MCScenarios ==
  { Sc(Default, {"t", "o", "a", "n", "s"}, 6, 0),
    Sc(Default, {"t", "o", "a", "n", "s"}, 5, 2),
    Sc([Default EXCEPT !.modern = FALSE], {"h", "u", "y", "n", "f"}, 6, 0),
    Sc(Default, {"h", "u", "o", "w", "s"}, 6, 0),
    Sc(Default, {"t", "u", "o", "n", "g", "w", "f"}, 6, 0),
    Sc(Default, {"q", "u", "o", "c", "s", "e", "r"}, 5, 1),
    Sc(Default, {"n", "g", "h", "i", "e", "x"}, 6, 0),
    Sc([Default EXCEPT !.method = "VNI"], {"t", "o", "a", "n", "1", "8"}, 6, 0),
    Sc(Default, {"u", "o", "a", "w", "c"}, 5, 1),
    Sc(Default, {"d", "i", "e", "n", "r"}, 6, 0),
    Sc(Default, {"y", "e", "u", "s", "g"}, 5, 0),
    Sc(Default, {"g", "i", "q", "u", "a", "z"}, 5, 0),
    Sc([Default EXCEPT !.method = "Combined"], {"a", "s", "1", "6", "8", "p"}, 5, 0),
    Sc([Default EXCEPT !.method = "VNI"], {"u", "o", "7", "5", "d", "9"}, 5, 1),
    Sc([Default EXCEPT !.method = "SimpleTelex"], {"w", "a", "]", "t"}, 5, 1),
    Sc([Default EXCEPT !.spell = FALSE], {"a", "t", "u", "s", "e"}, 5, 1),
    Sc([Default EXCEPT !.bypass = TRUE], {"y", "e", "s", "w"}, 5, 1),
    Sc([Default EXCEPT !.quick = TRUE, !.qend = TRUE], {"n", "u", "c", "g", "s"}, 5, 2),
    Sc([Default EXCEPT !.qstart = TRUE, !.zwjf = TRUE], {"f", "w", "a", "h"}, 5, 2),
    Sc([Default EXCEPT !.excl = {<<Lit("d"), <<"a", "circ", "none">>, Lit("k")>>}], {"d", "a", "k", "x"}, 5, 1),
    Sc([Default EXCEPT !.method = "User",
          !.map = [x |-> "InsertUHorn", s |-> "acute", z |-> "UndoAllMarks", w |-> "HornOrInsertU",
                   v |-> "VniHorn", k |-> "HornOrInsertUNoStart"]], {"x", "s", "z", "w", "o", "v", "k"}, 5, 0),
    With(Default, {"t", "o", "a", "n", "s"}, 5),
    Sc(Default, {"[", "]", "s", "n"}, 5, 1) }
=============================================================================
