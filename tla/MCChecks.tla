------------------------------ MODULE MCChecks ------------------------------
(***************************************************************************)
(* Checks on one paged document of two pages, one text of the web, five    *)
(* problems and a few numbers, in tenths: 12.5 with its roundings and      *)
(* restatements, what is left of it at a cut, and the 3 characters cut.    *)
(***************************************************************************)
EXTENDS Checks

MCWords == {"a", "b", "c", "d", "e", "u", "v", "x", "aside"}
MCDocs == {[paged |-> TRUE, pages |-> <<<<"a", "b", "a", "c">>, <<"c", "d">>>>]}
MCWeb == {<<"e", "a">>}
MCSaid == {<<"u", "v">>}
MCQueries == {<<"x", "d">>, <<"x", "e">>}
MCParts == [v \in {125, 4} |-> IF v = 125 THEN {20} ELSE {}]

Opt(text, number) == [text |-> text, number |-> number, letter |-> 0]
Prob(kind, options, answer, code, quote) ==
    [kind |-> kind, options |-> options, answer |-> answer, code |-> code, quote |-> quote]

MCProblems ==
    {Prob("number", <<>>, Opt("12.5", {125}), TRUE, <<>>),
     Prob("number", <<>>, Opt("-1.25e2", {-1250}), FALSE, <<<<"a">>, <<"c">>>>),
     Prob("choice", <<Opt("red", {}), Opt("3", {30})>>,
          [text |-> "B", number |-> {}, letter |-> 2], TRUE, <<<<"b", "a">>>>),
     Prob("short", <<>>, Opt("words", {}), FALSE, <<<<"x", "e">>>>),
     Prob("choice", <<Opt("red", {}), Opt("4", {40})>>, Opt("blue", {}), FALSE, <<>>)}

Num(value, unit) ==
    [value |-> value, unit |-> unit, exact |-> unit = 0, small |-> FALSE,
     beside |-> {}, result |-> {}]

Says(frags, page, number) ==
    [quotation |-> [frags |-> frags, page |-> page], number |-> number]

MCReplies ==
    {Says(<<<<"a">>, <<"c">>, <<"c">>>>, 0, Num(130, 10)),   \* across the page break
     Says(<<<<"c", "c">>>>, 0, Num(25, 0)),                  \* over it; 5/2, for 1/0.4
     Says(<<<<"a", "c">>>>, 2, Num(-130, 10)),               \* on the other page
     Says(<<<<"c">>, <<"b">>>>, 1,                           \* out of order
          [Num(5, 1) EXCEPT !.result = {Num(12500, 10)}]),   \* ... = 1,250 %
     Says(<<<<"u", "v">>>>, 1, Num(30, 1)),                  \* the user's own
     Says(<<<<"x", "e">>>>, 0, [Num(25, 1) EXCEPT !.beside = {50}]),
     Says(<<<<"d">>>>, 1, Num(125000, 10))}                  \* too short; 12,500 m

MCAnswers ==
    {[text |-> "13", number |-> {130}, figs |-> 2],
     [text |-> "12", number |-> {120}, figs |-> 2],
     [text |-> "3", number |-> {-1300}, figs |-> 3],
     [text |-> "-1.3e2", number |-> {-1300}, figs |-> 2],
     [text |-> "25/2", number |-> {125}, figs |-> 0]}
=============================================================================
