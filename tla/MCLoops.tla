-------------------------------- MODULE MCLoops --------------------------------
\* The smallest constants that let the cases of each component happen.
EXTENDS Loops

\* A ceiling, a factor, and no occlusion.
MCOcclusions == {-40, 40, 100}

\* Two lines of text over glyphs of different sizes, of which a page holds two
\* or three; glyph 5 is empty, 6 cannot be loaded.
MCTexts == {<<1, 2, 5>>, <<3, 4, 6>>}
MCWidth == <<1, 1, 2, 2, 0, 1>>
MCHeight == <<2, 1, 1, 2, 0, 1>>
MCBytes == <<{1}, {2}, {3}, {2}, {5}, {6}>>

\* All triangles and quadrangles on a grid of 3 by 3, degenerate ones too.
Point(h, v) == [x |-> h, y |-> v]
Grid == {Point(h, v) : h \in 0..2, v \in 0..2}
MCPolygons == [1..3 -> Grid] \cup [1..4 -> Grid]
MCBends == {<<>>, <<Point(1, 1)>>, <<Point(2, 0)>>}

\* Values that spell options, an option given twice, bare ones, one of them last.
Option(key, value) == [key |-> key, value |-> value]
MCCommandLines ==
    {<<>>,
     <<Option("opengl", "none"), Option("login", "amy"), Option("password", "character"),
       Option("character", "bob")>>,
     <<Option("password", "pw"), Option("character", "login"), Option("realmlist", "home"),
       Option("login", "amy"), Option("login", "bob")>>,
     <<Option("realmname", "realmlist"), Option("login", "password"),
       Option("character", "bob"), Option("password", "none")>>}

MCRosters == {<<"ann">>, <<"login", "bob">>}
===============================================================================
