------------------------------ MODULE MCFeatures ------------------------------
\* The smallest constants that let the cases of each component happen.
EXTENDS Features

\* One object of each kind the highlight tells apart.
Thing(name, type, usable, mark, own) ==
    [name |-> name, type |-> type, usable |-> usable, mark |-> mark, own |-> own]

MCThings == {Thing("crate", "chest", TRUE, FALSE, FALSE),
           Thing("ore", "node", TRUE, FALSE, FALSE),
           Thing("board", "questgiver", TRUE, FALSE, TRUE),
           Thing("giver", "questgiver", FALSE, TRUE, FALSE),
           Thing("chair", "other", TRUE, FALSE, FALSE)}

MCSapiTokens == {[name |-> "anna", described |-> TRUE], [name |-> "ben", described |-> TRUE],
               [name |-> "none", described |-> FALSE]}

\* Near and behind, near, out of reach, and near but not to be used.
Spot(distance, valid, ahead) == [distance |-> distance, valid |-> valid, ahead |-> ahead]
MCSpots == {Spot(1, TRUE, FALSE), Spot(2, TRUE, TRUE), Spot(3, TRUE, TRUE), Spot(1, FALSE, TRUE)}

FontFile(name, hasOutline, safe, listed) ==
    [name |-> name, outline |-> hasOutline, safe |-> safe, listed |-> listed]
MCFontFiles == {FontFile("plain", TRUE, TRUE, FALSE), FontFile("crossed", TRUE, FALSE, FALSE),
              FontFile("blacklisted", TRUE, TRUE, TRUE)}

MCRank == <<1, 5, 5>>
MCPlace == <<2, 3>>
MCVoiceNumbers == {-1, 1, 5}
===============================================================================
