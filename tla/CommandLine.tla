------------------------------ MODULE CommandLine ------------------------------
(***************************************************************************)
(* Logging in from the command line of the game: the options of a launch   *)
(* are looked up when the login screen has loaded and whenever the list of *)
(* characters arrives, and each of the two may act once in the process.    *)
(***************************************************************************)
EXTENDS Naturals, Sequences, SequencesExt, FiniteSets

CONSTANTS Launches,   \* launches: sequences of [key, value], value Nothing for a bare option
          Rosters,    \* lists of characters the realms have
          Nothing

VARIABLES launch,      \* history: the options as the player meant them
          args,        \* s_commandLine, without the program's name
          screen,      \* "start", "login", "characters" or "world"
          realm,       \* the CVars realmList and realmName
          posted,      \* s_once of gluexml_postload
          chosen,      \* s_once of gluexml_charenum
          logins,      \* history: what NetClient::Login was called with
          roster,      \* LoginUI::GetChars
          offered,     \* history: the named character was in a list
          entered      \* history: who LoginUI::EnterWorld was called for

vars == <<launch, args, screen, realm, posted, chosen, logins, roster, offered, entered>>

\* A word that starts with a dash or a slash is an option.
Word(flag, text) == [flag |-> flag, text |-> text]
Words(o) == IF o.value = Nothing THEN <<Word(TRUE, o.key)>>
            ELSE <<Word(TRUE, o.key), Word(FALSE, o.value)>>

Keys == {"realmlist", "realmname", "login", "password", "character"}

\* What the player meant by a key.
Given(key) ==
    LET Meant == {i \in 1..Len(launch) : launch[i].key = key /\ launch[i].value # Nothing}
    IN  IF Meant = {} THEN Nothing ELSE launch[Min(Meant)].value

TypeOK ==
    /\ launch \in Launches /\ screen \in {"start", "login", "characters", "world"}
    /\ posted \in BOOLEAN /\ chosen \in BOOLEAN /\ offered \in BOOLEAN
    /\ Len(logins) <= 1 /\ Len(entered) <= 1
    /\ roster \in Rosters \cup {<<>>}

Init ==
    /\ launch \in Launches /\ args = FlattenSeq([i \in DOMAIN launch |-> Words(launch[i])])
    /\ screen = "start" /\ realm = [list |-> Nothing, name |-> Nothing]
    /\ posted = FALSE /\ chosen = FALSE /\ offered = FALSE
    /\ logins = <<>> /\ roster = <<>> /\ entered = <<>>

-------------------------------------------------------------------------------
GetParamInValues(key) ==   \* mutant: a value is taken for the option it spells
    LET Hits == {i \in 1..(Len(args) - 1) : args[i].text = key}
    IN  IF Hits = {} THEN Nothing
        ELSE args[Min(Hits) + 1].text

\* The word after the first that is the option.
GetParam(key) ==
    LET Hits == {i \in 1..(Len(args) - 1) : args[i].flag /\ args[i].text = key}
    IN  IF Hits = {} THEN Nothing
        ELSE args[Min(Hits) + 1].text

SetCVarFromParam(key, old) == IF GetParam(key) = Nothing THEN old ELSE GetParam(key)

\* gluexml_postload, after the client has loaded its login screen: at the
\* start, and again on the way back from the world.
PostLoad ==
    /\ screen \in {"start", "world"}
    /\ IF posted THEN UNCHANGED <<realm, posted, logins>>
       ELSE /\ posted' = TRUE
            /\ realm' = [list |-> SetCVarFromParam("realmlist", realm.list),
                         name |-> SetCVarFromParam("realmname", realm.name)]
            /\ logins' = IF Nothing \in {GetParam("login"), GetParam("password")} THEN logins
                         ELSE Append(logins, <<GetParam("login"), GetParam("password")>>)
    /\ screen' \in {"login", "characters"}
    /\ UNCHANGED <<launch, args, chosen, roster, offered, entered>>

\* gluexml_charenum, after a list of characters has arrived.
CharEnum(list) ==
    LET name == GetParam("character")
    IN  /\ screen \in {"login", "characters"}
        /\ roster' = list
        /\ offered' = (offered \/ (Given("character") # Nothing /\ Contains(list, Given("character"))))
        /\ IF ~chosen /\ name # Nothing /\ Contains(list, name)
           THEN /\ chosen' = TRUE
                /\ entered' = Append(entered, name) /\ screen' = "world"
           ELSE screen' = "characters" /\ UNCHANGED <<chosen, entered>>
        /\ UNCHANGED <<launch, args, realm, posted, logins>>

\* The player picks a character.
EnterByHand ==
    /\ screen = "characters" /\ roster # <<>> /\ screen' = "world"
    /\ UNCHANGED <<launch, args, realm, posted, chosen, logins, roster, offered, entered>>

Next == PostLoad \/ (\E list \in Rosters : CharEnum(list)) \/ EnterByHand

Spec == Init /\ [][Next]_vars

-------------------------------------------------------------------------------
\* Properties.

\* When no value looks like an option, each option gets the value meant for it
\* whatever the others' values spell: the login and the realm are those of the
\* launch, and the client enters the world by itself exactly when the named
\* character has been in a list, once (CommandLine.cpp:12-57).
LaunchAsMeant ==
    /\ posted =>
        /\ realm = [list |-> Given("realmlist"), name |-> Given("realmname")]
        /\ logins = IF Nothing \in {Given("login"), Given("password")} THEN <<>>
                    ELSE <<<<Given("login"), Given("password")>>>>
    /\ entered = IF offered THEN <<Given("character")>> ELSE <<>>
===============================================================================
