---- MODULE MCSettings ----
(***************************************************************************)
(* The settings of an instance and the configuration of a macro, side by   *)
(* side: they share operators and no variable, so a behavior steps one of  *)
(* them, its subject, and leaves the other where it started.  The subjects *)
(* of MinecraftSettings differ in the requests the clients make.           *)
(***************************************************************************)
EXTENDS MinecraftSettings, MacroSettings, TLC

VARIABLE subject   \* the requests made of the instance; {}: the macro steps

allVars == <<setVars, macVars, subject>>

Symmetry == Permutations(Clients)

MCPiece   == [t \in {-9} |-> -8]

\* A text with a second line, which sets pvp, and one whose second line sets nothing.
Two     == -7
Torn    == -6
MCBreaks == (Two  :> [first |-> 4, rest |-> "pvp" :> 0, whole |-> TRUE]) @@
            (Torn :> [first |-> 4, rest |-> Empty,      whole |-> FALSE])
MCComments == {"#x"}

MCSqueeze == [t \in {9} |-> 8]

Req(op, sec, id, val) == [op |-> op, sec |-> sec, id |-> id, val |-> val]

View    == Req("view", Props, "", Value("unsigned", 0))
Port    == Req("port", Props, "server-port", Value("unsigned", 70000))
SetBigPort == Req("update", Props, "server-port", Value("unsigned", 70000))
Ram     == Req("update", Cmd, "max_ram", Value("unsigned", 3))
Label   == Req("label", Cmd, "", Value("string", 2))
NoLabel == Req("label", Cmd, "", Value("string", 0))
Version == Req("version", Cmd, "", Value("enum", 2))
TwoLines  == Req("update", Props, "motd", Value("string", Two))
TornLines == Req("update", Props, "motd", Value("string", Torn))

Menus == {{View}, {View, SetBigPort}, {View, Port}, {View, TwoLines, TornLines},
          {Ram, NoLabel, Label}, {Label, Version}}

\* bound: which subjects may leave a late write of the config file, which a late
\* opening of server.properties, in which one request is made at a time, and in
\* which every save succeeds
LateConfigMenus == {{Ram, NoLabel, Label}, {Label, Version}}
LatePropsMenus  == {{View, Port}}
OneByOneMenus   == {{View, TwoLines, TornLines}}
SavedMenus      == {{View, SetBigPort}}

MCRequests == UNION Menus

\* The text of motd has a "=", and one key begins with "#".
Short == ("server-port" :> 1) @@ ("motd" :> -9)
Long  == Short @@ ("pvp" :> 1) @@ ("difficulty" :> 2) @@ ("max-tick-time" :> -1)
              @@ ("query.port" :> 65535) @@ ("#x" :> 6)

MCTexts == {Short, Long}

\* The port line may be repaired by hand.
MCEdits == {<<"server-port", 1>>}

Str == Unbounded("string")
EnumOf(s) == Type("enum", {}, {}, {s})
F(opt, def, t) == [optional |-> opt, default |-> def, type |-> t]
Source(fields) == [declared |-> TRUE, fields |-> fields]
OneField(f) == Source([n \in {"x"} |-> f])

\* No class; a field that is optional, has a default, lacks one; an enum; two fields.
MCSources == {
  [declared |-> FALSE, fields |-> Nothing],
  OneField(F(TRUE, {}, Str)),
  OneField(F(FALSE, {Value("string", 9)}, Str)),
  OneField(F(FALSE, {}, Str)),
  OneField(F(FALSE, {Value("enum", 1)}, EnumOf({1, 2}))),
  OneField(F(TRUE, {Value("enum", 3)}, EnumOf({2, 3}))),
  Source([n \in {"x", "y"} |-> IF n = "x" THEN F(FALSE, {Value("string", 1)}, Str)
                                      ELSE F(TRUE, {Value("enum", 1)}, EnumOf({1, 2}))])}

\* A value of another kind than its type, one of a kind that is refused, none for a
\* field that needs one, and a name that no class has.
Stored(opt, t) == [n \in {"x"} |-> [value |-> opt, type |-> t]]
MCUploads == {Stored({Value("boolean", 1)}, Str), Stored({Value("integer", 1)}, Str),
              Stored({}, Str), [n \in {"z"} |-> Stored({}, Str)["x"]]}

Init ==
  /\ SetInit
  /\ MacInit
  /\ \/ /\ subject = {}
        /\ props.text = Short
     \/ /\ subject \in Menus
        /\ props.text = IF subject = {View} THEN Long ELSE Short
        /\ source = CHOOSE s \in Sources : TRUE
        /\ folder

SettingsStep ==
  /\ subject # {}
  /\ SetNext
  /\ \A c \in Clients : req'[c] \in subject \union {NoRequest}
  /\ subject \in LateConfigMenus \/ lateConfig' = {}
  /\ subject \in LatePropsMenus \/ lateProps' = 0
  /\ subject \in SavedMenus => ~unsaved'
  /\ subject \in OneByOneMenus => Cardinality({c \in Clients : at'[c] # "idle"}) <= 1
  /\ UNCHANGED <<macVars, subject>>

MacroStep ==
  /\ subject = {}
  /\ MacNext
  /\ UNCHANGED <<setVars, subject>>

Next == SettingsStep \/ MacroStep

Spec == Init /\ [][Next]_allVars
====
