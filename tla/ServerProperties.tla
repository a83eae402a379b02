---- MODULE ServerProperties ----
(***************************************************************************)
(* What each line of server.properties and each launch argument becomes as *)
(* a setting: the conversions of                                           *)
(* core/src/implementations/minecraft/configurable.rs, as operators.       *)
(*                                                                         *)
(* The text right of a "=" is an integer: the number it spells when it     *)
(* spells one (-1 is a legal value of max-tick-time and does not parse as  *)
(* a u32), 0 and 1 for false and true, the index of an option for an enum, *)
(* or any other.  A file is a function from keys to such texts: comments   *)
(* and empty lines are dropped, of two lines with one key the last stays.  *)
(*                                                                         *)
(* Three things that are written are read back as something else.  A text  *)
(* with a "=" or with blanks at its ends is read as what is left of them;  *)
(* a text with a line break is printed as several lines, which set other   *)
(* keys or, without a "=", make the whole file unreadable; and a key that  *)
(* begins with "#" (its line was indented) is printed as a comment.  Such  *)
(* texts spell nothing that parses, and are numbered below zero.           *)
(***************************************************************************)
EXTENDS SettingsManifest

CONSTANTS
  Piece,     \* the texts that are cut -> what is left of them
  Breaks,    \* the texts with a line break -> their first line, the further
             \*   lines, and whether each of those has a "="
  Comments   \* the keys whose line is a comment

ASSUME PieceAssumption ==
  \A t \in DOMAIN Piece : t < 0 /\ Piece[t] \in Int /\ Piece[t] \notin DOMAIN Piece

ASSUME BreaksAssumption ==
  \A t \in DOMAIN Breaks :
    /\ t < 0 /\ Breaks[t].first \in Int
    /\ \A k \in DOMAIN Breaks[t].rest : Breaks[t].rest[k] \in Int

Cut(raw) == IF raw \in DOMAIN Piece THEN Piece[raw] ELSE raw

FirstLine(raw) == IF raw \in DOMAIN Breaks THEN Breaks[raw].first ELSE raw

\* A text that its line keeps.
Plain(raw) == raw \notin DOMAIN Piece \union DOMAIN Breaks

-----------------------------------------------------------------------------
(* server.properties *)

\* The identifiers by the type their variant carries; all others are texts.
ServerPropertySetting == [
  boolean |-> {"enable-jmx-monitoring", "enable-command-block", "enable-query",
    "enforce-secure-profile", "pvp", "generate-structures", "require-resource-pack",
    "use-native-transport", "online-mode", "enable-status", "allow-flight",
    "broadcast-rcon-to-ops", "allow-nether", "enable-rcon", "sync-chunk-writes",
    "prevent-proxy-connections", "hide-online-players", "force-gamemode", "hardcore",
    "white-list", "broadcast-console-to-ops", "previews-chat", "spawn-npcs",
    "spawn-animals", "spawn-monsters", "enforce-whitelist"},
  u16 |-> {"rcon.port", "query.port", "server-port"},
  u32 |-> {"max-chained-neighbor-updates", "network-compression-threshold",
    "max-tick-time", "max-players", "view-distance", "op-permission-level",
    "entity-broadcast-range-percentage", "simulation-distance", "player-idle-timeout",
    "rate-limit", "function-permission-level", "spawn-protection", "max-world-size",
    "max-build-height"},
  enum |-> {"gamemode", "difficulty"}]

KindOf(key) ==
  CASE key \in ServerPropertySetting.boolean -> "boolean"
    [] key \in ServerPropertySetting.enum    -> "enum"
    [] key \in ServerPropertySetting.u16 \union ServerPropertySetting.u32 -> "unsigned"
    [] OTHER -> "string"

\* survival, creative, adventure, spectator; peaceful, easy, normal, hard.
EnumOptions == 0 .. 3

\* Mutant: the second of two ports is read as a text.
FromKeyValText(key, raw) ==
  {Value(IF key = "query.port" THEN "string" ELSE KindOf(key), raw)}

\* The Option of a value: "expected bool", "expected u16", ... is the empty one.
FromKeyVal(key, raw) ==
  IF \/ key \in ServerPropertySetting.boolean /\ raw \notin {0, 1}
     \/ key \in ServerPropertySetting.enum /\ raw \notin EnumOptions
     \/ KindOf(key) = "unsigned" /\ raw < 0
     \/ key \in ServerPropertySetting.u16 /\ raw > U16Max
  THEN {} ELSE {Value(KindOf(key), raw)}

\* server-port is a u16 in the file but, unlike the two other ports, an
\* unbounded unsigned integer in the manifest.
PropertyManifest(key, val) ==
  CASE key \in {"rcon.port", "query.port"} ->
         NewWithType({val}, Type("unsigned", {0}, {U16Max}, {}))
    [] key \in ServerPropertySetting.enum ->
         NewWithType({val}, Type("enum", {}, {}, {EnumOptions}))
    [] OTHER -> NewRequired(val)

\* try_from has no arm for these, which become Unknown; it asks for
\* max-chained-neighbor-updates as a signed integer, which no setting is, and
\* for gamemode as a string.
WithoutArm == {"difficulty", "network-compression-threshold", "require-resource-pack",
               "player-idle-timeout", "force-gamemode", "enforce-whitelist"}

AskedAs(key) ==
  CASE key = "max-chained-neighbor-updates" -> "integer"
    [] key = "gamemode"                     -> "string"
    [] OTHER                                -> KindOf(key)

\* The Option of a variant, named by its identifier, and its value.
TryFromManifest(key, s) ==
  IF key \in WithoutArm THEN {[variant |-> "Unknown", v |-> val.v] : val \in s.value}
  ELSE {[variant |-> key, v |-> val.v] :
          val \in {x \in s.value : /\ x.kind = AskedAs(key)
                                   /\ key \in ServerPropertySetting.u16 => x.v <= U16Max}}

ReadProperties(text) == [key \in DOMAIN text |-> Cut(text[key])]

\* What may be in a file in which each of values is printed as "key=value": of a
\* line of its own and one that another value brings along, the last stays, and
\* the order of the settings is left out.
Printed(values) ==
  LET keys  == DOMAIN values \ Comments
      broken == {k \in DOMAIN values : values[k] \in DOMAIN Breaks}
      more  == UNION {{<<j, Breaks[values[k]].rest[j]>> : j \in DOMAIN Breaks[values[k]].rest} :
                        k \in broken}
      line(j, last) == IF \E e \in last : e[1] = j
                       THEN (CHOOSE e \in last : e[1] = j)[2] ELSE FirstLine(values[j])
  IN [status : {IF \A k \in broken : Breaks[values[k]].whole THEN "ok" ELSE "garbled"},
      text   : {[j \in keys \union {e[1] : e \in more} |-> line(j, last)] :
                  last \in {l \in SUBSET more : \A e \in more : e[1] \in keys \/ e \in l}}]

-----------------------------------------------------------------------------
(* Launch arguments *)

CmdArgKinds == [min_ram  |-> "unsigned", max_ram |-> "unsigned",
                java_cmd |-> "string",   cmd_args |-> "string"]

CmdArgKeys == DOMAIN CmdArgKinds

CmdArgManifest(key, n) ==
  NewOptional({Value(CmdArgKinds[key], n)},
              IF CmdArgKinds[key] = "unsigned" THEN Type("unsigned", {0}, {}, {})
                                               ELSE Unbounded("string"))
====
