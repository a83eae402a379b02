---- MODULE MinecraftSettings ----
(***************************************************************************)
(* The settings of one Minecraft instance: the manifest in memory, the     *)
(* RestoreConfig in memory, and the three files they must agree with       *)
(* (.lodestone_minecraft_config.json, server.properties and server.jar),   *)
(* under concurrent requests                                               *)
(* (core/src/implementations/minecraft/configurable.rs) and restarts       *)
(* (core/src/implementations/minecraft/mod.rs).  A request is split where  *)
(* it awaits a file or a lock.                                             *)
(*                                                                         *)
(* tokio gives a file operation to a blocking thread.  When the client     *)
(* hangs up while it waits for one, the future and the locks it holds are  *)
(* gone, and the thread goes on: what it has yet to do is "late".          *)
(*                                                                         *)
(* auto_start, name and description are one field, "label": each is set    *)
(* under the config lock and written out, and none is read here.           *)
(***************************************************************************)
EXTENDS ServerProperties

CONSTANTS
  Clients,      \* concurrent requests for the instance
  Requests,     \* the requests a client may make, see Request
  InitialTexts, \* what server.properties may be when the instance is restored
  MaxInflight,  \* bound: how many writes of server.properties may be pending
  MaxLate,      \* bound: how many late operations there may be on each file
  HandEdits     \* <<key, text>>: what may be changed in the file by hand

VARIABLES
  manifest,    \* MinecraftInstance.configurable_manifest
  config,      \* MinecraftInstance.config, a RestoreConfig
  cfgLock,     \* the client that holds the mutex of config across an await
  configFile,  \* the config file: "empty", "whole" or "torn", and its content
  props,       \* server.properties: "ok" or "garbled", and its text
  inflight,    \* what has been handed to its file and not yet written
  jar,         \* the version server.jar is
  lateConfig,  \* the writes of the config file of clients that hung up: what
               \*   is written, and whether the file has been opened
  lateProps,   \* how many openings of server.properties are late
  lateJar,     \* the versions whose renaming into place is late
  alive,       \* is the program up, with the instance restored?
  at,          \* where each client is
  req,         \* the request each client makes
  seen,        \* the text a client has read from server.properties
  alone,       \* the clients whose request no other has overlapped so far
  misread,     \* the clients whose update could not read server.properties
  unsaved,     \* config was set, and the write of it failed or came late
  swapped      \* two changes of version have overlapped, or one was cut short

setVars == <<manifest, config, cfgLock, configFile, props, inflight, jar, lateConfig,
             lateProps, lateJar, alive, at, req, seen, alone, misread, unsaved, swapped>>
lateVars   == <<lateConfig, lateProps, lateJar>>
fileVars   == <<configFile, props, inflight, jar, lateVars>>
clientVars == <<seen, unsaved, swapped>>
reqVars    == <<at, req, alone, misread, clientVars>>

NoClient == "no_client"
Cmd   == "cmd_args_section"
Props == "server_properties_section"
Empty == [k \in {} |-> 0]
Blank == [status |-> "ok", text |-> Empty]

\* f, and g where f is not defined.
Over(f, g) == [k \in DOMAIN f \union DOMAIN g |-> IF k \in DOMAIN f THEN f[k] ELSE g[k]]

\* A request: op, and for what it sets the section, the setting and the value.
Request == [op : {"view", "update", "port", "label", "version"},
            sec : {Cmd, Props}, id : STRING, val : Values]

NoRequest == [op |-> "none"]

ASSUME ClientsAssumption == NoClient \notin Clients

ASSUME RequestsAssumption == Requests \subseteq Request

\* What a file says is numbered.
Text(text) == \A k \in DOMAIN text : text[k] \in Int

ASSUME TextsAssumption ==
  /\ \A text \in InitialTexts : Text(text)
  /\ \A edit \in HandEdits : edit[2] \in Int

-----------------------------------------------------------------------------
(* Between memory and files *)

InitManifest(cfg) ==
  [sec \in {Cmd, Props} |->
     IF sec = Props THEN Empty
     ELSE [k \in CmdArgKeys |-> CmdArgManifest(k, IF k = "java_cmd" THEN 0 ELSE cfg[k])]]

\* Lines that do not parse are logged and skipped; settings that have no line
\* keep the value they had.
ApplyProperties(m, text) ==
  LET lines  == ReadProperties(text)
      parsed == {k \in DOMAIN lines : FromKeyVal(k, lines[k]) # {}}
  IN [m EXCEPT ![Props] =
        [k \in DOMAIN @ \union parsed |->
           IF k \in parsed
           THEN PropertyManifest(k, CHOOSE val \in FromKeyVal(k, lines[k]) : TRUE)
           ELSE m[Props][k]]]

\* One line per setting; a value that is not set would panic.
FormatProperties(m) ==
  Printed([k \in DOMAIN m[Props] |-> (CHOOSE val \in m[Props][k].value : TRUE).v])

Readable(k, text) == k \in DOMAIN text /\ FromKeyVal(k, Cut(text[k])) # {}

SettingValue(m, sec, id) == (CHOOSE val \in m[sec][id].value : TRUE).v

\* The port, the arguments and the command of the manifest, copied to config.
SyncedConfig(cfg, m) ==
  [cfg EXCEPT !.port     = SettingValue(m, Props, "server-port"),
              !.cmd_args = SettingValue(m, Cmd, "cmd_args"),
              !.max_ram  = SettingValue(m, Cmd, "max_ram"),
              !.min_ram  = SettingValue(m, Cmd, "min_ram"),
              !.java_cmd = SettingValue(m, Cmd, "java_cmd")]

\* What is in the file after new has been written over old from its start,
\* without a truncation in between: the end of old stays where new is shorter,
\* cut anywhere, and a line without "=" makes the whole file unreadable.
Overwrites(old, new) ==
  IF old \in {Blank, new} THEN {new}
  ELSE [status : {"garbled"}, text : {new.text}] \union
       [status : {new.status}, text : {Over([k \in kept |-> old.text[k]], new.text) :
                                         kept \in SUBSET DOMAIN old.text}]

\* The same of the config file: json with anything after it is none.
Saved(old, content) ==
  [status : IF old.status = "empty" \/ (old.status = "whole" /\ old.content = content)
            THEN {"whole"} ELSE {"whole", "torn"},
   content : {content}]

-----------------------------------------------------------------------------
SetInit ==
  /\ props \in [status : {"ok"}, text : InitialTexts]
  /\ inflight = {}
  /\ config = [port |-> props.text["server-port"], cmd_args |-> 0, min_ram |-> 1,
               max_ram |-> 2, java_cmd |-> 0, label |-> 1, version |-> 1]
  /\ manifest = ApplyProperties(InitManifest(config), props.text)
  /\ cfgLock = NoClient
  /\ configFile = [status |-> "whole", content |-> config]
  /\ jar = 1
  /\ lateConfig = {} /\ lateProps = 0 /\ lateJar = {}
  /\ alive = TRUE
  /\ at = [c \in Clients |-> "idle"]
  /\ req = [c \in Clients |-> NoRequest]
  /\ seen = [c \in Clients |-> Blank]
  /\ alone = {}
  /\ misread = {}
  /\ unsaved = FALSE
  /\ swapped = FALSE

Idle == \A c \in Clients : at[c] = "idle"

\* An update that has not read the file goes on without.
Goto(c, from, to) ==
  /\ alive
  /\ at[c] = from
  /\ at' = [at EXCEPT ![c] = to]
  /\ req' = IF to = "idle" THEN [req EXCEPT ![c] = NoRequest] ELSE req
  /\ alone' = IF to = "idle" THEN alone \ {c} ELSE alone
  /\ misread' = CASE to = "idle" -> misread \ {c}
                  [] from = "read" /\ to = "set" -> misread \union {c}
                  [] OTHER -> misread

FirstStep == [view |-> "clear", update |-> "read", port |-> "set_port",
              label |-> "set_label", version |-> "check"]

\* set_name refuses a name that is empty or too long: label 0.
Accepted(r) == r.op = "label" => r.val.v # 0

Begin(c, r) ==
  /\ r \in Requests
  /\ Accepted(r)
  /\ alive
  /\ at[c] = "idle"
  /\ at' = [at EXCEPT ![c] = FirstStep[r.op]]
  /\ req' = [req EXCEPT ![c] = r]
  /\ alone' = IF Idle /\ inflight = {} /\ lateProps = 0 THEN {c} ELSE {}
  /\ swapped' = (swapped \/ (r.op = "version" /\
       \E d \in Clients \ {c} : at[d] # "idle" /\ req[d].op = "version"))
  /\ UNCHANGED <<manifest, config, cfgLock, fileVars, alive, seen, misread, unsaved>>

\* configurable_manifest: the section is emptied, then read again ...
Clear(c) ==
  /\ Goto(c, "clear", "read")
  /\ manifest' = ClearSection(manifest, Props)
  /\ UNCHANGED <<config, cfgLock, fileVars, alive, clientVars>>

\* Mutant: only a view reads the file.
ReadFileForView(c) ==
  /\ Goto(c, "read", IF props.status = "ok" THEN "apply"
                     ELSE IF req[c].op = "view" THEN "idle" ELSE "set")
  /\ seen' = IF req[c].op = "view" THEN [seen EXCEPT ![c] = props] ELSE seen
  /\ UNCHANGED <<manifest, config, cfgLock, fileVars, alive, unsaved, swapped>>

\* read_properties, called by configurable_manifest and update_configurable,
\* which both ignore its errors: the file first, which cannot be opened or
\* read, or has a line without "=", ...
ReadFile(c) ==
  /\ \/ /\ props.status = "ok"
        /\ Goto(c, "read", "apply")
        /\ seen' = [seen EXCEPT ![c] = props]
     \/ /\ Goto(c, "read", IF req[c].op = "view" THEN "idle" ELSE "set")
        /\ UNCHANGED seen
  /\ UNCHANGED <<manifest, config, cfgLock, fileVars, alive, unsaved, swapped>>

\* Mutant: what a view reads is not kept.
ApplyForUpdate(c) ==
  /\ Goto(c, "apply", IF req[c].op = "view" THEN "idle" ELSE "set")
  /\ manifest' = IF req[c].op = "view" THEN manifest ELSE ClearSection(manifest, Props)
  /\ seen' = [seen EXCEPT ![c] = Blank]
  /\ UNCHANGED <<config, cfgLock, fileVars, alive, unsaved, swapped>>

\* ... and its lines, under the lock of the manifest.
Apply(c) ==
  /\ Goto(c, "apply", IF req[c].op = "view" THEN "idle" ELSE "set")
  /\ manifest' = ApplyProperties(manifest, seen[c].text)
  /\ seen' = [seen EXCEPT ![c] = Blank]
  /\ UNCHANGED <<config, cfgLock, fileVars, alive, unsaved, swapped>>

\* update_setting_value: the type is checked, the request refused or ...
SetValue(c) ==
  LET r == req[c]
      ok == CanUpdate(manifest, r.sec, r.id, r.val)
  IN /\ Goto(c, "set", IF ok THEN "sync" ELSE "idle")
     /\ manifest' = IF ok THEN Update(manifest, r.sec, r.id, r.val) ELSE manifest
     /\ UNCHANGED <<config, cfgLock, fileVars, alive, clientVars>>

\* sync_configurable_to_restore_config expects the manifest to have a port.
Sync(c) ==
  /\ cfgLock = NoClient
  /\ \/ /\ "server-port" \in DOMAIN manifest[Props]
        /\ Goto(c, "sync", "open_config")
        /\ config' = SyncedConfig(config, manifest)
     \/ /\ "server-port" \notin DOMAIN manifest[Props]
        /\ Goto(c, "sync", "panicked")
        /\ UNCHANGED config
  /\ UNCHANGED <<manifest, cfgLock, fileVars, alive, clientVars>>

\* The panic ends the request's task; the locks it held are released.
Unwind(c) ==
  /\ Goto(c, "panicked", "idle")
  /\ UNCHANGED <<manifest, config, cfgLock, fileVars, alive, clientVars>>

\* set_port: the manifest gets the low 16 bits, config the whole number.
SetPort(c) ==
  /\ Goto(c, "set_port", "set_config_port")
  /\ CanAdd(manifest, Props)
  /\ manifest' = Add(manifest, Props, "server-port",
       PropertyManifest("server-port", Value("unsigned", req[c].val.v % (U16Max + 1))))
  /\ UNCHANGED <<config, cfgLock, fileVars, alive, clientVars>>

\* Mutant: the change is not written out.
SetConfigFieldOnly(c, from, field) ==
  /\ cfgLock = NoClient
  /\ Goto(c, from, "idle")
  /\ config' = [config EXCEPT ![field] = req[c].val.v]
  /\ UNCHANGED <<manifest, cfgLock, fileVars, alive, clientVars>>

SetConfigField(c, from, field) ==
  /\ cfgLock = NoClient
  /\ Goto(c, from, "open_config")
  /\ config' = [config EXCEPT ![field] = req[c].val.v]
  /\ UNCHANGED <<manifest, cfgLock, fileVars, alive, clientVars>>

SetConfigPort(c) == SetConfigField(c, "set_config_port", "port")
SetLabel(c)      == SetConfigField(c, "set_label", "label")
SetVersion(c)    == SetConfigField(c, "set_version", "version")

\* write_config_to_file: the mutex guard is a temporary of the call to
\* fs::write and lives until its await ends; the file is truncated first.  A
\* save repairs what an earlier one left, unless that is still to be written.
OpenConfig(c) ==
  /\ cfgLock = NoClient
  /\ Goto(c, "open_config", "write_config")
  /\ cfgLock' = c
  /\ configFile' = [status |-> "empty", content |-> config]
  /\ unsaved' = (unsaved /\ lateConfig # {})
  /\ UNCHANGED <<manifest, config, props, inflight, jar, lateVars, alive, seen, swapped>>

\* set_port writes the properties even when the config file was not saved.
AfterFailedSave(c) == IF req[c].op = "port" THEN "truncate" ELSE "idle"

\* The file cannot be opened, ...
OpenConfigFails(c) ==
  /\ cfgLock = NoClient
  /\ Goto(c, "open_config", AfterFailedSave(c))
  /\ unsaved' = TRUE
  /\ UNCHANGED <<manifest, config, cfgLock, fileVars, alive, seen, swapped>>

\* ... or not written, ...
WriteConfigFails(c) ==
  /\ Goto(c, "write_config", AfterFailedSave(c))
  /\ cfgLock' = NoClient
  /\ configFile' = [configFile EXCEPT !.status = "torn"]
  /\ unsaved' = TRUE
  /\ UNCHANGED <<manifest, config, props, inflight, jar, lateVars, alive, seen, swapped>>

\* ... or it is.
WriteConfig(c) ==
  /\ Goto(c, "write_config", IF req[c].op \in {"update", "port"} THEN "truncate" ELSE "idle")
  /\ cfgLock' = NoClient
  /\ configFile' \in Saved(configFile, config)
  /\ UNCHANGED <<manifest, config, props, inflight, jar, lateVars, alive, clientVars>>

\* write_properties_to_file: the file is created anew, empty, or it cannot
\* be, ...
Truncate(c) ==
  /\ \/ /\ Goto(c, "truncate", "format")
        /\ props' = Blank
     \/ /\ Goto(c, "truncate", "idle")
        /\ UNCHANGED props
  /\ UNCHANGED <<manifest, config, cfgLock, configFile, inflight, jar, lateVars, alive, clientVars>>

\* ... the lines are composed under the lock of the manifest, ...
Format(c) ==
  /\ Goto(c, "format", "write")
  /\ \E file \in FormatProperties(manifest) : seen' = [seen EXCEPT ![c] = file]
  /\ UNCHANGED <<manifest, config, cfgLock, fileVars, alive, unsaved, swapped>>

\* ... and handed to the file, which write_all does not wait for: tokio's File
\* writes in the background and nobody flushes it.
WriteProps(c) ==
  /\ Goto(c, "write", "idle")
  /\ Cardinality(inflight) < MaxInflight
  /\ inflight' = inflight \union {seen[c]}
  /\ seen' = [seen EXCEPT ![c] = Blank]
  /\ UNCHANGED <<manifest, config, cfgLock, configFile, props, jar, lateVars, alive, unsaved, swapped>>

\* A text reaches the file, written from its start, or is lost: nobody hears of
\* the error.
Land(file) ==
  /\ inflight' = inflight \ {file}
  /\ props' \in Overwrites(props, file) \union {props}
  /\ UNCHANGED <<manifest, config, cfgLock, configFile, jar, lateVars, alive, reqVars>>

\* change_version: refused unless the server is stopped (its state is
\* InstanceServer's), done when the version is the same;
\* the guard of "match self.config.lock().await.flavour" lives through the
\* requests for the jar's address.
Check(c) ==
  /\ cfgLock = NoClient
  /\ \E stopped \in BOOLEAN :
       LET go == stopped /\ req[c].val.v # config.version
       IN /\ Goto(c, "check", IF go THEN "find_jar" ELSE "idle")
          /\ cfgLock' = IF go THEN c ELSE NoClient
  /\ UNCHANGED <<manifest, config, fileVars, alive, clientVars>>

FindJar(c) ==
  /\ \E found \in BOOLEAN : Goto(c, "find_jar", IF found THEN "rename_jar" ELSE "idle")
  /\ cfgLock' = NoClient
  /\ UNCHANGED <<manifest, config, fileVars, alive, clientVars>>

\* Mutant: the jar is downloaded in place, and a download that fails leaves it.
DownloadInPlace(c) ==
  /\ Goto(c, "rename_jar", "idle") \/ Goto(c, "rename_jar", "set_version")
  /\ jar' = req[c].val.v
  /\ UNCHANGED <<manifest, config, cfgLock, configFile, props, inflight, lateVars, alive, clientVars>>

\* The jar is downloaded beside, and renamed into place if that worked.
RenameJar(c) ==
  /\ \/ /\ Goto(c, "rename_jar", "set_version")
        /\ jar' = req[c].val.v
     \/ /\ Goto(c, "rename_jar", "idle")
        /\ UNCHANGED jar
  /\ UNCHANGED <<manifest, config, cfgLock, configFile, props, inflight, lateVars, alive, clientVars>>

\* What is late once client c has hung up: what it waits for, if that has been
\* handed to its thread.
Leaves(c) ==
  \/ UNCHANGED lateVars
  \/ /\ at[c] = "open_config" /\ cfgLock = NoClient /\ Cardinality(lateConfig) < MaxLate
     /\ lateConfig' = lateConfig \union {[content |-> config, opened |-> FALSE]}
     /\ UNCHANGED <<lateProps, lateJar>>
  \/ /\ at[c] = "truncate" /\ lateProps < MaxLate
     /\ lateProps' = lateProps + 1
     /\ UNCHANGED <<lateConfig, lateJar>>
  \/ /\ at[c] = "rename_jar" /\ Cardinality(lateJar) < MaxLate
     /\ lateJar' = lateJar \union {req[c].val.v}
     /\ UNCHANGED <<lateConfig, lateProps>>

\* A client hangs up: its future is dropped at the await it is in, with the
\* locks it holds.  At "write_config" the thread has opened the file.
Hangup(c) ==
  /\ at[c] # "idle"
  /\ Goto(c, at[c], "idle")
  /\ seen' = [seen EXCEPT ![c] = Blank]
  /\ cfgLock' = IF cfgLock = c THEN NoClient ELSE cfgLock
  /\ IF at[c] = "write_config"
     THEN /\ Cardinality(lateConfig) < MaxLate
          /\ lateConfig' = lateConfig \union {[content |-> config, opened |-> TRUE]}
          /\ UNCHANGED <<lateProps, lateJar>>
     ELSE Leaves(c)
  /\ unsaved' = (unsaved \/ at[c] \in {"open_config", "write_config"})
  /\ swapped' = (swapped \/ at[c] \in {"rename_jar", "set_version"})
  /\ UNCHANGED <<manifest, config, configFile, props, inflight, jar, alive>>

\* The threads go on.  A late write of the config file: the file is opened and
\* truncated, ...
OpenLate(w) ==
  /\ w \in lateConfig /\ ~w.opened
  /\ lateConfig' = (lateConfig \ {w}) \union {[w EXCEPT !.opened = TRUE]}
  /\ configFile' = [status |-> "empty", content |-> w.content]
  /\ UNCHANGED <<manifest, config, cfgLock, props, inflight, jar, lateProps, lateJar, alive, reqVars>>

\* ... and written, or one of the two fails.
WriteLate(w) ==
  /\ w \in lateConfig
  /\ lateConfig' = lateConfig \ {w}
  /\ \/ w.opened /\ configFile' \in Saved(configFile, w.content)
     \/ w.opened /\ configFile' = [configFile EXCEPT !.status = "torn"]
     \/ ~w.opened /\ UNCHANGED configFile
  /\ UNCHANGED <<manifest, config, cfgLock, props, inflight, jar, lateProps, lateJar, alive, reqVars>>

\* server.properties is emptied for nobody, or cannot be.
TruncateLate ==
  /\ lateProps > 0
  /\ lateProps' = lateProps - 1
  /\ props' \in {Blank, props}
  /\ UNCHANGED <<manifest, config, cfgLock, configFile, inflight, jar, lateConfig, lateJar, alive, reqVars>>

\* The jar is renamed into place, or was deleted with its temporary directory.
RenameLate(version) ==
  /\ lateJar' = lateJar \ {version}
  /\ jar' \in {version, jar}
  /\ UNCHANGED <<manifest, config, cfgLock, configFile, props, inflight, lateConfig, lateProps,
                 alive, reqVars>>

\* The environment: somebody, or the server itself, edits the properties.
HandEdit(k, raw) ==
  /\ <<k, raw>> \in HandEdits
  /\ props.status = "ok"
  /\ props' = [props EXCEPT !.text = Over([j \in {k} |-> raw], @)]
  /\ alone' = {}
  /\ UNCHANGED <<manifest, config, cfgLock, configFile, inflight, jar, lateVars, alive, at, req, seen,
                 misread, unsaved, swapped>>

\* The program dies between any two steps.
Crash ==
  /\ alive
  /\ alive' = FALSE
  /\ at' = [c \in Clients |-> "idle"]
  /\ seen' = [c \in Clients |-> Blank]
  /\ alone' = {}
  /\ misread' = {}
  /\ unsaved' = FALSE
  /\ swapped' = (swapped \/ jar # configFile.content.version)
  /\ cfgLock' = NoClient
  /\ req' = [c \in Clients |-> NoRequest]
  /\ inflight' = {}
  /\ lateConfig' = {} /\ lateProps' = 0 /\ lateJar' = {}
  /\ UNCHANGED <<manifest, config, configFile, props, jar>>

\* restore: a config file or a properties file that cannot be read fails it,
\* and restore_instances leaves the instance out.
Restore ==
  /\ ~alive
  /\ configFile.status = "whole"
  /\ props.status = "ok"
  /\ alive' = TRUE
  /\ config' = configFile.content
  /\ manifest' = ApplyProperties(InitManifest(configFile.content), props.text)
  /\ UNCHANGED <<cfgLock, fileVars, reqVars>>

ClientStep(c) ==
  \/ \E r \in Requests : Begin(c, r)
  \/ Clear(c) \/ ReadFile(c) \/ Apply(c) \/ SetValue(c) \/ Sync(c) \/ Unwind(c)
  \/ SetPort(c) \/ SetConfigPort(c) \/ SetLabel(c) \/ SetVersion(c)
  \/ OpenConfig(c) \/ OpenConfigFails(c) \/ WriteConfigFails(c) \/ WriteConfig(c)
  \/ Truncate(c) \/ Format(c) \/ WriteProps(c)
  \/ Check(c) \/ FindJar(c) \/ RenameJar(c)
  \/ Hangup(c)

SetNext ==
  \/ \E c \in Clients : ClientStep(c)
  \/ \E e \in HandEdits : HandEdit(e[1], e[2])
  \/ \E file \in inflight : Land(file)
  \/ \E w \in lateConfig : OpenLate(w) \/ WriteLate(w)
  \/ TruncateLate
  \/ \E version \in lateJar : RenameLate(version)
  \/ Crash
  \/ Restore

SetSpec == SetInit /\ [][SetNext]_setVars

-----------------------------------------------------------------------------
(* Properties *)

Stages == {"idle", "clear", "read", "apply", "set", "sync", "panicked", "set_port",
           "set_config_port", "set_label", "set_version", "open_config", "write_config",
           "truncate", "format", "write", "check", "find_jar", "rename_jar"}

Config == [port : Nat, cmd_args : Int, min_ram : Nat, max_ram : Nat,
           java_cmd : Int, label : Int, version : Int]

SetTypeOK ==
  /\ DOMAIN manifest = {Cmd, Props}
  /\ config \in Config
  /\ cfgLock \in Clients \union {NoClient}
  /\ configFile \in [status : {"empty", "whole", "torn"}, content : Config]
  /\ lateConfig \subseteq [content : Config, opened : BOOLEAN]
  /\ props.status \in {"ok", "garbled"}
  /\ {alive, unsaved, swapped} \subseteq BOOLEAN
  /\ at \in [Clients -> Stages]
  /\ req \in [Clients -> Requests \union {NoRequest}]
  /\ alone \subseteq Clients

Saving(c) == at[c] \in {"open_config", "write_config"}

\* What the config file says is what the instance runs with: once no request is
\* about to save, the file is whole and holds the config in memory, however the
\* requests interleaved and whoever saved last (write_config_to_file keeps the
\* config locked throughout).  Only a save that failed or whose client hung up
\* can leave a difference, and the next save repairs it that begins when no
\* write of such a client is still to come.
DiskMatchesMemory ==
  (alive /\ ~unsaved /\ \A c \in Clients : ~Saving(c))
    => configFile = [status |-> "whole", content |-> config]

\* update_configurable changes one setting.  When no other request overlaps it,
\* nothing is on its way to server.properties and the file could be read, the
\* manifest it is about to write over the file has every other line of it that
\* could be read, with the value up to its first "=".
UpdateKeepsTheRest ==
  \A c \in alone \ misread :
    (at[c] = "truncate" /\ req[c].op = "update") =>
      \A k \in DOMAIN props.text :
        (Readable(k, props.text) /\ k # req[c].id) =>
          /\ k \in DOMAIN manifest[Props]
          /\ SettingValue(manifest, Props, k) = Cut(props.text[k])

\* "Programming error, value is not set" (mod.rs:837) takes a file that could not
\* be read, a port line that is missing or that does not parse, or an overlapping
\* request.
PanicNeedsUnreadablePort ==
  \A c \in alone : at[c] = "panicked" =>
    \/ c \in misread
    \/ ~Readable("server-port", props.text)

\* server.jar is the version config names whenever no change of version is under
\* way, unless two changes overlapped or one was cut short.
JarIsConfiguredVersion ==
  (alive /\ ~swapped /\ \A c \in Clients : at[c] # "set_version") => jar = config.version

\* What is written to server.properties is read back as the manifest it was written
\* from, as long as its texts are ones a line keeps and no key is a comment, but for
\* a port that only the manifest admits.  A setting can be built again without a
\* panic, and try_from makes its variant of it: not for the two settings it asks for
\* as another type, nor for the six it has no arm for.
ReadBack ==
  LET values == [k \in DOMAIN manifest[Props] |-> SettingValue(manifest, Props, k)]
      keys   == DOMAIN values
      fits(k) == k \in ServerPropertySetting.u16 => values[k] <= U16Max
  IN /\ (keys \intersect Comments = {} /\ \A k \in keys : Plain(values[k])) =>
          \A file \in FormatProperties(manifest) :
            /\ file.status = "ok" /\ DOMAIN file.text = keys
            /\ \A k \in keys : fits(k) =>
                 FromKeyVal(k, Cut(file.text[k])) = manifest[Props][k].value
     /\ \A k \in keys :
          /\ CanBuild(manifest[Props][k].value, manifest[Props][k].type)
          /\ (fits(k) /\ k \notin WithoutArm \union {"gamemode", "max-chained-neighbor-updates"})
               => TryFromManifest(k, manifest[Props][k]) = {[variant |-> k, v |-> values[k]]}
====
