---- MODULE MacroSettings ----
(***************************************************************************)
(* The configuration of one macro: the class LodestoneConfig its source    *)
(* declares (parsed by core/src/macro_executor.rs), the values a user has  *)
(* stored for it in a file beside it, and what a run injects               *)
(* (core/src/implementations/minecraft/macro.rs and                        *)
(* core/src/handlers/instance_macro.rs).  The source may be edited between *)
(* any two steps.                                                          *)
(***************************************************************************)
EXTENDS SettingsManifest

CONSTANTS
  Sources,  \* the sources the macro may have, see Source
  Uploads,  \* what a client may store that is no page filled in, see Entry
  Squeeze   \* texts with blanks -> the same without: the parser drops them

\* A source is the fields of the class it declares, or, when declared is false,
\* a macro that does not mention LodestoneConfig.
Field == [optional : BOOLEAN, default : SUBSET Values,
          type : [kind : {"string", "boolean", "float", "enum"}, min : {{}}, max : {{}},
                  within : SUBSET SUBSET Int]]

ASSUME SourcesAssumption ==
  \A src \in Sources :
    /\ src = [declared |-> src.declared, fields |-> src.fields]
    /\ IsFiniteSet(DOMAIN src.fields)
    /\ \A n \in DOMAIN src.fields : src.fields[n] \in Field

\* What is stored under the name of a field: any Option of a value, and any type.
Entry == [value : SUBSET Values,
          type : [kind : Kinds, min : SUBSET Int, max : SUBSET Int, within : SUBSET SUBSET Int]]

ASSUME UploadsAssumption ==
  \A entries \in Uploads : \A n \in DOMAIN entries :
    entries[n] \in Entry /\ Cardinality(entries[n].value) <= 1

VARIABLES
  source,    \* the macro's file
  folder,    \* is it <name>/index.ts, or <name>.ts?
  page,      \* the Option of the configs the dashboard has fetched
  cache,     \* the Option of the content of <name>_config.json
  got,       \* how the last get_macro_configs ended
  macroRun,  \* "none", "validated" or "spawned"
  injected,  \* the configs the run has validated
  current,   \* which of the page, the cache and the run's configs are the page
             \*   of the source as it is, the two last with valid values filled in
  careful,   \* which of the two are the page of any source with such values
  raced      \* the source was edited between validation and load

macVars == <<source, folder, page, cache, got, macroRun, injected, current, careful, raced>>

None == {}
Nothing == [n \in {} |-> 0]

-----------------------------------------------------------------------------
(* The parser *)

\* parse_config_single: a field that is not optional needs a default, and a
\* default must parse as the type it is declared with.
Parses(f) ==
  /\ f.optional \/ f.default # None
  /\ \A val \in f.default : TypeChecks(f.type, val)

Squeezed(val) ==
  IF val.v \in DOMAIN Squeeze /\ val.kind = "string"
  THEN Value("string", Squeeze[val.v]) ELSE val

\* A field with a default is required, optional or not.
ParseConfigSingle(f) == NewWithType({Squeezed(val) : val \in f.default}, f.type)

\* extract_config_code: no class is an empty config.
Extract(src) == IF src.declared THEN src.fields ELSE Nothing

ConfigParses(src) == \A n \in DOMAIN Extract(src) : Parses(Extract(src)[n])

GetConfigFromCode(src) ==
  [n \in DOMAIN Extract(src) |-> ParseConfigSingle(Extract(src)[n])]

\* validate_local_config: as many entries, each of the type of its setting.
Validates(configs, entries) ==
  /\ Cardinality(DOMAIN entries) = Cardinality(DOMAIN configs)
  /\ \A n \in DOMAIN entries :
       CacheMatches(entries[n], {configs[m] : m \in {n} \intersect DOMAIN configs})

-----------------------------------------------------------------------------
MacInit ==
  /\ source \in Sources
  /\ folder \in BOOLEAN
  /\ page = None
  /\ cache = None
  /\ got = "none"
  /\ macroRun = "none"
  /\ injected = Nothing
  /\ current = [page |-> FALSE, cache |-> FALSE, run |-> FALSE]
  /\ careful = [cache |-> FALSE, run |-> FALSE]
  /\ raced = FALSE

Edit(src) ==
  /\ src # source
  /\ source' = src
  /\ current' = [page |-> FALSE, cache |-> FALSE, run |-> FALSE]
  /\ raced' = (macroRun = "validated")
  /\ macroRun' = IF macroRun = "spawned" THEN "none" ELSE macroRun
  /\ got' = "none"
  /\ UNCHANGED <<folder, page, cache, injected, careful>>

\* get_macro_configs: the stored values replace the defaults when the cache
\* validates; set_optional_value fails, and its unwrap panics, for a required
\* setting that is stored without a value.
GetConfigs ==
  LET configs == GetConfigFromCode(source)
      usable  == cache # None /\ \A entries \in cache : Validates(configs, entries)
      merge(entries) == [n \in DOMAIN configs |-> WithValue(configs[n], entries[n].value)]
  IN /\ \/ /\ ~ConfigParses(source)
           /\ got' = "error"
           /\ UNCHANGED <<page, current>>
        \/ /\ ConfigParses(source) /\ ~usable
           /\ got' = IF cache = None THEN "no cache" ELSE "mismatch"
           /\ page' = {configs}
           /\ current' = [current EXCEPT !.page = TRUE]
        \/ /\ ConfigParses(source) /\ usable
           /\ \E entries \in cache :
                IF \A n \in DOMAIN entries : CanSetOptional(configs[n], entries[n].value)
                THEN /\ got' = "merged"
                     /\ page' = {merge(entries)}
                     /\ current' = [current EXCEPT !.page = TRUE]
                ELSE /\ got' = "panicked"
                     /\ UNCHANGED <<page, current>>
     /\ UNCHANGED <<source, folder, cache, macroRun, injected, careful, raced>>

\* The values the dashboard lets a user give the settings of the page: valid ones.
Fillings(configs) ==
  {values \in [DOMAIN configs ->
                 {None} \union {{val} : val \in UNION {configs[n].value : n \in DOMAIN configs}}] :
     \A n \in DOMAIN configs : ValidSetting(configs[n], values[n])}

\* store_config_to_local writes what the request carries, a page filled in or
\* anything else, and looks neither at the values nor at the macro; the
\* directory is there only when the macro is one.
StoreConfig ==
  /\ \/ \E configs \in page : \E values \in Fillings(configs) :
          /\ folder
          /\ cache' = {[n \in DOMAIN configs |-> CacheEntry(WithValue(configs[n], values[n]))]}
          /\ current' = [current EXCEPT !.cache = current.page]
          /\ careful' = [careful EXCEPT !.cache = TRUE]
     \/ \E entries \in Uploads :
          /\ folder
          /\ cache' = {entries}
          /\ current' = [current EXCEPT !.cache = FALSE]
          /\ careful' = [careful EXCEPT !.cache = FALSE]
     \/ ~folder /\ UNCHANGED <<cache, current, careful>>
  /\ got' = "none"
  /\ UNCHANGED <<source, folder, page, macroRun, injected, raced>>

\* run_macro validates without a manifest: a source that does not mention the
\* class needs no config, else the cache must validate.
Validate ==
  /\ macroRun # "validated"
  /\ \/ /\ ~source.declared
        /\ injected' = Nothing
     \/ /\ source.declared /\ ConfigParses(source)
        /\ \E entries \in cache :
             /\ Validates(GetConfigFromCode(source), entries)
             /\ injected' = entries
  /\ macroRun' = "validated"
  /\ raced' = FALSE
  /\ current' = [current EXCEPT !.run = current.cache]
  /\ careful' = [careful EXCEPT !.run = careful.cache]
  /\ UNCHANGED <<source, folder, page, cache, got>>

\* The entries become the object that is put before the source; values of the
\* integer kinds would be refused.  The loader reads the source now.
Spawn ==
  /\ macroRun = "validated"
  /\ macroRun' = IF \A n \in DOMAIN injected : \A val \in injected[n].value :
                      val.kind \notin {"integer", "unsigned"}
                 THEN "spawned" ELSE "none"
  /\ UNCHANGED <<source, folder, page, cache, got, injected, current, careful, raced>>

MacNext ==
  \/ \E src \in Sources : Edit(src)
  \/ GetConfigs
  \/ StoreConfig
  \/ Validate
  \/ Spawn

MacSpec == MacInit /\ [][MacNext]_macVars

-----------------------------------------------------------------------------
(* Properties *)

\* A macro is started with an entry for each field of its class and for nothing
\* else, each stored for the type the field is declared with, whatever was stored
\* and edited before, unless it was edited between the validation of the cache and
\* its load.  The values fit when the cache was a page filled in, of this source or
\* of another, and a field that must have a value has one when the page was of this
\* one.  More cannot be said: nothing checks what a client stores against its type
\* (instance_macro.rs:198, manifest.rs:803).
InjectedConfigFits ==
  (macroRun = "spawned" /\ ~raced) =>
    /\ DOMAIN injected = DOMAIN Extract(source)
    /\ \A n \in DOMAIN injected :
         /\ injected[n].type = source.fields[n].type
         /\ careful.run => \A val \in injected[n].value : TypeChecks(source.fields[n].type, val)
         /\ (current.run /\ ~source.fields[n].optional) => injected[n].value # None

\* The unwrap of get_macro_configs does not fail for a cache that is the page of the
\* source as it is, filled in; it does for one of an earlier source, and for one in
\* which a client left out the value of a required setting.
FilledPageNeverPanics == got = "panicked" => ~current.cache
====
