--------------------------- MODULE MCTemplateScan ---------------------------
(* TemplateScan with three templates: one whose first step is for another   *)
(* platform, one that needs any of its steps, and one with a step no module *)
(* knows; on a machine where each module has something to find and          *)
(* something to stumble over.                                               *)
EXTENDS TemplateScan, TLC

File(access, lines) == [access |-> access, lines |-> lines, text |-> "x"]
MachineDef ==
    [files |-> [log |-> File("readable", <<"miss", "long", "hit">>),
                conf |-> File("readable", <<"miss">>),
                lock |-> File("denied", <<"hit">>)],
     trees |-> [srv |-> [kind |-> "directory", name |-> "srv",
                         files |-> {[dirs |-> <<"app">>, listed |-> TRUE, names |-> {"*.log"}, path |-> "log"],
                                    [dirs |-> <<"app", ".git">>, listed |-> TRUE, names |-> {"*.log"}, path |-> "log"],
                                    [dirs |-> << >>, listed |-> TRUE, names |-> {"*.log"}, path |-> "lock"]}]],
     programs |-> [java |-> [starts |-> TRUE, code |-> 0, stdout |-> FALSE, stderr |-> TRUE]]]

Content(path, multiline) == [path |-> path, pattern |-> "valid", multiline |-> multiline]
Hash(path) == [path |-> path, algorithm |-> "", hash |-> <<"sha256", "x">>]
Search == [root |-> "srv", filters |-> {"*.log"}, content |-> "valid", valid |-> TRUE, exclude |-> {}, depth |-> 2]
Version == [command |-> "java", pattern |-> "valid", code |-> AnyCode]

Step(type, config, weight, platforms) ==
    [type |-> type, config |-> config, weight |-> weight, platforms |-> platforms]
Template(logic, steps) == [logic |-> logic, steps |-> steps]
LibraryDef ==
    [all |-> Template("", <<Step("registry_key", << >>, 3, {"windows"}),
                            Step("file_search", Search, 2, {}),
                            Step("file_content", Content("log", FALSE), 1, {"linux", "darwin"})>>),
     any |-> Template("any", <<Step("version_cmd", Version, 0, {}),
                               Step("file_hash", Hash("conf"), 2, {"linux"})>>),
     other |-> Template("all", <<Step("registry_key", << >>, 1, {"linux"}),
                                 Step("file_content", Content("conf", TRUE), 1, {})>>)]
TemplatesDef == <<"all", "any", "other">>
ResultsOf == "all" :> Executions("all") @@ "any" :> Executions("any") @@ "other" :> Executions("other")
ProducedDef == ResultsOf
=============================================================================
