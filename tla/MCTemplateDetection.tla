------------------------- MODULE MCTemplateDetection -------------------------
(***************************************************************************)
(* Calls on two files and a registry key: a hash template with a target    *)
(* for another platform and one of each of its conditions; a configuration *)
(* template with a negated pattern next to a hash template that looks for  *)
(* what is missing; registry templates; and templates that the engine      *)
(* refuses, skips or cannot find vulnerable, more of them than may run.    *)
(***************************************************************************)
EXTENDS TemplateDetection
CONSTANTS good, bad, app, lib, key

TwoTexts == {{bad}, {good, bad}}

Is(type, value) == [type |-> type, value |-> value]
At(place, lines, negate) == [place |-> place, lines |-> lines, negate |-> negate, here |-> TRUE]
Elsewhere(place) == [place |-> place, lines |-> {bad}, negate |-> FALSE, here |-> FALSE]
Template(type, targets, conditions) == [type |-> type, targets |-> targets, conditions |-> conditions]

BadBinary == Template("file-hash", <<Elsewhere(lib), At(app, {bad}, FALSE), At(lib, {bad}, FALSE)>>,
    <<Is("exists", TRUE), Is("executable", TRUE), Is("matches", TRUE)>>)
BadSetting == Template("registry", <<At(key, {bad}, FALSE)>>, <<Is("exists", TRUE), Is("matches", TRUE)>>)
NotSet == Template("registry", <<At(key, {good}, FALSE)>>, <<Is("matches", FALSE)>>)
NotGood == Template("config-file", <<At(lib, {good}, TRUE)>>, <<Is("matches", TRUE)>>)
Missing == Template("file-hash", <<At(app, {good}, FALSE)>>, <<Is("matches", FALSE), Is("executable", FALSE)>>)
NeverFound == Template("config-file", <<At(lib, {bad}, FALSE)>>, <<Is("matches", FALSE)>>)
NoConditions == Template("file-hash", <<At(app, {bad}, FALSE)>>, <<>>)
Unknown == Template("script", <<At(app, {bad}, FALSE)>>, <<Is("exists", TRUE)>>)
Foreign == Template("file-hash", <<Elsewhere(lib)>>, <<Is("exists", FALSE)>>)

Calls == {<<BadBinary>>, <<BadSetting, Foreign>>, <<NotGood, Missing>>, <<NotSet, Unknown>>,
          <<NeverFound>>, <<NoConditions, Unknown, Unknown>>}
=============================================================================
