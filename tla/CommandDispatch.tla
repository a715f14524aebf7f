---------------------------- MODULE CommandDispatch ----------------------------
(***************************************************************************)
(* The command registry of the agent (internal/commands) and what each     *)
(* built-in command answers.  A command is a text; here it is a sequence   *)
(* of fragments, cut so that one text starts with another exactly when the *)
(* sequences do.                                                           *)
(***************************************************************************)
EXTENDS Naturals, Sequences, SequencesExt

CONSTANTS
    Scripting      \* scripting is enabled and PowerShell was found

ASSUME ScriptingAssumption == Scripting \in BOOLEAN

-----------------------------------------------------------------------------
\* The prefixes that the init functions of the command packages register.
Status == <<"internal:", "status">>
Scan == <<"internal:", "scan">>
TemplateScan == <<"internal:", "template", "-scan">>
TemplateSync == <<"internal:", "template", " sync">>
Sync == <<"internal:", "sync">>
Repo == <<"internal:", "repo">>
ListTemplates == <<"internal:", "list-", "templates">>
Discover == <<"internal:", "discover", "-templates">>
Help == <<"internal:", "help">>
PlainHelp == <<"help">>

Registered ==
    {Status, Scan, TemplateScan, TemplateSync, Sync, Repo, ListTemplates, Discover, Help, PlainHelp}

\* Aliases: those of the template package and those of RegisterBuiltinAliases.
AliasPairs ==
    { <<<<"template", " sync">>, TemplateSync>>, <<<<"sync", " templates">>, TemplateSync>>,
      <<<<"scan">>, TemplateScan>>, <<<<"template", "-scan">>, TemplateScan>>, <<<<"tscan">>, TemplateScan>>,
      <<<<"inventory">>, Scan>>, <<<<"software">>, Scan>>,
      <<<<"status">>, Status>>, <<<<"info">>, Status>>,
      <<<<"repo">>, Repo>>, <<<<"repo", "sitory">>, Repo>>,
      <<<<"sync">>, Sync>>,
      <<<<"list-", "templates">>, ListTemplates>>, <<<<"templates">>, ListTemplates>>,
      <<<<"discover", "-templates">>, Discover>>, <<<<"discover">>, Discover>> }

Aliases == {pair[1] : pair \in AliasPairs}
Names == Registered \cup Aliases

Canonical(name) ==
    IF name \in Aliases THEN CHOOSE c \in Registered : <<name, c>> \in AliasPairs ELSE name

-----------------------------------------------------------------------------
(***************************************************************************)
(* Dispatch goes through orderedPrefixes, which sortPrefixesLocked keeps   *)
(* with the longer names first, and takes the first that the text starts   *)
(* with.  Of two names that start the same text the longer has more        *)
(* fragments, so the order among them is that of Len.  A name need not end *)
(* where a word of the text does.                                          *)
(***************************************************************************)
Unknown == <<>>

Matching(text) == {name \in Names : IsPrefix(name, text)}

\* Mutant: the shorter names first.
BeforeShorter(a, b) == Len(a) < Len(b)

Before(a, b) == Len(a) > Len(b)
First(names) == CHOOSE a \in names : \A b \in names \ {a} : Before(a, b)

Dispatched(text) == IF Matching(text) = {} THEN Unknown ELSE Canonical(First(Matching(text)))
Arguments(text) == IF Matching(text) = {} THEN text ELSE SubSeq(text, Len(First(Matching(text))) + 1, Len(text))

-----------------------------------------------------------------------------
(***************************************************************************)
(* What Execute can return: "ok" is an output, "error" an error, "panic"   *)
(* the end of the process, for nothing recovers in the receive loop.  repo *)
(* is the repository integration that the repo command keeps for the whole *)
(* process: "none" before the first use, "ready" after Initialize, and     *)
(* "broken" for good when Initialize failed once.  sync tells whether the  *)
(* agent has a template sync manager.                                      *)
(***************************************************************************)
RepoStates == {"none", "ready", "broken"}
RepoAfter(repo) == IF repo = "none" THEN {"ready", "broken"} ELSE {repo}

\* The repo command's integration has a sync manager of its own, which is given
\* no stream, and no repository manager at all.
RepoOutcomes(arguments, repo) ==
    IF repo = "broken" THEN
        IF arguments \in {<<" status">>, <<" update">>, <<" validate">>} THEN {"error"} ELSE {"ok"}
    ELSE IF arguments = <<" validate">> THEN {"panic"}
    ELSE IF arguments = <<" update">> THEN {"error"}
    ELSE {"ok"}

\* The very call that fails to initialize returns that error, whatever it asks.
RepoReturns(arguments, before, after) ==
    IF before = "none" /\ after = "broken" THEN {"error"} ELSE RepoOutcomes(arguments, after)

\* parseArgs: of the arguments here only --all is a flag it knows; what is left
\* of a word that merely starts with the name is not.
ValidArguments == {<<>>, <<" --all">>}
TemplateScanReturns(arguments) == IF arguments \in ValidArguments THEN {"ok", "error"} ELSE {"error"}

\* The inventory puts its errors, and those of the custom scripts, in its output.
InventoryReturns == {"ok"}

\* The status is reported to the API in a goroutine that nobody waits for.
StatusReturns == {"ok"}
HelpReturns == {"ok"}
SyncReturns == {"ok"}

\* Both commands ask the store, and fail when it cannot be reached.
ListReturns == {"ok", "error"}
DiscoverReturns == {"ok", "error"}

\* An agent whose repository integration did not initialize has no manager.
TemplateSyncReturns(sync) == IF sync THEN {"ok", "error"} ELSE {"error"}

\* A text that no name starts is run as a script.
ScriptReturns == IF Scripting THEN {"ok", "error"} ELSE {"error"}

Returns(command, arguments, sync) ==
    IF command = Unknown THEN ScriptReturns
    ELSE IF command = TemplateScan THEN TemplateScanReturns(arguments)
    ELSE IF command = TemplateSync THEN TemplateSyncReturns(sync)
    ELSE IF command = Scan THEN InventoryReturns
    ELSE IF command = ListTemplates THEN ListReturns
    ELSE IF command = Discover THEN DiscoverReturns
    ELSE IF command = Status THEN StatusReturns
    ELSE IF command = Sync THEN SyncReturns
    ELSE HelpReturns

\* The commands that start a process of the system or wait for one, and so may
\* take any time.
Lasting(command) == command \in {Scan, TemplateScan} \/ (command = Unknown /\ Scripting)

-----------------------------------------------------------------------------
\* Reference: the command of the longest name that the text starts with.
LongestName(text) ==
    CHOOSE n \in Matching(text) : \A m \in Matching(text) : IsPrefix(m, n)
Meant(text) == IF Matching(text) = {} THEN Unknown ELSE Canonical(LongestName(text))
=============================================================================
