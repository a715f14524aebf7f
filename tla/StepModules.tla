----------------------------- MODULE StepModules -----------------------------
(***************************************************************************)
(* The detection modules that the steps of a template name                 *)
(* (internal/modules) and the reading and matching they share              *)
(* (internal/common).  Each operator is the set of outcomes that Execute   *)
(* may have on a given machine, for the deadline of a step, of a read or   *)
(* of a match may pass at any moment.  What a step would need to find is   *)
(* kept, not the evidence: a line is known by what the pattern makes of it.*)
(***************************************************************************)
EXTENDS Integers, Sequences, FiniteSets, FiniteSetsExt

CONSTANTS
    Machine,     \* the files, directories and programs, by name
    Panicking    \* module types whose Execute may panic

\* How the module of a step may end: not found or err # nil, a panic, or a
\* result, which may carry an error of its own.
Failed == [kind |-> "failed"]
Panic == [kind |-> "panic"]
Outcome(matched, error) == [kind |-> "result", matched |-> matched, error |-> error]

Verdict(found) == Outcome(found, FALSE)
Found == Verdict(TRUE)
Clear == Verdict(FALSE)
Trouble == Outcome(FALSE, TRUE)

-----------------------------------------------------------------------------
\* ReadFileWithOptions: a file that is missing, denied or too large is an
\* error, and so is one that is not read in time.
ReadFile(path) ==
    {"error"} \cup (IF Machine.files[path].access = "readable" THEN {"content"} ELSE {})

LinesOf(path) == Machine.files[path].lines
HitsIn(lines) == {i \in DOMAIN lines : lines[i] = "hit"}

\* patterns.FindInLinesWithOptions splits at each newline, however long a line is.
FindInLines(lines) == HitsIn(lines) # {}

\* patterns.MatchWithTimeout over the whole content.
MatchContent(config, lines) ==
    IF config.pattern = "valid" THEN Verdict(HitsIn(lines) # {}) ELSE Trouble

\* Mutant: the scanner is not asked why it stopped.
searchLinesUnasked(config, lines) ==
    IF config.pattern = "invalid" THEN IF lines = <<>> THEN Clear ELSE Trouble
    ELSE LET ends == {i \in DOMAIN lines : lines[i] # "miss"} IN
         IF ends # {} /\ lines[Min(ends)] = "hit" THEN Found ELSE Clear

\* FileContentModule.searchLines.  A line longer than the buffer of the scanner
\* is an error, unless an earlier line matches; a pattern that does not compile
\* is found out when there is a line to match.
searchLines(config, lines) ==
    IF config.pattern = "invalid" THEN IF lines = <<>> THEN Clear ELSE Trouble
    ELSE LET ends == {i \in DOMAIN lines : lines[i] # "miss"} IN
         IF ends = {} THEN Clear
         ELSE IF lines[Min(ends)] = "hit" THEN Found ELSE Trouble

FileContent(config) ==
    IF config.path = "" \/ config.pattern = "" THEN {Failed}
    ELSE {Trouble} \cup
         {IF config.multiline THEN MatchContent(config, LinesOf(config.path))
          ELSE searchLines(config, LinesOf(config.path)) :
            read \in ReadFile(config.path) \ {"error"}}

-----------------------------------------------------------------------------
\* calculateHash knows four algorithms; the hash of a file is what it holds and
\* the algorithm it was taken with.
Algorithms == {"sha256", "sha1", "md5", "sha512"}
Algorithm(config) == IF config.algorithm = "" THEN "sha256" ELSE config.algorithm
CalculateHash(path, algorithm) == <<algorithm, Machine.files[path].text>>

FileHash(config) ==
    IF config.path = "" \/ config.hash = <<>> \/ Algorithm(config) \notin Algorithms THEN {Trouble}
    ELSE {Trouble} \cup
         {Verdict(config.hash = CalculateHash(config.path, Algorithm(config))) :
            read \in ReadFile(config.path) \ {"error"}}

-----------------------------------------------------------------------------
\* FileSearchModule.  A tree is the files under its root, each with the
\* directories on the way to it.  Without a list of its own .git is excluded; a
\* root of an excluded name is not walked at all.
DefaultMaxDepth == 20
Excluded(config) == IF config.exclude = {} THEN {".git"} ELSE config.exclude
MaxDepth(config) == IF config.depth > 0 THEN config.depth ELSE DefaultMaxDepth

Walked(config, root, f) ==
    /\ root.name \notin Excluded(config)
    /\ \A i \in DOMAIN f.dirs : f.dirs[i] \notin Excluded(config)
    /\ Len(f.dirs) <= MaxDepth(config)
    /\ f.listed

\* The filename glob and the path pattern: patterns names those that f matches.
Selected(config, f) == config.filters \subseteq f.names

\* matchContent: a file that cannot be read does not match.
matchContent(config, f) ==
    config.content = "" \/ (Machine.files[f.path].access = "readable" /\ FindInLines(LinesOf(f.path)))

Findable(config, root) ==
    {f \in root.files : Walked(config, root, f) /\ Selected(config, f) /\ matchContent(config, f)}

\* The walk ends early with the deadline and keeps what it has; a file whose
\* content is not read and matched in time is passed over.  The limit of results,
\* which is at least one, only bounds the evidence.
FileSearch(config) ==
    IF \/ config.root = "" \/ (config.filters = {} /\ config.content = "")
       \/ ~config.valid
    THEN {Failed}
    ELSE LET root == Machine.trees[config.root] IN
         IF root.kind # "directory" THEN {Trouble}
         ELSE {Verdict(found # {}) : found \in SUBSET Findable(config, root)}

-----------------------------------------------------------------------------
\* CommandVersionModule.  exec.Cmd.Output has standard error in its error, and
\* so only for a command that did not succeed.
AnyCode == -2
Killed == -1
Output(program, code) == program.stdout \/ (code # 0 /\ program.stderr)

Judge(config, code, found) ==
    IF config.code \notin {AnyCode, code} THEN Clear
    ELSE IF config.pattern = "valid" THEN Verdict(found) ELSE Trouble

\* A command that the deadline kills has the exit code -1, not the error of the
\* deadline, and whatever it had printed by then is matched.
VersionCmd(config) ==
    IF config.command = "" \/ config.pattern = "" THEN {Trouble}
    ELSE LET program == Machine.programs[config.command] IN
         IF ~program.starts THEN {Trouble}
         ELSE {Trouble, Judge(config, program.code, Output(program, program.code))} \cup
              {Judge(config, Killed, found) : found \in {FALSE, Output(program, Killed)}}

-----------------------------------------------------------------------------
\* registry.Get, and Execute of what it returns.
Registered == {"file_content", "file_hash", "file_search", "version_cmd"}

Dispatched(step) ==
    IF step.type = "file_content" THEN FileContent(step.config)
    ELSE IF step.type = "file_hash" THEN FileHash(step.config)
    ELSE IF step.type = "file_search" THEN FileSearch(step.config)
    ELSE VersionCmd(step.config)

StepOutcomes(step) ==
    IF step.type \notin Registered THEN {Failed}
    ELSE Dispatched(step) \cup {o \in {Panic} : step.type \in Panicking}

-----------------------------------------------------------------------------
\* Reference: the machine has what the step asks for.
Readable(path) == Machine.files[path].access = "readable"

Present(step) ==
    LET c == step.config IN
    \/ step.type = "file_content" /\ Readable(c.path) /\ HitsIn(LinesOf(c.path)) # {}
    \/ step.type = "file_hash" /\ Readable(c.path) /\ c.hash = CalculateHash(c.path, Algorithm(c))
    \/ step.type = "file_search" /\ Findable(c, Machine.trees[c.root]) # {}
    \/ /\ step.type = "version_cmd" /\ Machine.programs[c.command].starts
       /\ Machine.programs[c.command].stdout \/ Machine.programs[c.command].stderr
=============================================================================
