------------------------------- MODULE ScriptRun -------------------------------
(***************************************************************************)
(* The script engine of internal/detect/script (executor.go, bash.go,      *)
(* powershell.go) on the directory of ScriptRepository: LoadScripts, and   *)
(* ExecuteScript with the process it starts, the pipes between the two and *)
(* the deadline that kills the process, but not the processes it started.  *)
(*                                                                         *)
(* What a script does is a sequence of lines, each on stdout or stderr, or *)
(* "fork", a process of its own that keeps the pipes open.                 *)
(***************************************************************************)
EXTENDS ScriptRepository

CONSTANTS
    Language,    \* "powershell", "bash" or "python", by the extension of a path
    Names,       \* names that the headers of the scripts give
    Installed,   \* files that exist for os.Stat, in the working directory or absolute
    Platforms,   \* runtime.GOOS
    PipeRoom,    \* lines that a pipe holds
    MaxRuns      \* bound: calls of ExecuteScript

ASSUME RunAssumption ==
    /\ Language \in [Paths -> {"powershell", "bash", "python"}]
    /\ \A s \in Scripts :
         s.name \in Names /\ s.does \in Seq([to : {"out", "err", "fork"}, line : STRING])
    /\ PipeRoom \in Nat \ {0} /\ MaxRuns \in Nat

VARIABLES
    platform,    \* runtime.GOOS of this process
    lpc,         \* paths that LoadScripts has yet to visit
    loading,     \* se.scriptsMutex is held by LoadScripts
    loaded,      \* se.loadedScripts
    epc,          \* place in ExecuteScript
    script,      \* the script it was called with
    deadline,    \* execCtx is done
    ran,         \* the script that the process runs
    todo,        \* what the process has yet to do
    child,       \* "none", "running", "exited", "killed"
    helper,      \* a process started by the script holds the pipes
    out, err,    \* the pipes
    got,         \* what has been read from stdout
    status,      \* what cmd.Wait returned: "ok" or "error"
    returned,      \* what ExecuteScript returned
    runs,        \* number of calls
    touched      \* history: the file has changed since it was validated

svars == <<platform, lpc, loading, loaded, epc, script, deadline, ran, todo, child, helper, out, err, got,
           status, returned, runs, touched>>
scriptVars == <<rvars, svars>>
engine == <<platform, lpc, loading, loaded>>
process == <<ran, todo, child, helper>>
pipes == <<out, err>>

(***************************************************************************)
(* detectInterpreters: the first candidate that os.Stat finds.  A name     *)
(* without a directory is looked up in the working directory, not in PATH. *)
(***************************************************************************)
Candidates(language) ==
    CASE language = "powershell" -> {"pwsh", "powershell", "powershell.exe"}
      [] language = "bash" -> {"bash", "/bin/bash", "/usr/bin/bash"}
      [] language = "python" -> {"python3", "python", "/usr/bin/python3", "/usr/bin/python"}

Available(language) == Candidates(language) \cap Installed # {}

NativePlatform(language) ==
    CASE language = "powershell" -> "windows" [] language = "bash" -> "linux" [] OTHER -> "cross-platform"

PlatformSupported(name) == name \in {"cross-platform", platform}

Entry(p) == [path |-> p, sum |-> file[p]]
NoEntry == [path |-> "none", sum |-> NoScript]
NoVerdict == [state |-> "none", vulnerable |-> FALSE]
Failed == [state |-> "error", vulnerable |-> FALSE]
Verdict(vulnerable) == [state |-> "verdict", vulnerable |-> vulnerable]

ScriptInit ==
    /\ RepositoryInit
    /\ platform \in Platforms
    /\ lpc = {} /\ loading = FALSE
    /\ loaded = [n \in Names |-> NoEntry]
    /\ epc = "idle" /\ script = NoEntry /\ deadline = FALSE
    /\ ran = NoScript /\ todo = <<>> /\ child = "none" /\ helper = FALSE
    /\ out = <<>> /\ err = <<>> /\ got = <<>> /\ status = "ok"
    /\ returned = NoVerdict /\ runs = 0 /\ touched = FALSE

(***************************************************************************)
(* LoadScripts, under the write lock: the map is emptied and every file is *)
(* entered under the name in its header; the last of two files with one    *)
(* name stays.                                                             *)
(***************************************************************************)
LoadScripts ==
    /\ ~loading
    /\ loading' = TRUE /\ lpc' = Paths
    /\ loaded' = [n \in Names |-> NoEntry]
    /\ UNCHANGED <<rvars, platform, epc, script, deadline, process, pipes, got, status, returned, runs, touched>>

LoadScript ==
    /\ loading
    /\ \E p \in lpc :
         /\ lpc' = lpc \ {p}
         /\ loaded' = IF file[p] = NoScript THEN loaded ELSE [loaded EXCEPT ![file[p].name] = Entry(p)]
    /\ UNCHANGED <<rvars, platform, loading, epc, script, deadline, process, pipes, got, status, returned, runs, touched>>

EndLoading ==
    /\ loading /\ lpc = {}
    /\ loading' = FALSE
    /\ UNCHANGED <<rvars, platform, lpc, loaded, epc, script, deadline, process, pipes, got, status, returned, runs, touched>>

(***************************************************************************)
(* ExecuteScript up to the start of the process.  GetScript waits for      *)
(* LoadScripts; the script it returns may be replaced in the map later.    *)
(***************************************************************************)
Call ==
    /\ epc = "idle" /\ ~loading /\ runs < MaxRuns
    /\ \E n \in Names : loaded[n] # NoEntry /\ script' = loaded[n]
    /\ epc' = "called" /\ runs' = runs + 1 /\ returned' = NoVerdict
    /\ deadline' = FALSE /\ touched' = FALSE
    /\ ran' = NoScript /\ child' = "none"
    /\ UNCHANGED <<rvars, engine, todo, helper, pipes, got, status>>

ReturnResult(answer) ==
    /\ returned' = answer
    /\ epc' = "idle"
    /\ todo' = <<>> /\ helper' = FALSE
    /\ out' = <<>> /\ err' = <<>> /\ got' = <<>> /\ status' = "ok"
    /\ UNCHANGED <<ran, child>>

\* Mutant: the sum of the file is not compared with the one it was loaded with.
ValidUnsummed(entry) ==
    /\ file[entry.path] # NoScript
    /\ PlatformSupported(NativePlatform(Language[entry.path]))
    /\ Available(Language[entry.path])

Valid(entry) ==
    /\ file[entry.path] = entry.sum
    /\ PlatformSupported(NativePlatform(Language[entry.path]))
    /\ Available(Language[entry.path])

ValidateScript ==
    /\ epc = "called"
    /\ IF Valid(script)
       THEN epc' = "valid" /\ UNCHANGED <<returned, process, pipes, got, status>>
       ELSE ReturnResult(Failed)
    /\ touched' = FALSE
    /\ UNCHANGED <<rvars, engine, script, deadline, runs>>

\* PowerShell is given the text of the file, read again; the other two open
\* the file themselves.  A file that is gone is an error in both ways.
Start ==
    /\ epc = "valid"
    /\ IF deadline \/ file[script.path] = NoScript
       THEN ReturnResult(Failed)
       ELSE /\ ran' = file[script.path] /\ todo' = file[script.path].does
            /\ child' = "running" /\ helper' = FALSE
            /\ out' = <<>> /\ err' = <<>> /\ got' = <<>> /\ status' = "ok"
            /\ epc' = IF Language[script.path] = "powershell" THEN "wait" ELSE "stdout"
            /\ UNCHANGED returned
    /\ UNCHANGED <<rvars, engine, script, deadline, runs, touched>>

(***************************************************************************)
(* The process.  A write to a full pipe waits; the deadline kills the      *)
(* process and leaves its helper, and with it the pipes, as they are.      *)
(***************************************************************************)
Combined == Language[script.path] = "powershell"   \* CombinedOutput: one pipe

WriteLine ==
    LET line == Head(todo).line
    IN  /\ child = "running" /\ todo # <<>>
        /\ \/ /\ Head(todo).to = "out" \/ Combined
              /\ Len(out) < PipeRoom
              /\ out' = Append(out, line) /\ UNCHANGED err
           \/ /\ Head(todo).to = "err" /\ ~Combined
              /\ Len(err) < PipeRoom
              /\ err' = Append(err, line) /\ UNCHANGED out
        /\ Head(todo).to # "fork"
        /\ todo' = Tail(todo)
        /\ UNCHANGED <<rvars, engine, epc, script, deadline, ran, child, helper, got, status, returned, runs, touched>>

Fork ==
    /\ child = "running" /\ todo # <<>> /\ Head(todo).to = "fork"
    /\ helper' = TRUE /\ todo' = Tail(todo)
    /\ UNCHANGED <<rvars, engine, epc, script, deadline, ran, child, pipes, got, status, returned, runs, touched>>

Exit ==
    /\ child = "running" /\ todo = <<>>
    /\ child' = "exited"
    /\ UNCHANGED <<rvars, engine, epc, script, deadline, ran, todo, helper, pipes, got, status, returned, runs, touched>>

HelperEnds ==
    /\ helper
    /\ helper' = FALSE
    /\ UNCHANGED <<rvars, engine, epc, script, deadline, ran, todo, child, pipes, got, status, returned, runs, touched>>

\* Mutant: the process is started without the context.
DeadlineSpares ==
    /\ epc \in {"valid", "stdout", "stderr", "wait"} /\ ~deadline
    /\ deadline' = TRUE
    /\ UNCHANGED <<rvars, engine, epc, script, ran, todo, child, helper, pipes, got, status, returned, runs, touched>>

Deadline ==
    /\ epc \in {"valid", "stdout", "stderr", "wait"} /\ ~deadline
    /\ deadline' = TRUE
    /\ child' = IF child = "running" THEN "killed" ELSE child
    /\ UNCHANGED <<rvars, engine, epc, script, ran, todo, helper, pipes, got, status, returned, runs, touched>>

(***************************************************************************)
(* Reading the output: bash and python scripts are read to the end of      *)
(* stdout, then to the end of stderr, and only then waited for; the output *)
(* of PowerShell is copied while it is waited for.                         *)
(***************************************************************************)
ReadLine ==
    /\ epc = "stdout" \/ (epc \in {"wait", "copy"} /\ Combined)
    /\ out # <<>>
    /\ got' = Append(got, Head(out)) /\ out' = Tail(out)
    /\ UNCHANGED <<rvars, engine, epc, script, deadline, process, err, status, returned, runs, touched>>

\* Mutant: what is left in a pipe when the process ends is not read.
NobodyRuns(pipe) == child # "running" /\ ~helper

EndOfFile(pipe) == pipe = <<>> /\ child # "running" /\ ~helper

EndOfStdout ==
    /\ epc = "stdout" /\ EndOfFile(out)
    /\ epc' = "stderr"
    /\ UNCHANGED <<rvars, engine, script, deadline, process, pipes, got, status, returned, runs, touched>>

ReadError ==
    /\ epc = "stderr" /\ err # <<>>
    /\ err' = Tail(err)
    /\ UNCHANGED <<rvars, engine, epc, script, deadline, process, out, got, status, returned, runs, touched>>

EndOfStderr ==
    /\ epc = "stderr" /\ EndOfFile(err)
    /\ epc' = "wait"
    /\ UNCHANGED <<rvars, engine, script, deadline, process, pipes, got, status, returned, runs, touched>>

\* The error of cmd.Wait: a status other than 0, or a context that was done
\* before the process had been waited for.
WaitStatus == IF child = "exited" /\ ran.code = 0 /\ ~deadline THEN "ok" ELSE "error"

\* PowerShell: cmd.Wait has the status and still waits for the copy.
Reap ==
    /\ epc = "wait" /\ Combined /\ child # "running"
    /\ status' = WaitStatus
    /\ epc' = "copy"
    /\ UNCHANGED <<rvars, engine, script, deadline, process, pipes, got, returned, runs, touched>>

(***************************************************************************)
(* The verdict.  JSON is looked for between the first and the last brace   *)
(* of the output: with two objects, or braces around something else, there *)
(* is none, and the text is searched for "vulnerable: true" and            *)
(* "vulnerable: false", of which the last one counts.  That search always  *)
(* succeeds, so that none of the parsers after it is ever reached.         *)
(***************************************************************************)
Braced(line) == line \in {"yes", "no", "braces"}
Json(lines) == SelectSeq(lines, Braced)
Spoken(lines) == SelectSeq(lines, LAMBDA line : line \in {"vulnerable: true", "vulnerable: false"})

StructuredText(lines) == Spoken(lines) # <<>> /\ Spoken(lines)[Len(Spoken(lines))] = "vulnerable: true"

Says(lines) ==
    IF Json(lines) \in {<<"yes">>, <<"no">>} THEN Json(lines) = <<"yes">> ELSE StructuredText(lines)

ParsedWith(state) == IF state = "ok" THEN Verdict(Says(got)) ELSE Failed

Finish ==
    /\ \/ epc = "wait" /\ ~Combined /\ ReturnResult(ParsedWith(WaitStatus))
       \/ epc = "copy" /\ EndOfFile(out) /\ ReturnResult(ParsedWith(status))
    /\ UNCHANGED <<rvars, engine, script, deadline, runs, touched>>

Execute ==
    \/ ValidateScript \/ Start \/ ReadLine \/ EndOfStdout \/ ReadError \/ EndOfStderr \/ Reap \/ Finish

Process == WriteLine \/ Fork \/ Exit \/ HelperEnds

Directory ==
    /\ Repository \/ Outside
    /\ touched' = (touched \/ (epc = "valid" /\ file'[script.path] # file[script.path]))
    /\ UNCHANGED <<engine, epc, script, deadline, process, pipes, got, status, returned, runs>>

ScriptNext == Directory \/ LoadScripts \/ LoadScript \/ EndLoading \/ Call \/ Execute \/ Process \/ Deadline

ScriptSpec == ScriptInit /\ [][ScriptNext]_scriptVars

\* While a call runs, the engine, the process or the clock goes on: a process
\* writes or exits if it can, and a helper ends at some time.
FairScriptSpec == ScriptSpec /\ WF_scriptVars(Execute \/ Process \/ Deadline)

-----------------------------------------------------------------------------
ScriptTypeOK ==
    /\ RepositoryTypeOK
    /\ platform \in Platforms /\ lpc \subseteq Paths /\ loading \in BOOLEAN
    /\ \A n \in Names : loaded[n] # NoEntry => loaded[n].path \in Paths /\ loaded[n].sum \in Scripts
    /\ epc \in {"idle", "called", "valid", "stdout", "stderr", "wait", "copy"}
    /\ ran \in Scripts \cup {NoScript} /\ child \in {"none", "running", "exited", "killed"}
    /\ Len(out) <= PipeRoom /\ Len(err) <= PipeRoom
    /\ {deadline, helper, touched} \subseteq BOOLEAN /\ status \in {"ok", "error"}
    /\ returned \in {NoVerdict, Failed, Verdict(TRUE), Verdict(FALSE)} /\ runs \in 0..MaxRuns

\* The step prints a line that the engine takes for the output of the script.
Prints(step, language) == step.to = "out" \/ (language = "powershell" /\ step.to = "err")

\* What has been printed after each number of steps.
Printing(text, language) ==
    LET lines[n \in 0..Len(text.does)] ==
          IF n = 0 THEN <<>>
          ELSE IF Prints(text.does[n], language) THEN Append(lines[n - 1], text.does[n].line)
          ELSE lines[n - 1]
    IN  lines

Printed(text, language) == Printing(text, language)[Len(text.does)]

\* A verdict, of either kind, is that of the whole output of a process that
\* ended by itself with status 0: nothing is lost between the process and the
\* parser, and no killed, failing or half-read script is reported as clean.
VerdictOfWholeOutput ==
    returned.state = "verdict" =>
        /\ child = "exited" /\ ran.code = 0
        /\ returned.vulnerable = Says(Printed(ran, Language[script.path]))

\* What runs is the text whose sum was taken when it was loaded, however
\* often the directory has changed since, unless it changed between the
\* validation and the start.
RunsWhatWasLoaded == child # "none" /\ ~touched => ran = script.sum

\* A call of ExecuteScript returns: also for a script that fills stderr while
\* the engine still reads stdout, and for one that leaves a helper behind
\* (which, as the engine waits for it, has to end).
ExecuteReturns == []<>(epc = "idle")
=============================================================================
