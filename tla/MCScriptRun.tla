----------------------------- MODULE MCScriptRun -----------------------------
(***************************************************************************)
(* A bash and a PowerShell script in a directory.  The scripts: one that   *)
(* reports through a helper's pipe, one with two objects, one that writes  *)
(* more to stderr than the pipe holds, one that fails.                     *)
(***************************************************************************)
EXTENDS ScriptRun

Does(to, line) == [to |-> to, line |-> line]
Text(described, name, code, does) == [described |-> described, name |-> name, code |-> code, does |-> does]

Forking == Text(TRUE, "check", 0, <<Does("fork", "none"), Does("out", "text"), Does("out", "yes")>>)
Twice == Text(TRUE, "check", 0, <<Does("out", "yes"), Does("err", "braces"), Does("out", "vulnerable: true")>>)
Chatty == Text(FALSE, "check", 0, <<Does("err", "text"), Does("err", "text"), Does("out", "no")>>)
Failing == Text(TRUE, "check", 2, <<Does("out", "vulnerable: true")>>)

Holding(bash, powershell) == [p \in Paths |-> IF p = "check.ps1" THEN powershell ELSE bash]
Shipped == {Holding(Chatty, Twice), Holding(Forking, Failing)}
Texts == {Forking, Twice, Chatty, Failing}
LanguageOf == Holding("bash", "powershell")
Interpreters == {"/bin/bash", "pwsh"}
=============================================================================
