---------------------------- MODULE MCScanMerge ----------------------------
(* ScanMerge with two agents, a single target that the network scan has     *)
(* discovered, and a network of two hosts not discovered yet.               *)
EXTENDS ScanMerge, TLC

CONSTANTS a1, a2, ip1, ip2, ip3, db, vuln

TargetsDef == <<[single |-> TRUE, ips |-> {ip1}], [single |-> FALSE, ips |-> {ip2, ip3}]>>
LookupDef == a1 :> << >> @@ a2 :> << >> @@ db :> <<ip3>>
Row(ip, name) == [ip |-> ip, name |-> name, sources |-> {"network"}, aliases |-> {}]
DiscoveredDef == <<Row(ip1, NoName)>>

Report(ok, name, ip, vulns) == [ok |-> ok, name |-> name, ip |-> ip, vulns |-> vulns]
ReportsDef ==
    { Report(TRUE, NoName, NoIP, <<vuln, vuln>>),   \* nothing about the host
      Report(TRUE, db, ip2, <<vuln>>),              \* an address of the network
      Report(FALSE, db, NoIP, << >>) }              \* a name only DNS knows

Interchangeable == Permutations({a1, a2})
=============================================================================
