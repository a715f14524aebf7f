----------------------------- MODULE ScanMerge -----------------------------
(***************************************************************************)
(* Merging the results of a coordinated scan: each result that carries a   *)
(* scan identifier starts a goroutine, mergeAgentScanResults, that reads   *)
(* the currentScan key, finds the agent's host, updates the agents'        *)
(* sub-scan, the hosts and the vulnerabilities, and writes the key back;   *)
(* then it does the same with the agent_scan key.  Nothing locks the keys. *)
(***************************************************************************)
EXTENDS Naturals, Sequences, FiniteSets, SequencesExt

CONSTANTS
    Agents,       \* agent identifiers; one may be an IP address
    IPs,          \* concrete addresses
    NoIP,
    NoName,
    Targets,      \* of a scan: [single, ips], a network having several
    Lookup,       \* DNS: what each host name or agent identifier resolves to
    Discovered,   \* hosts the network scan has found, in order
    Dispatched,   \* agents the front end sends the scan command to
    Reports,      \* what agents may report: [ok, name, ip, vulns]
    MaxMerges,    \* bound on the results merged
    MaxScans      \* bound on the scans started

Names == {NoName} \cup {r.name : r \in Reports} \cup {Discovered[i].name : i \in DOMAIN Discovered}
HostRows == [ip : IPs, name : Names, sources : SUBSET {"network", "agent"}, aliases : SUBSET Names]

\* The network scan finds a host once.
ASSUME MergeAssumption ==
    /\ NoIP \notin IPs
    /\ Dispatched \subseteq Agents /\ IsFiniteSet(Agents)
    /\ MaxMerges \in Nat
    /\ MaxScans \in Nat \ {0}
    /\ Targets \in Seq(Range(Targets))
    /\ Agents \subseteq DOMAIN Lookup
    /\ \A x \in DOMAIN Lookup : Lookup[x] \in Seq(Range(Lookup[x]))
    /\ Discovered \in Seq(HostRows)
    /\ \A i, j \in DOMAIN Discovered : Discovered[i].ip = Discovered[j].ip => i = j
    /\ \A r \in Reports : /\ r.name # NoName => r.name \in DOMAIN Lookup
                          /\ r.vulns \in Seq(Range(r.vulns))

Merges == 1..MaxMerges

VARIABLES
    scan,       \* the currentScan key
    key,        \* the agent_scan key of each scan
    announced,  \* the scans whose agent_scan key the front end has written
    pc,         \* where each merge is
    job,        \* what it merges
    copy,       \* the scan it read
    keyCopy,    \* the agent_scan value it read
    host,       \* the host it resolved the agent to
    overlap     \* ghost: a merge has written over a change it had not read

mergeVars == <<scan, key, announced, pc, job, copy, keyCopy, host, overlap>>

Done == {"completed", "failed"}
NoScan == [id |-> 0]
NoKey == [status |-> "absent"]
NoJob == [scan |-> 0]

\* A scan as the front end starts it; the network scan has found its hosts.
NewScan(id) ==
    [id |-> id, hosts |-> Discovered, vulns |-> << >>, network |-> "running",
     agents |-> "running", dispatched |-> Dispatched,
     statuses |-> [a \in Agents |-> IF a \in Dispatched THEN "running" ELSE "none"],
     status |-> "running"]

MergeInit ==
    /\ scan = NewScan(1)
    /\ key = [s \in 1..MaxScans |-> NoKey]
    /\ announced = {}
    /\ pc = [m \in Merges |-> "idle"]
    /\ job = [m \in Merges |-> NoJob]
    /\ copy = [m \in Merges |-> NoScan]
    /\ keyCopy = [m \in Merges |-> NoKey]
    /\ host = [m \in Merges |-> NoIP]
    /\ overlap = FALSE

-----------------------------------------------------------------------------
(* resolveAgentHostIP: the first strategy that finds an address decides.    *)

isConcreteHostIP(x) == x \in IPs
InTargets(ip) == isConcreteHostIP(ip) /\ \E i \in DOMAIN Targets : ip \in Targets[i].ips
TargetIPs == {ip \in IPs : InTargets(ip)}
HostIPs(hosts) == [i \in DOMAIN hosts |-> hosts[i].ip]

\* The first of a list that is one of S.
FirstIn(list, S) ==
    LET at == {i \in DOMAIN list : list[i] \in S}
    IN IF at = {} THEN NoIP ELSE list[Min(at)]

\* Mutant: a host counts as claimed only once an agent has named it.
ClaimedByName(hosts) ==
    {hosts[i].ip : i \in {j \in DOMAIN hosts :
        "agent" \in hosts[j].sources /\ hosts[j].name # NoName}}
buildAgentClaimedIPs(hosts) ==
    {hosts[i].ip : i \in {j \in DOMAIN hosts : "agent" \in hosts[j].sources}}

ByPrimary(r) == IF InTargets(r.ip) THEN r.ip ELSE NoIP
ByHostname(r, hosts) ==
    LET named == {i \in DOMAIN hosts : isConcreteHostIP(hosts[i].ip) /\ hosts[i].name = r.name}
    IN IF r.name = NoName \/ named = {} THEN NoIP ELSE hosts[Min(named)].ip
ByAgentID(a) == IF InTargets(a) THEN a ELSE NoIP
ByDNS(x) == FirstIn(Lookup[x], TargetIPs)
SingleIPs ==
    [i \in DOMAIN Targets |-> IF Targets[i].single THEN CHOOSE ip \in Targets[i].ips : TRUE ELSE NoIP]
ByElimination(hosts) ==
    LET free == IPs \ buildAgentClaimedIPs(hosts)
        found == FirstIn(HostIPs(hosts), free)
    IN IF found # NoIP THEN found ELSE FirstIn(SingleIPs, free)
LastResort(r) == IF isConcreteHostIP(r.ip) THEN r.ip ELSE NoIP

\* The strategies, in the order they are tried.
Strategies(a, r, hosts) ==
    <<ByPrimary(r),
      ByHostname(r, hosts),
      ByAgentID(a),
      IF r.name # NoName THEN ByDNS(r.name) ELSE NoIP,
      IF a # r.name /\ ~isConcreteHostIP(a) THEN ByDNS(a) ELSE NoIP,
      ByElimination(hosts),
      LastResort(r)>>
resolveAgentHostIP(a, r, hosts) == FirstIn(Strategies(a, r, hosts), IPs)

-----------------------------------------------------------------------------
(* What a merge makes of the scan it read.                                  *)

appendUniqueString(slice, x) == slice \cup ({x} \ {NoName})

\* The row of the host: a discovered name is kept and the agent's is an alias.
WithAgent(h, name) ==
    [h EXCEPT !.sources = @ \cup {"agent"},
              !.name = IF @ = NoName THEN name ELSE @,
              !.aliases = IF h.name \in {NoName, name} THEN @ ELSE appendUniqueString(@, name)]

\* Mutant: a row is made for an agent whose host is not resolved.
AnyRow(hosts, ip, name) ==
    IF \E i \in DOMAIN hosts : hosts[i].ip = ip
      THEN LET i == CHOOSE i \in DOMAIN hosts :
                      hosts[i].ip = ip /\ \A j \in 1..(i-1) : hosts[j].ip # ip
           IN [hosts EXCEPT ![i] = WithAgent(@, name)]
      ELSE Append(hosts, [ip |-> ip, name |-> name, sources |-> {"agent"}, aliases |-> {}])
MergedHosts(hosts, ip, name) == IF ip = NoIP THEN hosts ELSE AnyRow(hosts, ip, name)

\* Mutant: the key leaves out the agent.
KeyWithoutAgent(v) == <<v.host, v.id>>
VulnKey(v) == <<v.host, v.id, v.agent>>

Listed(v, vulns) == \E i \in DOMAIN vulns : VulnKey(vulns[i]) = VulnKey(v)
WithVuln(vulns, v) == IF Listed(v, vulns) THEN vulns ELSE Append(vulns, v)
appendAgentVulnerabilitiesDeduped(existing, ids, ip, a) ==
    LET merged[n \in 0..Len(ids)] ==
          IF n = 0 THEN existing
          ELSE WithVuln(merged[n - 1], [host |-> ip, id |-> ids[n], agent |-> a])
    IN merged[Len(ids)]

\* Mutant: the agents that have not reported are not waited for.
FirstAgentDone(dispatched, statuses) == dispatched # {}
AllAgentsDone(dispatched, statuses) ==
    /\ dispatched # {}
    /\ Cardinality({a \in Agents : statuses[a] \in Done}) >= Cardinality(dispatched)

Merged(s, a, r) ==
    LET ip == resolveAgentHostIP(a, r, s.hosts)
        dispatched == s.dispatched \cup {a}
        statuses == [s.statuses EXCEPT ![a] = IF r.ok THEN "completed" ELSE "failed"]
        agents == IF AllAgentsDone(dispatched, statuses) THEN "completed" ELSE "running"
    IN [s EXCEPT
          !.dispatched = dispatched,
          !.statuses = statuses,
          !.agents = agents,
          !.status = IF agents = "completed" /\ s.network \in Done THEN "completed" ELSE @,
          !.hosts = MergedHosts(@, ip, r.name),
          !.vulns = IF ip = NoIP THEN @ ELSE appendAgentVulnerabilitiesDeduped(@, r.vulns, ip, a)]

-----------------------------------------------------------------------------
(* The merge goroutine.                                                     *)

Goto(m, where) == pc' = [pc EXCEPT ![m] = where]

\* handleCommandResult: the command of the result named a scan.
ResultArrives(m, a, r) ==
    /\ pc[m] = "idle"
    /\ \A k \in 1..(m-1) : pc[k] # "idle"
    /\ \E s \in 1..scan.id : job' = [job EXCEPT ![m] = [scan |-> s, agent |-> a, report |-> r]]
    /\ Goto(m, "get")
    /\ UNCHANGED <<scan, key, announced, copy, keyCopy, host, overlap>>

GetScan(m) ==
    /\ pc[m] = "get"
    /\ IF scan.id = job[m].scan
         THEN copy' = [copy EXCEPT ![m] = scan] /\ Goto(m, "set")
         ELSE Goto(m, "skipped") /\ UNCHANGED copy
    /\ UNCHANGED <<scan, key, announced, job, keyCopy, host, overlap>>

SetScan(m) ==
    /\ pc[m] = "set"
    /\ scan' = Merged(copy[m], job[m].agent, job[m].report)
    /\ host' = [host EXCEPT ![m] =
                  resolveAgentHostIP(job[m].agent, job[m].report, copy[m].hosts)]
    /\ overlap' = (overlap \/ scan # copy[m])
    /\ copy' = [copy EXCEPT ![m] = NoScan]
    /\ Goto(m, "getKey") \/ Goto(m, "failed")   \* written, but no answer in time
    /\ UNCHANGED <<key, announced, job, keyCopy>>

\* Valkey does not answer in time: nothing is merged.
ScanFails(m) ==
    /\ pc[m] \in {"get", "set"}
    /\ copy' = [copy EXCEPT ![m] = NoScan]
    /\ Goto(m, "failed")
    /\ UNCHANGED <<scan, key, announced, job, keyCopy, host, overlap>>

\* updateAgentScanStatus; any error is taken for a missing key.
GetKey(m) ==
    /\ pc[m] = "getKey"
    /\ \E k \in {key[job[m].scan], NoKey} : keyCopy' = [keyCopy EXCEPT ![m] = k]
    /\ Goto(m, "setKey")
    /\ UNCHANGED <<scan, key, announced, job, copy, host, overlap>>

NewKey(a, r) ==
    LET st == IF r.ok THEN "completed" ELSE "failed" IN
    [status |-> st, total |-> 1, completed |-> 1, agents |-> [x \in {a} |-> st]]

DoneNow(k, agents) == Cardinality({x \in DOMAIN agents : agents[x] \in Done})

KeyCompleted(k, n) == n >= k.total /\ k.total > 0

UpdatedKey(k, a, r) ==
    LET agents == [x \in DOMAIN k.agents |->
                     IF x # a THEN k.agents[x] ELSE IF r.ok THEN "completed" ELSE "failed"]
        n == DoneNow(k, agents)
    IN [status |-> IF KeyCompleted(k, n) THEN "completed" ELSE k.status,
        total |-> k.total, completed |-> n, agents |-> agents]

SetKey(m) ==
    /\ pc[m] = "setKey"
    /\ LET a == job[m].agent
           r == job[m].report
       IN \/ key' = [key EXCEPT ![job[m].scan] =
                       IF keyCopy[m] = NoKey THEN NewKey(a, r) ELSE UpdatedKey(keyCopy[m], a, r)]
          \/ UNCHANGED key
    /\ keyCopy' = [keyCopy EXCEPT ![m] = NoKey]
    /\ Goto(m, "done")
    /\ UNCHANGED <<scan, announced, job, copy, host, overlap>>

-----------------------------------------------------------------------------
(* The front end and the network scan, other writers of the same keys.      *)

StartScan ==
    /\ scan.id < MaxScans
    /\ scan' = NewScan(scan.id + 1)
    /\ UNCHANGED <<key, announced, pc, job, copy, keyCopy, host, overlap>>

\* The front end writes the agent_scan key, perhaps after the first result.
WriteKey ==
    /\ scan.id \notin announced
    /\ announced' = announced \cup {scan.id}
    /\ key' = [key EXCEPT ![scan.id] =
                 [status |-> "running", total |-> Cardinality(Dispatched), completed |-> 0,
                  agents |-> [a \in Dispatched |-> "running"]]]
    /\ UNCHANGED <<scan, pc, job, copy, keyCopy, host, overlap>>

NetworkDone ==
    /\ scan.network = "running"
    /\ scan' = [scan EXCEPT !.network = "completed"]
    /\ UNCHANGED <<key, announced, pc, job, copy, keyCopy, host, overlap>>

-----------------------------------------------------------------------------
MergeNext ==
    \/ \E m \in Merges, a \in Agents, r \in Reports : ResultArrives(m, a, r)
    \/ \E m \in Merges : GetScan(m) \/ SetScan(m) \/ ScanFails(m) \/ GetKey(m) \/ SetKey(m)
    \/ StartScan \/ WriteKey \/ NetworkDone

MergeSpec == MergeInit /\ [][MergeNext]_mergeVars

-----------------------------------------------------------------------------
(* Correctness.                                                             *)

Written(m) == pc[m] \in {"getKey", "setKey", "done"}

Statuses == {"none", "running"} \cup Done

\* Every variable stays in its domain; the agent_scan key counts the agents
\* it lists as done.
MergeTypeOK ==
    /\ scan.id \in 1..MaxScans
    /\ scan.dispatched \subseteq Agents
    /\ scan.statuses \in [Agents -> Statuses]
    /\ {scan.agents, scan.network, scan.status} \subseteq {"running", "completed"}
    /\ pc \in [Merges -> {"idle", "get", "set", "getKey", "setKey", "done", "skipped", "failed"}]
    /\ host \in [Merges -> IPs \cup {NoIP}]
    /\ announced \subseteq 1..MaxScans
    /\ overlap \in BOOLEAN

\* However merges interleave, the scan has one row for each host and none
\* for an agent whose host could not be resolved ("caller must not create a
\* fake host row").
OneRowPerHost ==
    /\ \A i \in DOMAIN scan.hosts : isConcreteHostIP(scan.hosts[i].ip)
    /\ \A i, j \in DOMAIN scan.hosts : scan.hosts[i].ip = scan.hosts[j].ip => i = j

\* No vulnerability of an agent is listed twice for a host, whatever is
\* reported again (appendAgentVulnerabilitiesDeduped).
NoVulnTwice ==
    \A i, j \in DOMAIN scan.vulns : scan.vulns[i] = scan.vulns[j] => i = j

\* Nothing merged twice shows twice.
NothingTwice == OneRowPerHost /\ NoVulnTwice

\* A scan is complete only when the network scan and every dispatched agent
\* have finished, and an agent_scan key when every agent it lists has, even
\* after a lost update; its count is that of the agents it lists as done.
CompleteIsFinished ==
    /\ scan.status = "completed" =>
         /\ scan.network = "completed"
         /\ \A a \in scan.dispatched : scan.statuses[a] \in Done
    /\ \A s \in DOMAIN key : key[s].status = "completed" =>
         \A a \in DOMAIN key[s].agents : key[s].agents[a] \in Done
    /\ \A s \in DOMAIN key : key[s] # NoKey =>
         /\ key[s].completed = Cardinality({a \in DOMAIN key[s].agents : key[s].agents[a] \in Done})
         /\ key[s].completed <= key[s].total

\* As long as no write went over an unread one, a merged result is there: its
\* agent has reported, its host is marked, its vulnerabilities are listed.
NothingLostWithoutOverlap ==
    ~overlap => \A m \in Merges : Written(m) /\ job[m].scan = scan.id =>
        LET a == job[m].agent
            ip == host[m]
        IN /\ scan.statuses[a] \in Done
           /\ ip # NoIP =>
                /\ \E i \in DOMAIN scan.hosts :
                     scan.hosts[i].ip = ip /\ "agent" \in scan.hosts[i].sources
                /\ \A n \in DOMAIN job[m].report.vulns : \E i \in DOMAIN scan.vulns :
                     scan.vulns[i] = [host |-> ip, id |-> job[m].report.vulns[n], agent |-> a]

\* Two agents that say nothing of where they run are given different hosts.
Anonymous(m) ==
    /\ job[m].report.name = NoName /\ ~isConcreteHostIP(job[m].report.ip)
    /\ Lookup[job[m].agent] = << >> /\ ~isConcreteHostIP(job[m].agent)
AnonymousApart ==
    ~overlap => \A m, n \in Merges :
        /\ Written(m) /\ Written(n) /\ Anonymous(m) /\ Anonymous(n)
        /\ job[m].scan = job[n].scan /\ job[m].agent # job[n].agent
        /\ host[m] # NoIP
        => host[m] # host[n]
=============================================================================
