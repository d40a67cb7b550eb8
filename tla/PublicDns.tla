----------------------------- MODULE PublicDns ------------------------------
(***************************************************************************)
(* The A records of one domain, written by two loops of every node in      *)
(* direct mode: the DDNS updater, which sets the first record it finds to  *)
(* its own public address, and the failover agent, which adds its own      *)
(* address when a peer was unreachable three times in a row.               *)
(* Cloudflare (external) writes the record whose id it is given, whatever  *)
(* that holds by then, and refuses a second record of the same content.    *)
(* Nothing deletes records, so the place of one is its id.                 *)
(***************************************************************************)
EXTENDS Naturals, FiniteSets, Sequences

CONSTANTS
  Nodes,
  Addresses,   \* public addresses
  First,       \* the address each node has at the start
  Unknown,     \* lastIP of a daemon that has not sent one
  MaxFaults,   \* bound: calls to ipify, Cloudflare and Postgres, and dials, that fail
  MaxMoves,    \* bound: changes of an address
  MaxDowns     \* bound: nodes that go down

ASSUME DnsAssumption ==
  /\ First \in [Nodes -> Addresses] /\ Unknown \notin Addresses
  /\ MaxFaults \in Nat /\ MaxMoves \in Nat /\ MaxDowns \in Nat

VARIABLES
  up,        \* nodes that run
  ip,        \* the public address of each node
  records,   \* the A records of the domain, by id
  last,      \* lastIP of each updater
  ddns,      \* tryUpdate: where it stands, the address to send, the id found, or 0
  fails,     \* failCount of each agent
  failover,  \* performFailover: the address about to be posted, or Unknown
  budget,    \* faults, moves and downs so far
  missed,    \* history: nodes whose update was not carried out although lastIP was set
  replaced   \* history: nodes whose record, of the address they sent last, another
             \* node has set to its own

dnsVars == <<up, ip, records, last, ddns, fails, failover, budget, missed, replaced>>

Rest == [pc |-> "rest", ip |-> Unknown, id |-> 0]

Served == {records[i] : i \in DOMAIN records}

DnsTypeOK ==
  /\ up \subseteq Nodes /\ ip \in [Nodes -> Addresses]
  /\ records \in Seq(Addresses)
  /\ last \in [Nodes -> Addresses \cup {Unknown}]
  /\ ddns \in [Nodes -> [pc : {"rest", "list", "send"}, ip : Addresses \cup {Unknown},
                         id : Nat]]
  /\ \A n \in Nodes : ddns[n].id <= Len(records)
  /\ fails \in [Nodes -> [Nodes -> 0..3]]
  /\ failover \in [Nodes -> Addresses \cup {Unknown}]
  /\ missed \subseteq Nodes /\ replaced \subseteq Nodes

DnsInit ==
  /\ up = Nodes /\ ip = First /\ records = <<>>
  /\ last = [n \in Nodes |-> Unknown] /\ ddns = [n \in Nodes |-> Rest]
  /\ fails = [n \in Nodes |-> [p \in Nodes |-> 0]]
  /\ failover = [n \in Nodes |-> Unknown]
  /\ budget = [faults |-> 0, moves |-> 0, downs |-> 0]
  /\ missed = {} /\ replaced = {}

Fault == budget.faults < MaxFaults /\ budget' = [budget EXCEPT !.faults = @ + 1]

-----------------------------------------------------------------------------
(* ddns/updater.go: at the start and every five minutes.                   *)

\* The address is looked up; nothing is done if it is the one sent last.
TryUpdate(n) ==
  /\ n \in up /\ ddns[n] = Rest
  /\ ip[n] # last[n]
  /\ ddns' = [ddns EXCEPT ![n] = [pc |-> "list", ip |-> ip[n], id |-> 0]]
  /\ UNCHANGED <<up, ip, records, last, fails, failover, budget, missed, replaced>>

\* The id of the first record listed, whoever set it. Without one, or if Cloudflare
\* answered with an error, which is not looked at, a record is to be added.
ListRecords(n) ==
  /\ n \in up /\ ddns[n].pc = "list"
  /\ \E i \in {0} \cup DOMAIN records :
       /\ IF i = 0 /\ records # <<>> THEN Fault ELSE UNCHANGED budget
       /\ ddns' = [ddns EXCEPT ![n] = [pc |-> "send", ip |-> ddns[n].ip, id |-> i]]
  /\ UNCHANGED <<up, ip, records, last, fails, failover, missed, replaced>>

\* lastIP = ip, whether or not the record was written.
Sent(n) ==
  /\ last' = [last EXCEPT ![n] = ddns[n].ip]
  /\ ddns' = [ddns EXCEPT ![n] = Rest]

\* PATCH of record i, POST for i = 0; nodes whose record that was lose it.
Write(n, i, a) ==
  /\ records' = IF i = 0 THEN Append(records, a) ELSE [records EXCEPT ![i] = a]
  /\ replaced' = (replaced \cup {m \in Nodes : i # 0 /\ records[i] # a /\ last[m] = records[i]})
                  \ {n}
  /\ missed' = missed \ {n}

\* Another record has that content already.
Refused(i, a) == \E j \in DOMAIN records : j # i /\ records[j] = a

\* Mutant: the payload is made from the address sent last.
BugUpdateRecord(n) ==
  LET a == IF last[n] = Unknown THEN ddns[n].ip ELSE last[n] IN
  /\ n \in up /\ ddns[n].pc = "send"
  /\ ~Refused(ddns[n].id, a)
  /\ Write(n, ddns[n].id, a)
  /\ Sent(n)
  /\ UNCHANGED <<up, ip, fails, failover, budget>>

\* The record of the id found is set, also if another node has set it since.
\* When only the answer is lost, the record is written and an error logged.
UpdateRecord(n) ==
  /\ n \in up /\ ddns[n].pc = "send"
  /\ ~Refused(ddns[n].id, ddns[n].ip)
  /\ Write(n, ddns[n].id, ddns[n].ip)
  /\ Sent(n)
  /\ UNCHANGED <<up, ip, fails, failover, budget>>

\* Listing or writing failed without effect: it is only logged.
UpdateFails(n) ==
  /\ n \in up /\ ddns[n].pc \in {"list", "send"}
  /\ IF ddns[n].pc = "send" /\ Refused(ddns[n].id, ddns[n].ip)
       THEN UNCHANGED budget ELSE Fault
  /\ missed' = missed \cup {n}
  /\ Sent(n)
  /\ UNCHANGED <<up, ip, records, fails, failover, replaced>>

-----------------------------------------------------------------------------
(* dns_failover/agent.go: every 30 seconds, peer by peer.                  *)

\* Mutant: the counter goes on, and the third failure alone makes a failover.
BugCheckPeer(n, p) ==
  /\ n \in up /\ p # n /\ failover[n] = Unknown
  /\ \/ /\ p \in up
        /\ fails' = [fails EXCEPT ![n][p] = 0]
        /\ UNCHANGED <<failover, budget>>
     \/ /\ IF p \in up THEN Fault ELSE UNCHANGED budget
        /\ fails' = [fails EXCEPT ![n][p] = IF @ < 3 THEN @ + 1 ELSE 3]
        /\ failover' = [failover EXCEPT ![n] = IF fails[n][p] = 2 THEN ip[n] ELSE Unknown]
  /\ UNCHANGED <<up, ip, records, last, ddns, missed, replaced>>

\* The counter starts anew when the peer answers, and after a failover,
\* whatever became of it. A node that is down keeps status online in nodes.
CheckPeer(n, p) ==
  /\ n \in up /\ p # n /\ failover[n] = Unknown
  /\ \/ /\ p \in up
        /\ fails' = [fails EXCEPT ![n][p] = 0]
        /\ UNCHANGED <<failover, budget>>
     \/ /\ IF p \in up THEN Fault ELSE UNCHANGED budget
        /\ fails' = [fails EXCEPT ![n][p] = (@ + 1) % 3]
        /\ failover' = [failover EXCEPT ![n] = IF fails[n][p] = 2 THEN ip[n] ELSE Unknown]
  /\ UNCHANGED <<up, ip, records, last, ddns, missed, replaced>>

\* getPeerIPs: Postgres does not answer, there are no peers to look at this time.
PeersUnknown(n) ==
  /\ n \in up /\ failover[n] = Unknown
  /\ Fault
  /\ UNCHANGED <<up, ip, records, last, ddns, fails, failover, missed, replaced>>

\* updateCloudflareDNS: the records listed are not looked at; one is added,
\* whether or not the answer comes back.
PostRecord(n) ==
  /\ n \in up /\ failover[n] # Unknown
  /\ records' = IF failover[n] \in Served THEN records ELSE Append(records, failover[n])
  /\ failover' = [failover EXCEPT ![n] = Unknown]
  /\ UNCHANGED <<up, ip, last, ddns, fails, budget, missed, replaced>>

\* The own address cannot be looked up, or Cloudflare refuses.
FailoverFails(n) ==
  /\ n \in up /\ failover[n] # Unknown
  /\ Fault
  /\ failover' = [failover EXCEPT ![n] = Unknown]
  /\ UNCHANGED <<up, ip, records, last, ddns, fails, missed, replaced>>

-----------------------------------------------------------------------------
(* The world.                                                              *)

ChangeAddress(n, a) ==
  /\ budget.moves < MaxMoves
  /\ a \notin {ip[m] : m \in Nodes}
  /\ ip' = [ip EXCEPT ![n] = a]
  /\ budget' = [budget EXCEPT !.moves = @ + 1]
  /\ UNCHANGED <<up, records, last, ddns, fails, failover, missed, replaced>>

\* The daemon of a node, or the node, stops: what it kept in memory is gone.
GoDown(n) ==
  /\ n \in up /\ budget.downs < MaxDowns
  /\ up' = up \ {n}
  /\ budget' = [budget EXCEPT !.downs = @ + 1]
  /\ last' = [last EXCEPT ![n] = Unknown] /\ ddns' = [ddns EXCEPT ![n] = Rest]
  /\ fails' = [fails EXCEPT ![n] = [p \in Nodes |-> 0]]
  /\ failover' = [failover EXCEPT ![n] = Unknown]
  /\ UNCHANGED <<ip, records, missed, replaced>>

ComeBack(n) ==
  /\ n \in Nodes \ up
  /\ up' = up \cup {n}
  /\ UNCHANGED <<ip, records, last, ddns, fails, failover, budget, missed, replaced>>

DdnsStep(n) == TryUpdate(n) \/ ListRecords(n) \/ UpdateRecord(n) \/ UpdateFails(n)
AgentStep(n) ==
  (\E p \in Nodes : CheckPeer(n, p)) \/ PeersUnknown(n) \/ PostRecord(n) \/ FailoverFails(n)

DnsNext ==
  \E n \in Nodes :
    \/ DdnsStep(n) \/ AgentStep(n) \/ GoDown(n) \/ ComeBack(n)
    \/ \E a \in Addresses : ChangeAddress(n, a)

DnsSpec == DnsInit /\ [][DnsNext]_dnsVars

-----------------------------------------------------------------------------
(* Properties.                                                             *)

\* An updater at rest that holds its address for sent is in the DNS with it,
\* unless that call was not carried out, which is not tried again, or another
\* node has taken its record: every node sets the first record it finds, and sets
\* it although it was written since. A call that only lost its answer, and an
\* address that comes back before the change was noticed, are no exceptions.
OwnAddressOrCause ==
  \A n \in up :
    ddns[n] = Rest /\ last[n] = ip[n] /\ n \notin missed \cup replaced => ip[n] \in Served

\* README: `failover after 3 consecutive failures`. When all peers of a node
\* stay down, its address comes to be in the DNS for good, although each single
\* failover, and the update of its own record, is tried once.
SurvivorIsServed ==
  \A n \in Nodes : <>[](up = {n}) => <>[](ip[n] \in Served)

=============================================================================
