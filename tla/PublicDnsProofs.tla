--------------------------- MODULE PublicDnsProofs --------------------------
(***************************************************************************)
(* What the two DNS loops keep true for any number of nodes and addresses. *)
(***************************************************************************)
EXTENDS PublicDns, SequenceTheorems, TLAPS

\* What an updater sent last is still there, whatever its address is by now.
LastIsServed ==
  \A n \in Nodes :
    last[n] # Unknown /\ n \notin missed \cup replaced => last[n] \in Served

\* Who is to write the record knows its address.
SenderKnows == \A n \in Nodes : ddns[n].pc # "rest" => ddns[n].ip \in Addresses

DnsInv == DnsTypeOK /\ LastIsServed /\ SenderKnows

LEMMA DnsInvInit == DnsInit => DnsInv
  BY DnsAssumption DEF DnsInit, DnsInv, DnsTypeOK, LastIsServed, SenderKnows, Rest

LEMMA DnsInvStep == DnsInv /\ [DnsNext]_dnsVars => DnsInv'
<1> SUFFICES ASSUME DnsInv, [DnsNext]_dnsVars PROVE DnsInv'
  OBVIOUS
<1> USE DnsAssumption DEF DnsInv, DnsTypeOK, LastIsServed, SenderKnows
<1>1. ASSUME NEW n \in Nodes, TryUpdate(n) PROVE DnsInv'
  <2>1. UNCHANGED <<up, ip, records, last, fails, failover, budget, missed, replaced>>
    BY <1>1 DEF TryUpdate
  <2>2. ddns' = [ddns EXCEPT ![n] = [pc |-> "list", ip |-> ip[n], id |-> 0]]
    BY <1>1 DEF TryUpdate
  <2>3. /\ ddns' \in [Nodes -> [pc : {"rest", "list", "send"}, ip : Addresses \cup {Unknown}, id : Nat]]
        /\ \A m \in Nodes : ddns'[m].id <= Len(records')
    BY <2>1, <2>2
  <2>4. SenderKnows'
    BY <2>2
  <2> QED
    BY <2>1, <2>3, <2>4 DEF Served
<1>2. ASSUME NEW n \in Nodes, ListRecords(n) PROVE DnsInv'
  <2>1. PICK i \in {0} \cup DOMAIN records :
          ddns' = [ddns EXCEPT ![n] = [pc |-> "send", ip |-> ddns[n].ip, id |-> i]]
    BY <1>2 DEF ListRecords
  <2>2. ddns[n].ip \in Addresses /\ i \in Nat /\ i <= Len(records)
    BY <1>2 DEF ListRecords
  <2>3. UNCHANGED <<up, ip, records, last, fails, failover, missed, replaced>>
    BY <1>2 DEF ListRecords
  <2> QED
    BY <2>1, <2>2, <2>3 DEF Served
<1>3. ASSUME NEW n \in Nodes, UpdateRecord(n) PROVE DnsInv'
  <2> DEFINE i == ddns[n].id
             a == ddns[n].ip
  <2>1. /\ Write(n, i, a) /\ Sent(n) /\ ddns[n].pc = "send"
        /\ UNCHANGED <<up, ip, fails, failover, budget>>
    BY <1>3 DEF UpdateRecord
  <2>2. a \in Addresses /\ i \in Nat /\ i <= Len(records)
    BY <2>1
  <2>3. /\ records' \in Seq(Addresses) /\ Len(records) <= Len(records')
        /\ a \in Served'
        /\ \A b \in Served : b \in Served' \/ (i # 0 /\ b = records[i] /\ b # a)
    <3>1. CASE i = 0
      <4>1. records' = Append(records, a)
        BY <2>1, <3>1 DEF Write
      <4>2. /\ records' \in Seq(Addresses) /\ Len(records') = Len(records) + 1
            /\ records'[Len(records) + 1] = a
            /\ \A j \in 1..Len(records) : records'[j] = records[j]
        BY <2>2, <4>1
      <4>3. DOMAIN records = 1..Len(records) /\ DOMAIN records' = 1..Len(records')
        BY <4>2
      <4>4. Len(records) \in Nat
        OBVIOUS
      <4>5. \A j \in 1..Len(records) : j \in DOMAIN records' /\ records[j] = records'[j]
        BY <4>2, <4>3, <4>4
      <4>6. Served \subseteq Served'
        BY <4>3, <4>5 DEF Served
      <4>7. a \in Served'
        <5>1. Len(records) + 1 \in DOMAIN records'
          BY <4>2, <4>3, <4>4
        <5> QED
          BY <4>2, <5>1 DEF Served
      <4> QED
        BY <4>2, <4>4, <4>6, <4>7
    <3>2. CASE i # 0
      <4>1. records' = [records EXCEPT ![i] = a]
        BY <2>1, <3>2 DEF Write
      <4>2. /\ records' \in Seq(Addresses) /\ Len(records') = Len(records)
            /\ i \in 1..Len(records) /\ records'[i] = a
            /\ \A j \in 1..Len(records) : j # i => records'[j] = records[j]
        BY <2>2, <3>2, <4>1, ExceptSeq
      <4>3. DOMAIN records = 1..Len(records) /\ DOMAIN records' = 1..Len(records')
        BY <4>2
      <4>4. a \in Served'
        BY <4>2, <4>3 DEF Served
      <4>5. ASSUME NEW b \in Served PROVE b \in Served' \/ (b = records[i] /\ b # a)
        <5>1. PICK j \in 1..Len(records) : b = records[j]
          BY <4>3 DEF Served
        <5>2. CASE j = i
          BY <4>4, <5>1, <5>2
        <5>3. CASE j # i
          BY <4>2, <4>3, <5>1, <5>3 DEF Served
        <5> QED
          BY <5>2, <5>3
      <4> QED
        BY <3>2, <4>2, <4>4, <4>5
    <3> QED
      BY <3>1, <3>2
  <2>4. /\ missed' = missed \ {n}
        /\ replaced' = (replaced \cup {m \in Nodes : i # 0 /\ records[i] # a /\ last[m] = records[i]}) \ {n}
        /\ last' = [last EXCEPT ![n] = a] /\ ddns' = [ddns EXCEPT ![n] = Rest]
    BY <2>1 DEF Write, Sent
  <2> HIDE DEF i, a
  <2>5. ASSUME NEW m \in Nodes PROVE (last[m] # Unknown /\ m \notin missed \cup replaced => last[m] \in Served)'
    <3>1. CASE m = n
      BY <2>3, <2>4, <3>1
    <3>2. CASE m # n
      <4>1. last'[m] = last[m] /\ (m \notin missed' => m \notin missed)
        BY <2>4, <3>2
      <4>2. m \notin replaced' => m \notin replaced /\ ~(i # 0 /\ records[i] # a /\ last[m] = records[i])
        BY <2>4, <3>2
      <4> QED
        BY <2>3, <4>1, <4>2
    <3> QED
      BY <3>1, <3>2
  <2>6. DnsTypeOK'
    <3>1. ASSUME NEW m \in Nodes PROVE ddns'[m].id <= Len(records')
      <4>1. Len(records) \in Nat /\ Len(records') \in Nat /\ ddns[m].id \in Nat /\ ddns[m].id <= Len(records)
        BY <2>3
      <4>2. ddns'[m].id = ddns[m].id \/ ddns'[m].id = 0
        BY <2>4 DEF Rest
      <4> QED
        BY <2>3, <4>1, <4>2
    <3>2. missed' \subseteq Nodes /\ replaced' \subseteq Nodes
      BY <2>4
    <3>3. /\ last' \in [Nodes -> Addresses \cup {Unknown}]
          /\ ddns' \in [Nodes -> [pc : {"rest", "list", "send"}, ip : Addresses \cup {Unknown}, id : Nat]]
      BY <2>2, <2>4 DEF Rest
    <3> QED
      BY <2>1, <2>3, <3>1, <3>2, <3>3
  <2>7. SenderKnows'
    BY <2>4 DEF Rest
  <2> QED
    BY <2>5, <2>6, <2>7
<1>4. ASSUME NEW n \in Nodes, UpdateFails(n) PROVE DnsInv'
  BY <1>4 DEF UpdateFails, Fault, Sent, Rest, Served
<1>5. ASSUME NEW n \in Nodes, NEW p \in Nodes, CheckPeer(n, p) PROVE DnsInv'
  <2>1. fails[n][p] \in 0..3 /\ (fails[n][p] + 1) % 3 \in 0..3
    <3>1. fails[n][p] \in 0..3
      OBVIOUS
    <3> QED
      BY <3>1
  <2>2. UNCHANGED <<up, ip, records, last, ddns, missed, replaced>>
    BY <1>5 DEF CheckPeer
  <2>3. PICK k \in 0..3 : fails' = [fails EXCEPT ![n] = [fails[n] EXCEPT ![p] = k]]
    BY <1>5, <2>1 DEF CheckPeer
  <2>4. fails' \in [Nodes -> [Nodes -> 0..3]]
    BY <2>3
  <2>5. failover' \in [Nodes -> Addresses \cup {Unknown}]
    <3>1. failover' = failover \/ \E a \in Addresses \cup {Unknown} : failover' = [failover EXCEPT ![n] = a]
      BY <1>5 DEF CheckPeer
    <3> QED
      BY <3>1
  <2> QED
    BY <2>2, <2>4, <2>5 DEF Served
<1>6. ASSUME NEW n \in Nodes, PostRecord(n) PROVE DnsInv'
  <2>1. UNCHANGED <<up, ip, last, ddns, fails, missed, replaced>>
    BY <1>6 DEF PostRecord
  <2>2. failover[n] \in Addresses /\ failover' \in [Nodes -> Addresses \cup {Unknown}]
    BY <1>6 DEF PostRecord
  <2>3. records' = records \/ records' = Append(records, failover[n])
    BY <1>6 DEF PostRecord
  <2>4. /\ records' \in Seq(Addresses) /\ Len(records) <= Len(records')
        /\ \A j \in 1..Len(records) : records'[j] = records[j]
    <3>1. CASE records' = records
      BY <3>1
    <3>2. CASE records' = Append(records, failover[n])
      <4>1. /\ records' \in Seq(Addresses) /\ Len(records') = Len(records) + 1
            /\ \A j \in 1..Len(records) : records'[j] = records[j]
        BY <2>2, <3>2
      <4>2. Len(records) \in Nat
        OBVIOUS
      <4> QED
        BY <4>1, <4>2
    <3> QED
      BY <2>3, <3>1, <3>2
  <2>5. Served \subseteq Served'
    <3>1. DOMAIN records = 1..Len(records) /\ DOMAIN records' = 1..Len(records')
      BY <2>4
    <3> QED
      BY <2>4, <3>1 DEF Served
  <2>6. \A m \in Nodes : ddns'[m].id <= Len(records')
    BY <2>1, <2>4
  <2> QED
    BY <2>1, <2>2, <2>4, <2>5, <2>6
<1>7. ASSUME NEW n \in Nodes, FailoverFails(n) PROVE DnsInv'
  BY <1>7 DEF FailoverFails, Fault, Served
<1>8. ASSUME NEW n \in Nodes, GoDown(n) PROVE DnsInv'
  BY <1>8 DEF GoDown, Rest, Served
<1>9. ASSUME NEW n \in Nodes, ComeBack(n) PROVE DnsInv'
  BY <1>9 DEF ComeBack, Served
<1>10. ASSUME NEW n \in Nodes, NEW a \in Addresses, ChangeAddress(n, a) PROVE DnsInv'
  BY <1>10 DEF ChangeAddress, Served
<1>11. ASSUME NEW n \in Nodes, PeersUnknown(n) PROVE DnsInv'
  BY <1>11 DEF PeersUnknown, Served
<1>12. CASE UNCHANGED dnsVars
  BY <1>12 DEF dnsVars, Served
<1> QED
  BY <1>1, <1>2, <1>3, <1>4, <1>5, <1>6, <1>7, <1>8, <1>9, <1>10, <1>11, <1>12
     DEF DnsNext, DdnsStep, AgentStep

\* The records are addresses, the id an updater is to write exists, and the counters of failed checks stay below the
\* third failure, for any number of nodes that update, fail over and restart.
THEOREM DnsTypeCorrect == DnsSpec => []DnsTypeOK
<1>1. DnsInv => DnsTypeOK
  BY DEF DnsInv
<1> QED
  BY <1>1, DnsInvInit, DnsInvStep, PTL DEF DnsSpec

\* An updater at rest that holds its address for sent is in the DNS with it,
\* unless its call was not carried out or another node has set its record to its own.
THEOREM AddressesServed == DnsSpec => []OwnAddressOrCause
<1>1. DnsInv => OwnAddressOrCause
  BY DnsAssumption DEF DnsInv, DnsTypeOK, LastIsServed, OwnAddressOrCause
<1> QED
  BY <1>1, DnsInvInit, DnsInvStep, PTL DEF DnsSpec
=============================================================================
