--------------------------- MODULE LibraryProofs ---------------------------
(***************************************************************************)
(* Proofs about the smaller objects of the library, one part each:          *)
(* DcNetwork, ServiceManager, GroupRounds and AddressBook; and about all of *)
(* them side by side, with those of TrustProofs.                            *)
(***************************************************************************)
EXTENDS Library, TrustProofs, FiniteSetTheorems, WellFoundedInduction, TLAPS

---------------------------------------------------------------------------
(***************************************************************************)
(* Proofs about DcNetwork, for any set of uids and any number of joins.     *)
(***************************************************************************)
\* A non-empty part of a join order has a first element (network.rs:152).
LEMMA EarliestExists ==
    ASSUME NEW D, NEW order \in [D -> Nat], NEW S \in SUBSET D, S # {}
    PROVE  Earliest(order, S) \in S
<1> DEFINE T == {order[u] : u \in S}
<1>1. T \subseteq Nat /\ T # {}
  BY Zenon
<1>2. PICK x \in T : \A y \in T : ~(<<y, x>> \in OpToRel(<, Nat))
  <2> HIDE DEF T
  <2> QED BY <1>1, NatLessThanWellFounded, WFMin, Zenon
<1>3. \A y \in T : ~(y < x)
  <2> SUFFICES ASSUME NEW y \in T, y < x PROVE FALSE
    BY Zenon
  <2>1. <<y, x>> \in OpToRel(<, Nat)
    BY <1>1, Zenon DEF OpToRel
  <2> QED BY <1>2, <2>1, Zenon
<1>4. PICK u \in S : order[u] = x
  BY Zenon
<1>5. \A v \in S : order[u] <= order[v]
  BY <1>1, <1>3, <1>4
<1>6. QED
  BY <1>4, <1>5, Zenon DEF Earliest

\* The inductive invariant: the parts rest on each other (a kicked leader is
\* replaced from the join order, which lists exactly the members).
Inv == TypeOK /\ LeaderIsMember /\ OrderListsMembers /\ InvitesAreForOutsiders

\* A new network satisfies the invariant.
LEMMA InvInit == Init => Inv
  BY FounderAssumption
     DEF Init, Inv, TypeOK, LeaderIsMember, OrderListsMembers,
         InvitesAreForOutsiders, has_pending_invite, TrustLevel, Marginal,
         Never, Ultimate

\* Every operation of dcnet/network.rs preserves the invariant.
LEMMA InvStep == Inv /\ [Next]_vars => Inv'
<1> SUFFICES ASSUME Inv, [Next]_vars PROVE Inv'
  BY Zenon
<1> USE DEF Inv
<1>1. ASSUME NEW u \in Uid, NEW by \in Uid, invite_member(u, by)
      PROVE  Inv'
  BY <1>1 DEF invite_member, TypeOK, LeaderIsMember, OrderListsMembers,
              InvitesAreForOutsiders, has_pending_invite, Invite
<1>2. ASSUME NEW u \in Uid, NEW by \in Uid, kick_member(u, by)
      PROVE  Inv'
  <2>1. Unlisted(u) \in [members \ {u} -> Nat]
    BY DEF Unlisted, TypeOK, OrderListsMembers
  <2>2. admin_uid \in members \ {u}
    BY <1>2, Zenon DEF kick_member, LeaderIsMember
  <2>3. current_leader' \in members'
    <3>1. CASE u = current_leader
      <4>1. Earliest(Unlisted(u), members \ {u}) \in members \ {u}
        <5>1. PICK o : o = Unlisted(u)
          BY Zenon
        <5>2. PICK M : M = members \ {u}
          BY Zenon
        <5>3. Earliest(o, M) \in M
          BY <5>1, <5>2, <2>1, <2>2, EarliestExists
        <5> QED BY <5>1, <5>2, <5>3, Zenon
      <4>2. DOMAIN Unlisted(u) = members \ {u}
        BY <2>1, Zenon
      <4> QED BY <1>2, <3>1, <4>1, <4>2, Zenon DEF kick_member, Failover
    <3>2. CASE u # current_leader
      BY <1>2, <3>2, Zenon DEF kick_member, Failover, LeaderIsMember
    <3> QED BY <3>1, <3>2, Zenon
  <2>4. LeaderIsMember'
    BY <1>2, <2>2, <2>3, Zenon DEF kick_member, LeaderIsMember
  <2>5. OrderListsMembers'
    BY <1>2, <2>1, Zenon DEF kick_member, Unlisted, OrderListsMembers
  <2>6. InvitesAreForOutsiders'
    BY <1>2, Zenon DEF kick_member, InvitesAreForOutsiders, has_pending_invite
  <2>7. TypeOK'
    <3>1. member_join_order' \in [DOMAIN member_join_order' -> 0 .. joins']
      BY <1>2, Zenon DEF kick_member, Unlisted, TypeOK
    <3>2. DOMAIN member_join_order' \subseteq Uid
      BY <1>2, Zenon DEF kick_member, Unlisted, TypeOK
    <3>3. current_leader' \in Uid
      BY <1>2, <2>3, Zenon DEF kick_member, TypeOK
    <3> QED BY <1>2, <3>1, <3>2, <3>3, Zenon DEF kick_member, TypeOK
  <2> QED BY <2>4, <2>5, <2>6, <2>7, Zenon
<1>3. ASSUME NEW u \in Uid, NEW by \in Uid, transfer_admin(u, by)
      PROVE  Inv'
  BY <1>3, Zenon DEF transfer_admin, TypeOK, LeaderIsMember, OrderListsMembers,
      InvitesAreForOutsiders, has_pending_invite
<1>4. ASSUME NEW u \in Uid, NEW t \in TrustLevel, accept_join(u, t)
      PROVE  Inv'
  <2>1. u \notin members
    BY <1>4, Zenon DEF accept_join, InvitesAreForOutsiders
  <2>2. TypeOK'
    <3>1. member_join_order' \in [DOMAIN member_join_order' -> 0 .. joins']
      BY <1>4, <2>1 DEF accept_join, TypeOK
    <3>2. DOMAIN member_join_order' \subseteq Uid
      BY <1>4, <2>1, Zenon DEF accept_join, TypeOK
    <3> QED BY <1>4, <2>1, <3>1, <3>2 DEF accept_join, TypeOK
  <2>3. OrderListsMembers'
    BY <1>4, <2>1 DEF accept_join, TypeOK, OrderListsMembers
  <2>4. LeaderIsMember' /\ InvitesAreForOutsiders'
    BY <1>4, <2>1, Zenon DEF accept_join, LeaderIsMember, InvitesAreForOutsiders,
        has_pending_invite
  <2> QED BY <2>2, <2>3, <2>4, Zenon
<1>5. ASSUME NEW t \in Topic, NEW by \in Uid, set_topic(t, by)
      PROVE  Inv'
  BY <1>5, Zenon DEF set_topic, TypeOK, LeaderIsMember, OrderListsMembers,
      InvitesAreForOutsiders, has_pending_invite
<1>6. ASSUME NEW t \in TrustLevel, NEW by \in Uid, set_min_trust(t, by)
      PROVE  Inv'
  BY <1>6, Zenon DEF set_min_trust, TypeOK, LeaderIsMember, OrderListsMembers,
      InvitesAreForOutsiders, has_pending_invite
<1>7. ASSUME rotate_leader
      PROVE  Inv'
  <2>1. next_leader \in members
    <3> DEFINE later == {v \in DOMAIN member_join_order :
                  member_join_order[v] > member_join_order[current_leader]}
    <3>1. PICK S : S = IF later = {} THEN DOMAIN member_join_order ELSE later
      BY Zenon
    <3>2. S \in SUBSET DOMAIN member_join_order /\ S # {}
      BY <1>7, <3>1, Zenon DEF rotate_leader
    <3>3. member_join_order \in [DOMAIN member_join_order -> Nat]
      BY DEF TypeOK
    <3>4. Earliest(member_join_order, S) \in S
      BY <3>2, <3>3, EarliestExists, Zenon
    <3>5. next_leader = Earliest(member_join_order, S)
      BY <3>1, Zenon DEF next_leader
    <3> QED BY <3>2, <3>4, <3>5, Zenon DEF OrderListsMembers
  <2> QED BY <1>7, <2>1, Zenon DEF rotate_leader, TypeOK, LeaderIsMember,
              OrderListsMembers, InvitesAreForOutsiders, has_pending_invite
<1>8. ASSUME NEW u \in Uid, set_leader(u)
      PROVE  Inv'
  BY <1>8, Zenon DEF set_leader, TypeOK, LeaderIsMember, OrderListsMembers,
      InvitesAreForOutsiders, has_pending_invite
<1>9. CASE UNCHANGED vars
  BY <1>9, Zenon DEF vars, TypeOK, LeaderIsMember, OrderListsMembers,
      InvitesAreForOutsiders, has_pending_invite
<1>10. QED
  BY <1>1, <1>2, <1>3, <1>4, <1>5, <1>6, <1>7, <1>8, <1>9, Zenon DEF Next

\* It holds of a network at all times.
LEMMA InvCorrect == Spec => []Inv
<1>1. Inv /\ [Next]_vars => Inv'
  BY InvStep, Zenon
<1>2. QED
  BY InvInit, <1>1, PTL DEF Spec

\* Whatever the operations and their order, the leader and the admin of a
\* network are members of it, so rotate_leader always finds its position.
THEOREM LeaderCorrect == Spec => []LeaderIsMember
<1>1. Inv => LeaderIsMember
  BY Zenon DEF Inv
<1>2. QED
  BY InvCorrect, <1>1, PTL

\* The join order that rotation walks through lists exactly the members.
THEOREM OrderCorrect == Spec => []OrderListsMembers
<1>1. Inv => OrderListsMembers
  BY Zenon DEF Inv
<1>2. QED
  BY InvCorrect, <1>1, PTL

\* Nobody is a member and invited at the same time.
THEOREM InvitesCorrect == Spec => []InvitesAreForOutsiders
<1>1. Inv => InvitesAreForOutsiders
  BY Zenon DEF Inv
<1>2. QED
  BY InvCorrect, <1>1, PTL

---------------------------------------------------------------------------
(***************************************************************************)
(* Proofs about ServiceManager, for any owners, clients and services, and   *)
(* any width of the port counter.                                           *)
(***************************************************************************)
\* Every proxy leads to the service it was opened for, which was accepted and
\* not closed since, whoever may use it.
ProxiesServe ==
    \A p \in DOMAIN proxies :
        /\ proxies[p].service \in 1 .. Len(services)
        /\ services[proxies[p].service].status \in {"Active", "Rejected"}
        /\ services[proxies[p].service].owner_uid = proxies[p].target_uid

ServiceInv == ServiceTypeOK /\ ProxiesServe

\* An empty registry satisfies the invariant.
LEMMA ServiceInvInit == ServiceInit => ServiceInv
<1> SUFFICES ASSUME ServiceInit PROVE ServiceInv
  BY Zenon
<1>1. <<>> \in Seq(F2fService) /\ Len(<<>>) = 0
  OBVIOUS
<1>2. FirstPort \in Port /\ 0 \in 0 .. MaxAccepts /\ 0 <= MaxServices
  BY PortAssumption, ServiceAssumption DEF Port
<1>3. QED
  BY <1>1, <1>2, Zenon DEF ServiceInit, ServiceInv, ServiceTypeOK, ProxiesServe

\* Setting the status of a service leaves everything else of it alone.
LEMMA StatusSet ==
    ASSUME ServiceTypeOK, NEW id \in 1 .. Len(services), NEW st \in Status,
           services' = [services EXCEPT ![id].status = st]
    PROVE  /\ services' \in Seq(F2fService) /\ Len(services') = Len(services)
           /\ services'[id].status = st
           /\ \A k \in 1 .. Len(services) :
                 /\ services'[k].owner_uid = services[k].owner_uid
                 /\ k # id => services'[k] = services[k]
<1>1. services \in Seq(F2fService)
  BY Zenon DEF ServiceTypeOK
<1>2. services[id] \in F2fService
  BY <1>1
<1>3. [services[id] EXCEPT !.status = st] \in F2fService
  BY <1>2, Zenon DEF F2fService
<1>4. services' = [services EXCEPT ![id] = [services[id] EXCEPT !.status = st]]
  BY Zenon
<1>5. services' \in Seq(F2fService) /\ Len(services') = Len(services)
  BY <1>1, <1>3, <1>4
<1>6. services'[id] = [services[id] EXCEPT !.status = st]
      /\ \A k \in 1 .. Len(services) : k # id => services'[k] = services[k]
  BY <1>1, <1>4
<1>7. QED
  BY <1>2, <1>5, <1>6, ZenonT(40) DEF F2fService

\* allow_client and deny_client change who may use a proxy, not where it leads.
LEMMA ClientsOnly ==
    ASSUME ServiceTypeOK, NEW name \in ServiceName, NEW uid \in Client,
           allow_client(name, uid) \/ deny_client(name, uid)
    PROVE  \A p \in DOMAIN proxies : /\ proxies'[p] \in ProxyConfig
                                     /\ proxies'[p].service = proxies[p].service
                                     /\ proxies'[p].target_uid = proxies[p].target_uid
<1> SUFFICES ASSUME NEW p \in DOMAIN proxies
             PROVE  /\ proxies'[p] \in ProxyConfig
                    /\ proxies'[p].service = proxies[p].service
                    /\ proxies'[p].target_uid = proxies[p].target_uid
  BY Zenon
<1>1. proxies[p] \in ProxyConfig
  BY Zenon DEF ServiceTypeOK
<1>2. \/ proxies'[p] = proxies[p]
      \/ proxies'[p] = [proxies[p] EXCEPT !.allow_all_members = FALSE,
                                         !.allowed_clients = @ \cup {uid}]
      \/ proxies'[p] = [proxies[p] EXCEPT !.allowed_clients = @ \ {uid}]
  BY Zenon DEF allow_client, deny_client, Matching
<1>3. QED
  BY <1>1, <1>2, ZenonT(40) DEF ProxyConfig

\* Every step keeps it.
LEMMA ServiceInvStep == ServiceInv /\ [ServiceNext]_serviceVars => ServiceInv'
<1> SUFFICES ASSUME ServiceInv, [ServiceNext]_serviceVars PROVE ServiceInv'
  BY Zenon
<1> USE DEF ServiceInv
<1>1. services \in Seq(F2fService) /\ Len(services) \in Nat
  BY DEF ServiceTypeOK
<1>2. ASSUME NEW name \in ServiceName, NEW owner \in Owner, create_service(name, owner)
      PROVE  ServiceInv'
  <2> DEFINE s == [name |-> name, owner_uid |-> owner, status |-> "Pending"]
  <2>1. s \in F2fService
    BY Zenon DEF F2fService, Status
  <2> HIDE DEF s
  <2>2. services' = Append(services, s) /\ Len(services) < MaxServices
        /\ UNCHANGED <<proxies, next_port, accepted>>
    BY <1>2, Zenon DEF create_service, s
  <2>3. /\ services' \in Seq(F2fService) /\ Len(services') = Len(services) + 1
        /\ \A k \in 1 .. Len(services) : services'[k] = services[k]
    BY <1>1, <2>1, <2>2
  <2>4. ServiceTypeOK'
    BY <1>1, <2>2, <2>3, ServiceAssumption DEF ServiceTypeOK
  <2>5. ProxiesServe'
    BY <1>1, <2>2, <2>3 DEF ProxiesServe
  <2> QED BY <2>4, <2>5, Zenon
<1>3. ASSUME NEW id \in 1 .. Len(services), accept_service(id) PROVE ServiceInv'
  <2> DEFINE cfg == [target_uid |-> services[id].owner_uid, allowed_clients |-> {},
                     allow_all_members |-> TRUE, service |-> id]
  <2>1. services[id] \in F2fService /\ id \in 1 .. MaxServices
    BY <1>1, ServiceAssumption DEF ServiceTypeOK
  <2>2. cfg \in ProxyConfig /\ cfg.service = id /\ cfg.target_uid = services[id].owner_uid
    BY <2>1, Zenon DEF ProxyConfig, F2fService
  <2> HIDE DEF cfg
  <2>3. /\ services' \in Seq(F2fService) /\ Len(services') = Len(services)
        /\ services'[id].status = "Active"
        /\ \A k \in 1 .. Len(services) : /\ services'[k].owner_uid = services[k].owner_uid
                                         /\ k # id => services'[k] = services[k]
    BY <1>3, StatusSet, Zenon DEF accept_service, Status
  <2>4. proxies' = [p \in DOMAIN proxies \cup {next_port} |->
                       IF p = next_port THEN cfg ELSE proxies[p]]
    BY <1>3, Zenon DEF accept_service, cfg
  <2>5. next_port' \in Port /\ accepted' \in 0 .. MaxAccepts
    BY <1>3, PortAssumption, ServiceAssumption DEF accept_service, Increment, ServiceTypeOK, Port
  <2>6. ServiceTypeOK'
    BY <2>2, <2>3, <2>4, <2>5, Zenon DEF ServiceTypeOK
  <2>7. ProxiesServe'
    <3>1. \A k \in 1 .. Len(services) :
             services[k].status = "Active" \/ services[k].status = "Rejected"
                => services'[k].status \in {"Active", "Rejected"}
      BY <2>3, Zenon
    <3> QED BY <2>2, <2>3, <2>4, <3>1 DEF ProxiesServe
  <2> QED BY <2>6, <2>7, Zenon
<1>4. ASSUME NEW id \in 1 .. Len(services), reject_service(id) PROVE ServiceInv'
  <2>1. /\ services' \in Seq(F2fService) /\ Len(services') = Len(services)
        /\ services'[id].status = "Rejected"
        /\ \A k \in 1 .. Len(services) : /\ services'[k].owner_uid = services[k].owner_uid
                                         /\ k # id => services'[k] = services[k]
    BY <1>4, StatusSet, Zenon DEF reject_service, Status
  <2> QED BY <1>4, <2>1 DEF reject_service, ServiceTypeOK, ProxiesServe
<1>5. ASSUME NEW id \in 1 .. Len(services), NEW uid \in Owner, close_service(id, uid)
      PROVE  ServiceInv'
  <2>1. /\ services' \in Seq(F2fService) /\ Len(services') = Len(services)
        /\ \A k \in 1 .. Len(services) : /\ services'[k].owner_uid = services[k].owner_uid
                                         /\ k # id => services'[k] = services[k]
    BY <1>5, StatusSet, Zenon DEF close_service, Status
  <2>2. /\ services[id].owner_uid = uid
        /\ DOMAIN proxies' = {q \in DOMAIN proxies : proxies[q].target_uid # uid}
        /\ \A p \in DOMAIN proxies' : proxies'[p] = proxies[p]
    BY <1>5, Zenon DEF close_service
  <2>3. ServiceTypeOK'
    BY <1>5, <2>1, <2>2, Zenon DEF close_service, ServiceTypeOK
  <2>4. ProxiesServe'
    BY <2>1, <2>2 DEF ProxiesServe
  <2> QED BY <2>3, <2>4, Zenon
<1>6. ASSUME NEW name \in ServiceName, NEW uid \in Client,
             allow_client(name, uid) \/ deny_client(name, uid)
      PROVE  ServiceInv'
  <2>1. /\ UNCHANGED <<services, next_port, accepted>>
        /\ DOMAIN proxies' = DOMAIN proxies
    BY <1>6, Zenon DEF allow_client, deny_client
  <2>2. \A p \in DOMAIN proxies : /\ proxies'[p] \in ProxyConfig
                                  /\ proxies'[p].service = proxies[p].service
                                  /\ proxies'[p].target_uid = proxies[p].target_uid
    BY <1>6, ClientsOnly, Zenon
  <2> QED BY <2>1, <2>2, Zenon DEF ServiceTypeOK, ProxiesServe
<1>7. CASE UNCHANGED serviceVars
  BY <1>7, Zenon DEF serviceVars, ServiceTypeOK, ProxiesServe
<1>8. QED
  BY <1>2, <1>3, <1>4, <1>5, <1>6, <1>7, Zenon DEF ServiceNext
\* Every proxy leads to a service that was accepted and not closed since, at all times.
THEOREM ServiceInvariant == ServiceSpec => []ServiceInv
  BY ServiceInvInit, ServiceInvStep, PTL DEF ServiceSpec

\* No sequence of requests, approvals, rejections and closings leaves a port
\* through which a closed service can be reached (service.rs:142-157).
THEOREM ClosedUnreachable == ServiceSpec => []ClosedIsUnreachable
<1>1. ServiceInv => ClosedIsUnreachable
  BY Zenon DEF ServiceInv, ProxiesServe, ClosedIsUnreachable
<1>2. QED
  BY <1>1, ServiceInvariant, PTL

---------------------------------------------------------------------------
(* In the first turn of the counter the ports given out so far are the ones *)
(* from FirstPort on, round the counter, up to next_port.                   *)

PortsBehind ==
    accepted <= LastPort + 1 =>
        IF FirstPort + accepted <= LastPort
        THEN /\ next_port = FirstPort + accepted
             /\ \A p \in DOMAIN proxies : FirstPort <= p /\ p < next_port
        ELSE /\ next_port = FirstPort + accepted - (LastPort + 1)
             /\ \A p \in DOMAIN proxies : FirstPort <= p \/ p < next_port

\* Every step keeps the open ports behind the counter.
LEMMA PortsBehindStep ==
    ASSUME ServiceInv, PortsBehind, [ServiceNext]_serviceVars
    PROVE  PortsBehind'
<1>1. /\ next_port \in 0 .. LastPort /\ accepted \in Nat /\ accepted <= MaxAccepts
      /\ FirstPort \in 0 .. LastPort /\ LastPort \in Nat /\ MaxAccepts \in Nat
      /\ \A p \in DOMAIN proxies : p \in 0 .. LastPort
  BY PortAssumption, ServiceAssumption DEF ServiceInv, ServiceTypeOK, Port
<1>2. ASSUME NEW id \in 1 .. Len(services), accept_service(id) PROVE PortsBehind'
  <2>1. /\ DOMAIN proxies' = DOMAIN proxies \cup {next_port}
        /\ next_port' = IF next_port = LastPort THEN 0 ELSE next_port + 1
        /\ accepted' = accepted + 1 /\ accepted < MaxAccepts
    BY <1>2, Zenon DEF accept_service, Increment
  <2>2. CASE FirstPort + accepted' <= LastPort
    BY <1>1, <2>1, <2>2 DEF PortsBehind
  <2>3. CASE ~(FirstPort + accepted' <= LastPort)
    BY <1>1, <2>1, <2>3 DEF PortsBehind
  <2> QED BY <2>2, <2>3, Zenon
<1>3. ASSUME DOMAIN proxies' \subseteq DOMAIN proxies, UNCHANGED <<next_port, accepted>>
      PROVE  PortsBehind'
  BY <1>3, Zenon DEF PortsBehind
<1>4. CASE \E id \in 1 .. Len(services) : accept_service(id)
  BY <1>2, <1>4, Zenon
<1>5. CASE ~\E id \in 1 .. Len(services) : accept_service(id)
  <2>1. DOMAIN proxies' \subseteq DOMAIN proxies /\ UNCHANGED <<next_port, accepted>>
    BY <1>5, Zenon DEF ServiceNext, create_service, reject_service, close_service,
        allow_client, deny_client, serviceVars
  <2> QED BY <1>3, <2>1, Zenon
<1>6. QED
  BY <1>4, <1>5, Zenon

\* Until every port has been given out, an open port keeps its service, also
\* after the counter has wrapped (service.rs:117-118).
THEOREM PortsNeverMove == ServiceSpec => PortsKept
<1>1. ServiceInit => PortsBehind
  BY PortAssumption DEF ServiceInit, PortsBehind
<1>2. ServiceInv /\ PortsBehind /\ [ServiceNext]_serviceVars => PortsBehind'
  BY PortsBehindStep, Zenon
<1>3. ServiceInv /\ PortsBehind /\ [ServiceNext]_serviceVars =>
          [\A p \in DOMAIN proxies \cap DOMAIN proxies' :
              proxies'[p].service # proxies[p].service => accepted > LastPort]_serviceVars
  <2> SUFFICES ASSUME ServiceInv, PortsBehind, ServiceNext, ~(accepted > LastPort),
                      NEW p \in DOMAIN proxies \cap DOMAIN proxies'
               PROVE  proxies'[p].service = proxies[p].service
    BY Zenon
  <2>1. CASE \E id \in 1 .. Len(services) : accept_service(id)
    <3>1. /\ next_port \in 0 .. LastPort /\ accepted \in Nat
          /\ FirstPort \in 0 .. LastPort /\ LastPort \in Nat /\ p \in 0 .. LastPort
      BY PortAssumption, ServiceAssumption DEF ServiceInv, ServiceTypeOK, Port
    <3>2. p # next_port
      BY <3>1 DEF PortsBehind
    <3>3. proxies'[p] = proxies[p]
      BY <2>1, <3>2, Zenon DEF accept_service
    <3> QED BY <3>3, Zenon
  <2>2. CASE \E name \in ServiceName, uid \in Client :
                 allow_client(name, uid) \/ deny_client(name, uid)
    BY <2>2, ClientsOnly, Zenon DEF ServiceInv
  <2>3. CASE \/ \E name \in ServiceName, owner \in Owner : create_service(name, owner)
             \/ \E id \in 1 .. Len(services) : reject_service(id)
             \/ \E id \in 1 .. Len(services), uid \in Owner : close_service(id, uid)
    BY <2>3, Zenon DEF create_service, reject_service, close_service
  <2> QED BY <2>1, <2>2, <2>3, Zenon DEF ServiceNext
<1>4. QED
  BY <1>1, <1>2, <1>3, ServiceInvariant, PTL DEF ServiceSpec, PortsKept

---------------------------------------------------------------------------
(***************************************************************************)
(* No member of a group is malicious, and there is one verdict on a peer,   *)
(* for any number of peers and of rounds.                                   *)
(*                                                                          *)
(* The first holds because a standing enters the group only as a new one or *)
(* from a finished round that the malicious have been taken out of.  The    *)
(* second is not inductive: a reward may bring the number of rounds to ten, *)
(* and with more than half of them missed the peer would be malicious       *)
(* without a ban.  The invariant adds a ceiling on the score of a peer with *)
(* so many missed rounds, low enough that six misses in nine rounds would   *)
(* have cost it a ban before.                                               *)
(***************************************************************************)
Group(g) ==
    /\ DOMAIN g \subseteq Peer
    /\ \A p \in DOMAIN g : g[p] \in Participant /\ ~is_malicious(g[p])

\* 0.5 * 0.7^d, rounded up
Ceiling(d) ==
    Thousandth * (IF d = 0 THEN 500 ELSE IF d = 1 THEN 350 ELSE IF d = 2 THEN 245
                  ELSE IF d = 3 THEN 172 ELSE IF d = 4 THEN 121 ELSE IF d = 5 THEN 85
                  ELSE 60)

Judged(r) ==
    /\ r \in Reputation
    /\ r.rounds_dropped <= r.rounds_total
    /\ Malicious(r) => r.banned
    /\ r.banned \/ r.score <= Ceiling(r.rounds_dropped)
                                + Reward * (r.rounds_total - r.rounds_dropped)

GroupInv ==
    /\ Group(participants)
    /\ Group(current_round)
    /\ current_round # NoRound => Cardinality(DOMAIN current_round) >= min_participants
    /\ rounds \in 0 .. MaxRounds
    /\ DOMAIN reputation \subseteq Peer
    /\ \A p \in DOMAIN reputation : Judged(reputation[p])

---------------------------------------------------------------------------
\* The scores used as bounds, in thousandths.
LEMMA Scale ==
    /\ One \in Nat /\ Reward \in Nat /\ Thousandth \in Nat /\ Thousandth > 0
    /\ One = 1000 * Thousandth /\ Reward = 50 * Thousandth /\ One \div 2 = 500 * Thousandth
  BY DEF One, Reward, Thousandth

\* A score stays on the scale when it is raised or lowered.
LEMMA ScoreSteps ==
    ASSUME NEW s \in 0 .. One
    PROVE  /\ Raised(s) \in 0 .. One /\ Raised(s) <= s + Reward /\ Raised(s) >= s
           /\ Lowered(s) \in 0 .. One /\ 10 * Lowered(s) <= 7 * s
  BY Scale DEF Raised, Lowered

\* A new participant is not malicious.
LEMMA NewIsFit == NewParticipant \in Participant /\ ~is_malicious(NewParticipant)
  BY Scale DEF NewParticipant, Participant, is_malicious

\* Taking a member out leaves the others in good standing.
LEMMA WithoutGroup ==
    ASSUME NEW g, Group(g), NEW gone
    PROVE  Group(Without(g, gone)) /\ DOMAIN Without(g, gone) = DOMAIN g \ gone
  BY Zenon DEF Group, Without

\* A finished round leaves no malicious member, whoever joined or left meanwhile.
LEMMA FinishedGroup ==
    ASSUME NEW g, Group(g), NEW round, Group(round), NEW responded
    PROVE  Group(Finished(g, round, responded))
<1> DEFINE after == mark_dropouts(round, responded)
           result == Finished(g, round, responded)
<1>1. DOMAIN after = DOMAIN round
  BY Zenon DEF mark_dropouts
<1>2. ASSUME NEW p \in DOMAIN round PROVE after[p] \in Participant
  <2>1. /\ round[p].reputation \in 0 .. One /\ round[p].consecutive_drops \in Nat
    BY <1>2, Zenon DEF Group, Participant
  <2>2. after[p] = IF p \in responded THEN reward(round[p]) ELSE penalize(round[p])
    BY <1>2, Zenon DEF mark_dropouts
  <2>3. Raised(round[p].reputation) \in 0 .. One /\ Lowered(round[p].reputation) \in 0 .. One
    BY <2>1, ScoreSteps, Zenon
  <2> QED BY <2>1, <2>2, <2>3 DEF reward, penalize, Participant
<1>3. /\ DOMAIN result = DOMAIN g \ MaliciousOf(after)
      /\ \A p \in DOMAIN result : result[p] = IF p \in DOMAIN after THEN after[p] ELSE g[p]
  BY Zenon DEF Finished
<1>4. ASSUME NEW p \in DOMAIN result
      PROVE  result[p] \in Participant /\ ~is_malicious(result[p])
  <2>1. p \in DOMAIN g /\ p \notin MaliciousOf(after)
    BY <1>3, <1>4, Zenon
  <2>2. CASE p \in DOMAIN after
    <3>1. result[p] = after[p] BY <1>3, <1>4, <2>2, Zenon
    <3>2. ~is_malicious(after[p]) BY <2>1, <2>2, Zenon DEF MaliciousOf
    <3> QED BY <1>1, <1>2, <2>2, <3>1, <3>2, Zenon
  <2>3. CASE p \notin DOMAIN after
    <3>1. result[p] = g[p] BY <1>3, <1>4, <2>3, Zenon
    <3> QED BY <2>1, <3>1, Zenon DEF Group
  <2> QED BY <2>2, <2>3, Zenon
<1>5. DOMAIN result \subseteq Peer
  BY <1>3, Zenon DEF Group
<1> HIDE DEF result
<1>6. Group(result) BY <1>4, <1>5, Zenon DEF Group
<1>7. QED BY <1>6, Zenon DEF result

\* A peer nothing is known of satisfies the bound.
LEMMA NewJudged == Judged(NewReputation)
<1>1. NewReputation \in Reputation
  <2>1. <<>> \in Seq(BOOLEAN) OBVIOUS
  <2> QED BY <2>1, Scale DEF NewReputation, Reputation
<1>2. ~Malicious(NewReputation)
  BY Scale DEF NewReputation, Malicious
<1>3. QED
  BY <1>1, <1>2, Scale DEF Judged, NewReputation, Ceiling

\* A reward keeps it, also the one that brings the rounds to ten.
LEMMA RewardedJudged ==
    ASSUME NEW r, Judged(r)
    PROVE  Judged(Rewarded(r))
<1> DEFINE s == Rewarded(r)
<1>1. /\ r.score \in 0 .. One /\ r.rounds_total \in Nat /\ r.rounds_dropped \in Nat
      /\ r.consecutive_drops \in Nat /\ r.late \in Seq(BOOLEAN) /\ r.banned \in BOOLEAN
      /\ r.rounds_dropped <= r.rounds_total
  BY Zenon DEF Judged, Reputation
<1>2. /\ s.rounds_total = r.rounds_total + 1 /\ s.rounds_dropped = r.rounds_dropped
      /\ s.consecutive_drops = 0 /\ s.score = Raised(r.score)
      /\ s.late = r.late /\ s.banned = r.banned
  BY Zenon DEF Rewarded, Judged, Reputation
<1>3. s \in Reputation
  <2>1. r \in Reputation /\ Raised(r.score) \in 0 .. One
    BY <1>1, ScoreSteps, Zenon DEF Judged
  <2>2. r.rounds_total + 1 \in Nat /\ 0 \in Nat
    BY <1>1
  <2>3. \A t, c \in Nat, x \in 0 .. One :
            [r EXCEPT !.rounds_total = t, !.consecutive_drops = c, !.score = x] \in Reputation
    BY <2>1, Zenon DEF Reputation
  <2> QED BY <2>1, <2>2, <2>3, Zenon DEF Rewarded
<1>4. Raised(r.score) >= r.score /\ Raised(r.score) <= r.score + Reward
      /\ Raised(r.score) \in Int /\ r.score \in Int /\ Reward \in Int
  <2>1. r.score \in 0 .. One BY <1>1, Zenon
  <2>2. Raised(r.score) \in 0 .. One /\ Raised(r.score) <= r.score + Reward
        /\ Raised(r.score) >= r.score
    BY <2>1, ScoreSteps, Zenon
  <2> QED BY <2>1, <2>2, Scale
<1> HIDE DEF s
<1>5. ASSUME ~r.banned
      PROVE  s.score <= Ceiling(s.rounds_dropped) + Reward * (s.rounds_total - s.rounds_dropped)
  <2>1. r.score <= Ceiling(r.rounds_dropped) + Reward * (r.rounds_total - r.rounds_dropped)
    BY <1>5, Zenon DEF Judged
  <2>2. Ceiling(r.rounds_dropped) \in Int
    BY Scale DEF Ceiling
  <2>3. \A n \in Nat : Reward * n \in Nat /\ Reward * (n + 1) = Reward * n + Reward
    BY Scale
  <2>4. /\ r.rounds_total - r.rounds_dropped \in Nat
        /\ s.rounds_total - s.rounds_dropped = (r.rounds_total - r.rounds_dropped) + 1
    BY <1>1, <1>2
  <2> DEFINE k == r.rounds_total - r.rounds_dropped
  <2>5. /\ k \in Nat /\ s.rounds_total - s.rounds_dropped = k + 1
        /\ r.score <= Ceiling(r.rounds_dropped) + Reward * k
    BY <2>1, <2>4, Zenon
  <2> HIDE DEF k
  <2>6. Reward * k \in Nat /\ Reward * (k + 1) = Reward * k + Reward
    BY <2>3, <2>5, Zenon
  <2>7. \A a, b, c, d, e \in Int : a <= c + d /\ b <= a + e => b <= c + (d + e)
    OBVIOUS
  <2>8. Raised(r.score) <= Ceiling(r.rounds_dropped) + (Reward * k + Reward)
    <3>1. Reward * k \in Int
      BY <2>6
    <3> QED BY <1>4, <2>2, <2>5, <2>7, <3>1, Zenon
  <2> QED BY <1>2, <2>5, <2>6, <2>8, Zenon
<1>6. ASSUME ~r.banned PROVE ~Malicious(s)
  <2>1. r.score >= 300 * Thousandth
    BY <1>1, <1>6, Scale DEF Judged, Malicious
  <2>2. ~(r.rounds_total >= 10 /\ 2 * r.rounds_dropped > r.rounds_total)
    BY <1>6, Zenon DEF Judged, Malicious
  <2>3. r.score <= Ceiling(r.rounds_dropped) + Reward * (r.rounds_total - r.rounds_dropped)
    BY <1>6, Zenon DEF Judged
  <2>4. ~(s.rounds_total >= 10 /\ 2 * s.rounds_dropped > s.rounds_total)
    <3>1. CASE r.rounds_total >= 10 BY <1>1, <1>2, <2>2, <3>1
    <3>2. CASE r.rounds_total = 9 /\ r.rounds_dropped >= 6
      <4>1. Ceiling(r.rounds_dropped) = Thousandth * 60
        BY <1>1, <3>2 DEF Ceiling
      <4>2. r.rounds_total - r.rounds_dropped \in 0 .. 3
        BY <1>1, <3>2
      <4>3. \A n \in 0 .. 3 : Reward * n <= 150 * Thousandth /\ Reward * n \in Nat
        BY Scale
      <4>4. r.score \in Int BY <1>4, Zenon
      <4>5. r.score <= 210 * Thousandth
        BY <2>3, <4>1, <4>2, <4>3, <4>4, Scale
      <4> QED BY <2>1, <4>4, <4>5, Scale
    <3>3. CASE r.rounds_total = 9 /\ r.rounds_dropped <= 5 BY <1>1, <1>2, <3>3
    <3>4. CASE r.rounds_total < 9 BY <1>1, <1>2, <3>4
    <3> QED BY <1>1, <3>1, <3>2, <3>3, <3>4
  <2>5. s.score >= 300 * Thousandth
    BY <1>1, <1>2, <1>4, <2>1, Scale, SMTT(40)
  <2>6. ~(s.score < 300 * Thousandth)
    BY <1>2, <1>4, <2>5, Scale
  <2> QED BY <1>2, <1>6, <2>4, <2>6 DEF Malicious
<1>7. s.rounds_dropped <= s.rounds_total
  BY <1>1, <1>2
<1>8. Judged(s)
  BY <1>2, <1>3, <1>5, <1>6, <1>7, Zenon DEF Judged
<1>9. QED
  BY <1>8, Zenon DEF s

\* A missed round keeps it, or bans the peer.
LEMMA DroppedJudged ==
    ASSUME NEW r, Judged(r), NEW late \in BOOLEAN
    PROVE  Judged(Dropped(r, late))
<1> DEFINE s == Penalized(r, late)
<1>1. /\ r.score \in 0 .. One /\ r.rounds_total \in Nat /\ r.rounds_dropped \in Nat
      /\ r.consecutive_drops \in Nat /\ r.late \in Seq(BOOLEAN) /\ r.banned \in BOOLEAN
      /\ r.rounds_dropped <= r.rounds_total
  BY Zenon DEF Judged, Reputation
<1>2. /\ s.rounds_total = r.rounds_total + 1 /\ s.rounds_dropped = r.rounds_dropped + 1
      /\ s.score = Lowered(r.score) /\ s.banned = r.banned
  BY Zenon DEF Penalized, Judged, Reputation
<1>3. s \in Reputation
  <2>1. r \in Reputation /\ Lowered(r.score) \in 0 .. One
    BY <1>1, ScoreSteps, Zenon DEF Judged
  <2>2. Append(r.late, late) \in Seq(BOOLEAN) /\ Append(r.late, late) # <<>>
    BY <1>1
  <2>3. \A q \in Seq(BOOLEAN) : Len(q) > 3 => Tail(q) \in Seq(BOOLEAN)
    OBVIOUS
  <2>4. LastThree(Append(r.late, late)) \in Seq(BOOLEAN)
    BY <2>2, <2>3, Zenon DEF LastThree
  <2>5. r.rounds_total + 1 \in Nat /\ r.rounds_dropped + 1 \in Nat
        /\ r.consecutive_drops + 1 \in Nat
    BY <1>1
  <2>6. \A t, d, c \in Nat, x \in 0 .. One, q \in Seq(BOOLEAN) :
            [r EXCEPT !.rounds_total = t, !.rounds_dropped = d, !.consecutive_drops = c,
                      !.score = x, !.late = q] \in Reputation
    BY <2>1, Zenon DEF Reputation
  <2> QED BY <2>1, <2>4, <2>5, <2>6, Zenon DEF Penalized
<1>4. /\ 10 * Lowered(r.score) <= 7 * r.score
      /\ Lowered(r.score) \in Nat /\ r.score \in Nat
  <2>1. r.score \in 0 .. One BY <1>1, Zenon
  <2>2. Lowered(r.score) \in 0 .. One /\ 10 * Lowered(r.score) <= 7 * r.score
    BY <2>1, ScoreSteps, Zenon
  <2> QED BY <2>1, <2>2, Scale
<1> HIDE DEF s
<1>5. ASSUME ~r.banned
      PROVE  s.score <= Ceiling(s.rounds_dropped) + Reward * (s.rounds_total - s.rounds_dropped)
  <2>1. r.score <= Ceiling(r.rounds_dropped) + Reward * (r.rounds_total - r.rounds_dropped)
    BY <1>5, Zenon DEF Judged
  <2>2. 10 * Ceiling(r.rounds_dropped + 1) >= 7 * Ceiling(r.rounds_dropped)
        /\ Ceiling(r.rounds_dropped) \in Nat /\ Ceiling(r.rounds_dropped + 1) \in Nat
    BY <1>1, Scale DEF Ceiling
  <2>3. s.rounds_total - s.rounds_dropped = r.rounds_total - r.rounds_dropped
    BY <1>1, <1>2
  <2>4. Reward * (r.rounds_total - r.rounds_dropped) \in Nat
    BY <1>1, Scale
  <2>5. \A a, b, c, d, m \in Nat :
            a <= c + m /\ 10 * b <= 7 * a /\ 10 * d >= 7 * c => b <= d + m
    OBVIOUS
  <2> QED BY <1>2, <1>4, <2>1, <2>2, <2>3, <2>4, <2>5
<1>6. s.rounds_dropped <= s.rounds_total
  BY <1>1, <1>2
<1>7. CASE Malicious(s)
  <2>1. Dropped(r, late) = ban(s)
    BY <1>7, Zenon DEF Dropped, s
  <2>2. /\ ban(s).banned = TRUE /\ ban(s).rounds_dropped = s.rounds_dropped
        /\ ban(s).rounds_total = s.rounds_total
    BY <1>3, Zenon DEF ban, Reputation
  <2>3. ban(s) \in Reputation
    <3>1. \A b \in BOOLEAN, x \in 0 .. One : [s EXCEPT !.banned = b, !.score = x] \in Reputation
      BY <1>3, Zenon DEF Reputation
    <3>2. 0 \in 0 .. One /\ TRUE \in BOOLEAN
      BY Scale
    <3> QED BY <3>1, <3>2, Zenon DEF ban
  <2>4. Judged(ban(s))
    BY <1>6, <2>2, <2>3, Zenon DEF Judged
  <2> QED BY <2>1, <2>4, Zenon
<1>8. CASE ~Malicious(s)
  <2>1. Dropped(r, late) = s
    BY <1>8, Zenon DEF Dropped, s
  <2>2. ~r.banned
    BY <1>2, <1>8, Zenon DEF Malicious
  <2>3. Judged(s)
    BY <1>3, <1>5, <1>6, <1>8, <2>2, Zenon DEF Judged
  <2> QED BY <2>1, <2>3, Zenon
<1>9. QED
  BY <1>7, <1>8, Zenon

\* A peer that is looked up has a standing that satisfies it.
LEMMA GetJudged ==
    ASSUME GroupInv, NEW p
    PROVE  Judged(get_or_create(p))
  BY NewJudged, Zenon DEF GroupInv, get_or_create

\* A round keeps it for every peer that is reported on.
LEMMA ProcessedJudged ==
    ASSUME GroupInv, NEW all \in SUBSET Peer, NEW responded, NEW late \in BOOLEAN
    PROVE  /\ DOMAIN Processed(all, responded, late) \subseteq Peer
           /\ \A p \in DOMAIN Processed(all, responded, late) :
                 Judged(Processed(all, responded, late)[p])
<1> DEFINE result == Processed(all, responded, late)
<1>1. /\ DOMAIN result = DOMAIN reputation \cup all
      /\ \A p \in DOMAIN result :
            result[p] = IF p \notin all THEN reputation[p]
                        ELSE IF p \in responded THEN Rewarded(get_or_create(p))
                        ELSE Dropped(get_or_create(p), late)
  BY Zenon DEF Processed
<1> HIDE DEF result
<1>2. ASSUME NEW p \in DOMAIN result PROVE Judged(result[p])
  <2>1. CASE p \notin all
    BY <1>1, <1>2, <2>1, Zenon DEF GroupInv
  <2>2. CASE p \in all /\ p \in responded
    <3>1. Judged(Rewarded(get_or_create(p))) BY GetJudged, RewardedJudged, Zenon
    <3> QED BY <1>1, <1>2, <2>2, <3>1, Zenon
  <2>3. CASE p \in all /\ p \notin responded
    <3>1. Judged(Dropped(get_or_create(p), late)) BY GetJudged, DroppedJudged, Zenon
    <3> QED BY <1>1, <1>2, <2>3, <3>1, Zenon
  <2> QED BY <2>1, <2>2, <2>3, Zenon
<1>3. DOMAIN result \subseteq Peer
  BY <1>1, Zenon DEF GroupInv
<1>4. QED
  BY <1>2, <1>3, Zenon DEF result

\* Entering the friends keeps it for every peer.
LEMMA SyncedJudged ==
    ASSUME NEW peers, SyncedWith(peers), DOMAIN peers \subseteq Peer,
           \A p \in DOMAIN peers : Judged(peers[p])
    PROVE  DOMAIN reputation' \subseteq Peer /\ \A p \in DOMAIN reputation' : Judged(reputation'[p])
  BY NewJudged, Zenon DEF SyncedWith, Friends

\* What start_round keeps: a group, and enough of it if the test says so.
LEMMA FitGroup ==
    ASSUME GroupInv
    PROVE  /\ Group(Fit)
           /\ ~(Cardinality(DOMAIN Fit) < min_participants) =>
                  Cardinality(DOMAIN Fit) >= min_participants
<1>1. Group(Fit) /\ DOMAIN Fit \subseteq DOMAIN participants
  BY WithoutGroup, Zenon DEF GroupInv, Fit
<1>2. IsFiniteSet(DOMAIN Fit)
  BY <1>1, MeAssumption, FS_Subset, Zenon DEF Group
<1>3. Cardinality(DOMAIN Fit) \in Nat
  BY <1>2, FS_CardinalityType, Zenon
<1>4. QED
  BY <1>1, <1>3 DEF min_participants

\* There is nobody in no round.
LEMMA NoRoundGroup == Group(NoRound)
  BY DEF Group, NoRound

\* A new channel satisfies the invariant.
LEMMA GroupInvInit == GroupInit => GroupInv
<1> SUFFICES ASSUME GroupInit PROVE GroupInv
  BY Zenon
<1>1. Group(participants)
  BY NewIsFit, MeAssumption, Zenon DEF GroupInit, Group
<1>2. Group(current_round) /\ current_round = NoRound
  BY NoRoundGroup, Zenon DEF GroupInit
<1>3. rounds \in 0 .. MaxRounds
  BY RoundBoundAssumption DEF GroupInit
<1>4. DOMAIN reputation = {}
  BY Zenon DEF GroupInit
<1>5. QED
  BY <1>1, <1>2, <1>3, <1>4, Zenon DEF GroupInv

\* Every step keeps it.
LEMMA GroupInvStep ==
    ASSUME GroupInv, [GroupNext]_groupVars
    PROVE  GroupInv'
<1> USE DEF GroupInv
<1>1. ASSUME NEW p \in Peer, join(p) PROVE GroupInv'
  <2>1. Group(participants')
    BY <1>1, NewIsFit, Zenon DEF join, Group
  <2> QED BY <1>1, <2>1, Zenon DEF join
<1>2. ASSUME NEW p \in Peer, leave(p) PROVE GroupInv'
  <2>1. Group(participants')
    BY <1>2, WithoutGroup, Zenon DEF leave
  <2> QED BY <1>2, <2>1, Zenon DEF leave
<1>3. ASSUME NEW dropouts \in SUBSET Peer, reform(dropouts) PROVE GroupInv'
  <2>1. Group(participants')
    BY <1>3, WithoutGroup, Zenon DEF reform
  <2> QED BY <1>3, <2>1, Zenon DEF reform
<1>4. ASSUME start_round PROVE GroupInv'
  <2>1. Group(participants') /\ reputation' = reputation
    BY <1>4, FitGroup, Zenon DEF start_round
  <2>2. CASE Cardinality(DOMAIN Fit) < min_participants
    BY <1>4, <2>1, <2>2, Zenon DEF start_round
  <2>3. CASE ~(Cardinality(DOMAIN Fit) < min_participants)
    <3>1. current_round' = Fit /\ rounds' = rounds + 1 /\ rounds < MaxRounds
      BY <1>4, <2>3, Zenon DEF start_round
    <3>2. rounds' \in 0 .. MaxRounds
      BY <3>1, RoundBoundAssumption
    <3>3. Group(current_round') /\ Cardinality(DOMAIN current_round') >= min_participants
      BY <2>3, <3>1, FitGroup, Zenon
    <3> QED BY <2>1, <3>2, <3>3, Zenon
  <2> QED BY <2>2, <2>3, Zenon
<1>5. ASSUME finish_round PROVE GroupInv'
  <2>1. Group(participants') /\ current_round' = NoRound /\ UNCHANGED <<rounds, reputation>>
    BY <1>5, FitGroup, Zenon DEF finish_round
  <2> QED BY <2>1, NoRoundGroup, Zenon
<1>6. ASSUME NEW responded \in SUBSET Peer, finish_round_with(responded) PROVE GroupInv'
  <2>1. current_round' = NoRound /\ UNCHANGED <<rounds, reputation>>
    BY <1>6, Zenon DEF finish_round_with
  <2>2. Group(participants')
    BY <1>6, FinishedGroup, Zenon DEF finish_round_with
  <2> QED BY <2>1, <2>2, NoRoundGroup, Zenon
<1>7. ASSUME broadcast_message PROVE GroupInv'
  <2>1. CASE Cardinality(DOMAIN Fit) < min_participants
    <3>1. participants' = Fit /\ UNCHANGED <<current_round, rounds, reputation>>
      BY <1>7, <2>1, Zenon DEF broadcast_message
    <3> QED BY <3>1, FitGroup, Zenon
  <2>2. CASE ~(Cardinality(DOMAIN Fit) < min_participants)
    <3>1. rounds' = rounds + 1 /\ rounds < MaxRounds
      BY <1>7, <2>2, Zenon DEF broadcast_message
    <3>2. rounds' \in 0 .. MaxRounds
      BY <3>1, RoundBoundAssumption
    <3>3. CASE Me \notin DOMAIN participants
      <4>1. participants' = Fit /\ current_round' = Fit /\ reputation' = reputation
        BY <1>7, <2>2, <3>3, Zenon DEF broadcast_message
      <4> QED BY <2>2, <3>2, <4>1, FitGroup, Zenon
    <3>4. CASE Me \in DOMAIN participants
      <4>1. /\ participants' = Finished(Fit, Fit, DOMAIN participants)
            /\ current_round' = NoRound
            /\ SyncedWith(Processed(DOMAIN participants, DOMAIN participants, TRUE))
        BY <1>7, <2>2, <3>4, ZenonT(40) DEF broadcast_message
      <4>2. Group(participants')
        BY <4>1, FitGroup, FinishedGroup, Zenon
      <4>3. DOMAIN participants \in SUBSET Peer /\ TRUE \in BOOLEAN
        BY Zenon DEF Group
      <4>4. DOMAIN reputation' \subseteq Peer /\ \A p \in DOMAIN reputation' : Judged(reputation'[p])
        BY <4>1, <4>3, ProcessedJudged, SyncedJudged, Zenon
      <4> QED BY <3>2, <4>1, <4>2, <4>4, NoRoundGroup, Zenon
    <3> QED BY <3>3, <3>4, Zenon
  <2> QED BY <2>1, <2>2, Zenon
<1>8. ASSUME NEW all \in SUBSET Peer, NEW responded \in SUBSET Peer, NEW late \in BOOLEAN,
             process_round(all, responded, late)
      PROVE  GroupInv'
  <2>1. DOMAIN reputation' \subseteq Peer /\ \A p \in DOMAIN reputation' : Judged(reputation'[p])
    BY <1>8, ProcessedJudged, Zenon DEF process_round
  <2> QED BY <1>8, <2>1, Zenon DEF process_round
<1>9. ASSUME sync_reputation_to_trust PROVE GroupInv'
  <2>1. DOMAIN reputation' \subseteq Peer /\ \A p \in DOMAIN reputation' : Judged(reputation'[p])
    BY <1>9, SyncedJudged, Zenon DEF sync_reputation_to_trust
  <2> QED BY <1>9, <2>1, Zenon DEF sync_reputation_to_trust
<1>10. CASE UNCHANGED groupVars
  BY <1>10, Zenon DEF groupVars
<1>11. QED
  BY <1>1, <1>2, <1>3, <1>4, <1>5, <1>6, <1>7, <1>8, <1>9, <1>10, ZenonT(40) DEF
      GroupNext, RoundNext, ReportNext

---------------------------------------------------------------------------
\* GroupInv is an invariant of every group and every reputation manager.
THEOREM GroupInvariant == GroupSpec => []GroupInv
  BY GroupInvInit, GroupInvStep, PTL DEF GroupSpec

\* No order of joining, leaving and finishing rounds leaves a malicious member
\* in the group (group.rs:22-89).
THEOREM MaliciousAreOut == GroupSpec => []NoMaliciousMember
<1>1. GroupInv => NoMaliciousMember
  BY Zenon DEF GroupInv, Group, NoMaliciousMember, MaliciousOf
<1>2. QED
  BY <1>1, GroupInvariant, PTL

\* No penalty is lost to a write-back: the standings with which an open round was
\* started are those of the members, but for the ones who joined again
\* (group.rs:66-84).
THEOREM WriteBackCurrent == GroupSpec => []WriteBackIsCurrent
<1>1. GroupInit => WriteBackIsCurrent
  BY DEF GroupInit, WriteBackIsCurrent, NoRound
<1>2. WriteBackIsCurrent /\ [GroupNext]_groupVars => WriteBackIsCurrent'
  <2> SUFFICES ASSUME WriteBackIsCurrent, [GroupNext]_groupVars
               PROVE  WriteBackIsCurrent'
    BY Zenon
  <2>1. ASSUME current_round' = NoRound PROVE WriteBackIsCurrent'
    BY <2>1 DEF WriteBackIsCurrent, NoRound
  <2>2. ASSUME participants' = current_round' PROVE WriteBackIsCurrent'
    BY <2>2, Zenon DEF WriteBackIsCurrent
  <2>3. ASSUME current_round' = current_round,
               \A p \in DOMAIN participants' :
                   \/ participants'[p] = NewParticipant
                   \/ p \in DOMAIN participants /\ participants'[p] = participants[p]
        PROVE  WriteBackIsCurrent'
    BY <2>3, ZenonT(40) DEF WriteBackIsCurrent
  <2>4. CASE \E p \in Peer : join(p) \/ leave(p)
    BY <2>3, <2>4, ZenonT(40) DEF join, leave, Without
  <2>5. CASE \E dropouts \in SUBSET Peer : reform(dropouts)
    BY <2>3, <2>5, ZenonT(40) DEF reform, Without
  <2>6. CASE start_round
    <3>1. CASE Cardinality(DOMAIN Fit) < min_participants
      BY <2>3, <2>6, <3>1, ZenonT(40) DEF start_round, Fit, Without
    <3>2. CASE ~(Cardinality(DOMAIN Fit) < min_participants)
      BY <2>2, <2>6, <3>2, Zenon DEF start_round
    <3> QED BY <3>1, <3>2, Zenon
  <2>7. CASE finish_round \/ \E responded \in SUBSET Peer : finish_round_with(responded)
    BY <2>1, <2>7, Zenon DEF finish_round, finish_round_with
  <2>8. CASE broadcast_message
    <3>1. CASE Cardinality(DOMAIN Fit) < min_participants
      BY <2>3, <2>8, <3>1, ZenonT(40) DEF broadcast_message, Fit, Without
    <3>2. CASE ~(Cardinality(DOMAIN Fit) < min_participants) /\ Me \notin DOMAIN participants
      BY <2>2, <2>8, <3>2, Zenon DEF broadcast_message
    <3>3. CASE ~(Cardinality(DOMAIN Fit) < min_participants) /\ Me \in DOMAIN participants
      BY <2>1, <2>8, <3>3, Zenon DEF broadcast_message
    <3> QED BY <3>1, <3>2, <3>3, Zenon
  <2>9. CASE \/ sync_reputation_to_trust \/ ReportNext \/ UNCHANGED groupVars
    <3>1. UNCHANGED <<participants, current_round>>
      BY <2>9, Zenon DEF sync_reputation_to_trust, ReportNext, process_round, groupVars
    <3> QED BY <3>1, Zenon DEF WriteBackIsCurrent
  <2> QED BY <2>4, <2>5, <2>6, <2>7, <2>8, <2>9, ZenonT(40) DEF GroupNext, RoundNext
<1>3. QED
  BY <1>1, <1>2, PTL DEF GroupSpec

\* is_malicious, banned and the two trust scales agree on every peer after any
\* number of reported rounds (reputation.rs:44-85, f2f.rs:447-472).
THEOREM VerdictsAgree == GroupSpec => []OneVerdict
<1>1. GroupInv => OneVerdict
  <2> SUFFICES ASSUME GroupInv, NEW p \in DOMAIN reputation
               PROVE  /\ Malicious(reputation[p]) <=> reputation[p].banned
                      /\ trust_level(reputation[p]) = SyncedLevel(reputation[p])
    BY Zenon DEF OneVerdict
  <2>1. Malicious(reputation[p]) <=> reputation[p].banned
    BY Zenon DEF GroupInv, Judged, Malicious
  <2> QED BY <2>1, Zenon DEF trust_level, SyncedLevel
<1>2. QED
  BY <1>1, GroupInvariant, PTL

---------------------------------------------------------------------------
(***************************************************************************)
(* AddressBook: every address and key in a book was entered by a node whose *)
(* word reaches the book's keeper, for any keepers, trust between them and  *)
(* number of answers, early, late or repeated.                              *)
(*                                                                          *)
(* The invariant says the same of the answers that are on their way, which  *)
(* speak for the node that sent them, and that none is about its addressee. *)
(***************************************************************************)
\* A book whose entries are backed by the reports.
Book(n, book, reports) ==
    /\ DOMAIN book \subseteq Known
    /\ \A u \in DOMAIN book :
           /\ book[u] \in AddressEntry
           /\ Backed(n, u, book[u].addresses, book[u].public_key, reports)

AnswersBacked ==
    \A r \in answers : \A a \in r.peers :
        /\ a.uid # r.to
        /\ Backed(r.from, a.uid, a.addresses, a.public_key, entered)

BookInv ==
    /\ entries = [n \in Keeper |-> entries[n]]
    /\ \A n \in Keeper : Book(n, entries[n], entered)
    /\ now \in 0 .. MaxNow
    /\ answers \subseteq [from : Keeper, to : Keeper, peers : SUBSET PeerAnnounce]
    /\ AnswersBacked

\* A node hears itself, and whom its friends hear.
LEMMA HeardFriends ==
    ASSUME NEW n \in Keeper
    PROVE  /\ n \in Heard(n)
           /\ \A k \in Keeper : KeeperTrust[n][k] >= Marginal => Heard(k) \subseteq Heard(n)
BY Zenon DEF Heard

\* More reports back no less.
LEMMA BackedGrows ==
    ASSUME NEW n, NEW u, NEW A, NEW key, NEW E, NEW F, E \subseteq F,
           Backed(n, u, A, key, E)
    PROVE  Backed(n, u, A, key, F)
<1>1. Sources(n, u, E) \subseteq Sources(n, u, F)
  BY Zenon DEF Sources
<1> QED BY <1>1, Zenon DEF Backed

\* What a believed friend has backed is backed here too, unless it is about us.
LEMMA BackedByFriend ==
    ASSUME NEW n \in Keeper, NEW k \in Keeper, KeeperTrust[n][k] >= Marginal,
           NEW u, u # n, NEW A, NEW key, NEW E, Backed(k, u, A, key, E)
    PROVE  Backed(n, u, A, key, E)
<1>1. k \in Heard(n) /\ Heard(k) \subseteq Heard(n)
  BY HeardFriends, Zenon
<1>2. Sources(k, u, E) \subseteq Sources(n, u, E)
  BY <1>1, Zenon DEF Sources
<1> QED BY <1>2, Zenon DEF Backed

\* What is entered here is backed.
LEMMA BackedHere ==
    ASSUME NEW n \in Keeper, NEW u, NEW address, NEW key, NEW E,
           <<n, u, address, key>> \in E
    PROVE  Backed(n, u, {address}, key, E)
<1>1. <<n, u, address, key>> \in Sources(n, u, E)
  BY HeardFriends, Zenon DEF Sources
<1> QED BY <1>1 DEF Backed

\* A report merged into an entry: the key stays, the addresses are added.
LEMMA MergedEntry ==
    ASSUME NEW e \in AddressEntry, NEW A \in SUBSET SocketAddr,
           NEW confidence \in 0 .. 10, now \in 0 .. MaxNow
    PROVE  /\ Merged(e, A, confidence) \in AddressEntry
           /\ Merged(e, A, confidence).addresses = e.addresses \cup A
           /\ Merged(e, A, confidence).public_key = e.public_key
BY ZenonT(40) DEF Merged, AddressEntry

\* Entering a backed report leaves a book of backed entries (address_book.rs:64).
LEMMA Updated ==
    ASSUME NEW n, NEW book, NEW E, Book(n, book, E), now \in 0 .. MaxNow,
           NEW uid \in Known, NEW A \in SUBSET SocketAddr, NEW key \in PublicKey,
           NEW confidence \in 0 .. 10, Backed(n, uid, A, key, E)
    PROVE  Book(n, add_or_update(book, uid, A, key, confidence), E)
<1> DEFINE new == add_or_update(book, uid, A, key, confidence)
<1>1. DOMAIN new = DOMAIN book \cup {uid}
  BY ZenonT(40) DEF add_or_update
<1>2. \A u \in DOMAIN book : u # uid => new[u] = book[u]
  BY Zenon DEF add_or_update
<1>3. new[uid] = IF uid \in DOMAIN book THEN Merged(book[uid], A, confidence)
                 ELSE [addresses |-> A, public_key |-> key, last_seen |-> now,
                       confidence |-> confidence]
  BY Zenon DEF add_or_update
<1> HIDE DEF new
<1>4. /\ new[uid] \in AddressEntry
      /\ Backed(n, uid, new[uid].addresses, new[uid].public_key, E)
  <2>1. CASE uid \in DOMAIN book
    <3>1. /\ book[uid] \in AddressEntry
          /\ Backed(n, uid, book[uid].addresses, book[uid].public_key, E)
      BY <2>1, Zenon DEF Book
    <3>2. /\ new[uid] \in AddressEntry
          /\ new[uid].addresses = book[uid].addresses \cup A
          /\ new[uid].public_key = book[uid].public_key
      BY <2>1, <3>1, <1>3, MergedEntry
    <3> QED BY <3>1, <3>2, Zenon DEF Backed
  <2>2. CASE uid \notin DOMAIN book
    BY <2>2, <1>3 DEF AddressEntry
  <2> QED BY <2>1, <2>2, Zenon
<1> QED BY <1>1, <1>2, <1>4, Zenon DEF Book, new

\* So does entering all announcements of an answer (address_book.rs:143).
LEMMA AllUpdated ==
    ASSUME NEW n, NEW book, NEW E, Book(n, book, E), now \in 0 .. MaxNow,
           NEW peers \in SUBSET PeerAnnounce, NEW confidence \in 0 .. 10,
           \A a \in peers : Backed(n, a.uid, a.addresses, a.public_key, E)
    PROVE  Book(n, WithAll(book, peers, confidence), E)
<1> DEFINE new == WithAll(book, peers, confidence)
<1>1. DOMAIN new = DOMAIN book \cup {r.uid : r \in peers}
  BY Zenon DEF WithAll
<1>2. \A u \in DOMAIN new :
          new[u] = IF \E r \in peers : r.uid = u
                   THEN LET announce == CHOOSE r \in peers : r.uid = u
                        IN  add_or_update(book, u, announce.addresses,
                                          announce.public_key, confidence)[u]
                   ELSE book[u]
  BY Zenon DEF WithAll
<1> HIDE DEF new
<1>3. DOMAIN new \subseteq Known
  BY <1>1, Zenon DEF Book, PeerAnnounce
<1>4. ASSUME NEW u \in DOMAIN new
      PROVE  /\ new[u] \in AddressEntry
             /\ Backed(n, u, new[u].addresses, new[u].public_key, E)
  <2>1. CASE \E r \in peers : r.uid = u
    <3> DEFINE a == CHOOSE r \in peers : r.uid = u
               b == add_or_update(book, u, a.addresses, a.public_key, confidence)
    <3>1. a \in peers /\ a.uid = u
      BY <2>1, Zenon
    <3>2. new[u] = b[u]
      BY <1>2, <2>1, Zenon
    <3> HIDE DEF a
    <3>3. /\ u \in Known /\ a.addresses \in SUBSET SocketAddr
          /\ a.public_key \in PublicKey
          /\ Backed(n, u, a.addresses, a.public_key, E)
      BY <3>1, Zenon DEF PeerAnnounce
    <3>4. Book(n, b, E)
      BY <3>3, Updated, ZenonT(40)
    <3>5. u \in DOMAIN b
      BY Zenon DEF add_or_update
    <3> HIDE DEF b
    <3> QED BY <3>2, <3>4, <3>5, Zenon DEF Book
  <2>2. CASE ~ \E r \in peers : r.uid = u
    <3>1. u \in DOMAIN book /\ new[u] = book[u]
      BY <1>1, <1>2, <2>2, ZenonT(40)
    <3> QED BY <3>1, Zenon DEF Book
  <2> QED BY <2>1, <2>2, Zenon
<1> QED BY <1>3, <1>4, Zenon DEF Book, new

\* The invariant holds of empty books.
LEMMA BookInvInit == BookInit => BookInv
BY AgeAssumption DEF BookInit, BookInv, Book, AnswersBacked

\* A report from outside keeps the invariant.
LEMMA EnterKeeps ==
    ASSUME BookInv, NEW n \in Keeper, NEW uid \in Known, NEW address \in SocketAddr,
           NEW key \in PublicKey, NEW confidence \in Confidence,
           Enter(n, uid, address, key, confidence)
    PROVE  BookInv'
<1>1. /\ entered \subseteq entered' /\ <<n, uid, address, key>> \in entered'
      /\ now' = now /\ answers' = answers
      /\ entries' = [entries EXCEPT ![n] =
             add_or_update(@, uid, {address}, key, confidence)]
  BY Zenon DEF Enter
<1>2. \A m \in Keeper : Book(m, entries[m], entered')
  BY <1>1, BackedGrows, Zenon DEF BookInv, Book
<1>3. Backed(n, uid, {address}, key, entered')
  BY <1>1, BackedHere, Zenon
<1>4. Book(n, add_or_update(entries[n], uid, {address}, key, confidence), entered')
  BY <1>2, <1>3, Updated, ConfidenceAssumption, Zenon DEF BookInv
<1>5. \A m \in Keeper : Book(m, entries'[m], entered')
  BY <1>1, <1>2, <1>4, Zenon DEF BookInv
<1>6. entries' = [m \in Keeper |-> entries'[m]]
  BY <1>1, Zenon DEF BookInv
<1>7. AnswersBacked'
  BY <1>1, BackedGrows, Zenon DEF BookInv, AnswersBacked
<1> QED BY <1>1, <1>5, <1>6, <1>7, Zenon DEF BookInv

\* An answer says what the book says, but nothing about its addressee.
LEMMA AnswerKeeps ==
    ASSUME BookInv, NEW n \in Keeper, NEW to \in Keeper, Answer(n, to)
    PROVE  BookInv'
<1> DEFINE peers == build_gossip_response(entries[n], to)
           r == [from |-> n, to |-> to, peers |-> peers]
<1>1. /\ entries' = entries /\ now' = now /\ entered' = entered
      /\ answers' = answers \cup {r}
  BY Zenon DEF Answer
<1>2. Book(n, entries[n], entered)
  BY Zenon DEF BookInv
<1>3. ASSUME NEW a \in peers
      PROVE  /\ a \in PeerAnnounce /\ a.uid # to
             /\ Backed(n, a.uid, a.addresses, a.public_key, entered)
  <2>1. PICK u \in DOMAIN entries[n] \ {to} :
            a = [uid |-> u, addresses |-> entries[n][u].addresses,
                 public_key |-> entries[n][u].public_key]
    BY ZenonT(40) DEF build_gossip_response
  <2>2. /\ u \in Known /\ entries[n][u] \in AddressEntry
        /\ Backed(n, u, entries[n][u].addresses, entries[n][u].public_key, entered)
    BY <1>2, <2>1, ZenonT(40) DEF Book
  <2>3. a.uid = u /\ a.addresses = entries[n][u].addresses
            /\ a.public_key = entries[n][u].public_key
    BY <2>1, ZenonT(40)
  <2>4. a \in PeerAnnounce
    BY <2>1, <2>2, Zenon DEF PeerAnnounce, AddressEntry
  <2> QED BY <2>1, <2>2, <2>3, <2>4, ZenonT(40)
<1> HIDE DEF peers
<1>4. r.from = n /\ r.to = to /\ r.peers = peers
          /\ r \in [from : Keeper, to : Keeper, peers : SUBSET PeerAnnounce]
  BY <1>3, Zenon
<1> HIDE DEF r
<1>5. AnswersBacked'
  BY <1>1, <1>3, <1>4, Zenon DEF BookInv, AnswersBacked
<1> QED BY <1>1, <1>4, <1>5, Zenon DEF BookInv

\* An answer taken up from a believed friend is backed here as well.
LEMMA GossipKeeps ==
    ASSUME BookInv, NEW r \in answers, handle_gossip_response(r)
    PROVE  BookInv'
<1> DEFINE level == KeeperTrust[r.to][r.from]
           new   == WithAll(entries[r.to], r.peers, Weight(level))
<1>1. r.to \in Keeper /\ r.from \in Keeper /\ r.peers \in SUBSET PeerAnnounce
  BY Zenon DEF BookInv
<1>2. /\ now' = now /\ answers' = answers /\ entered' = entered
      /\ entries' = IF Believed(level) THEN [entries EXCEPT ![r.to] = new]
                    ELSE entries
  BY Zenon DEF handle_gossip_response
<1>3. Weight(level) \in 0 .. 10
  BY DEF Weight, Ultimate, Full, Marginal
<1>4. CASE Believed(level)
  <2>1. \A a \in r.peers : Backed(r.to, a.uid, a.addresses, a.public_key, entered)
    BY <1>1, <1>4, BackedByFriend, Zenon DEF BookInv, AnswersBacked, Believed
  <2>2. Book(r.to, entries[r.to], entered) /\ now \in 0 .. MaxNow
    BY <1>1, Zenon DEF BookInv
  <2>3. Book(r.to, new, entered)
    BY <1>1, <1>3, <2>1, <2>2, AllUpdated, Zenon
  <2> HIDE DEF new, level
  <2>4. entries' = [m \in Keeper |-> entries'[m]]
    BY <1>2, <1>4, Zenon DEF BookInv
  <2>5. \A m \in Keeper : Book(m, entries'[m], entered)
    BY <1>1, <1>2, <1>4, <2>3, Zenon DEF BookInv
  <2> QED BY <1>2, <2>4, <2>5, Zenon DEF BookInv, AnswersBacked
<1>5. CASE ~Believed(level)
  BY <1>2, <1>5, Zenon DEF BookInv, AnswersBacked
<1> QED BY <1>4, <1>5, Zenon

\* Pruning removes entries.
LEMMA PruneKeeps ==
    ASSUME BookInv, NEW n \in Keeper, prune_stale(n)
    PROVE  BookInv'
<1> DEFINE book == entries[n]
           kept == {v \in DOMAIN book :
                       (now - book[v].last_seen) % AgeModulus < MaxAgeSecs}
           new  == [u \in kept |-> book[u]]
<1>1. /\ now' = now /\ answers' = answers /\ entered' = entered
      /\ entries' = [entries EXCEPT ![n] = new]
  BY Zenon DEF prune_stale
<1>2. kept \subseteq DOMAIN book
  BY Zenon
<1> HIDE DEF kept
<1>3. Book(n, new, entered)
  BY <1>2, Zenon DEF BookInv, Book
<1> HIDE DEF new
<1>4. entries' = [m \in Keeper |-> entries'[m]]
  BY <1>1, Zenon DEF BookInv
<1>5. \A m \in Keeper : Book(m, entries'[m], entered)
  BY <1>1, <1>3, Zenon DEF BookInv
<1> QED BY <1>1, <1>4, <1>5, Zenon DEF BookInv, AnswersBacked

\* The invariant is inductive.
LEMMA BookInvStep == BookInv /\ [BookNext]_bookVars => BookInv'
<1> SUFFICES ASSUME BookInv, [BookNext]_bookVars PROVE BookInv'
  BY Zenon
<1>1. ASSUME NEW t \in 0 .. MaxNow, SetClock(t) PROVE BookInv'
  BY <1>1, Zenon DEF SetClock, BookInv, AnswersBacked
<1>2. CASE UNCHANGED bookVars
  BY <1>2, Zenon DEF bookVars, BookInv, AnswersBacked
<1> QED BY <1>1, <1>2, EnterKeeps, AnswerKeeps, GossipKeeps, PruneKeeps, Zenon DEF
            BookNext

\* What a book says of a peer was entered by a node whose word reaches its keeper
\* along friends that trust each other, whatever the order of the answers, and
\* nobody is told about itself (address_book.rs:8, :172).
THEOREM BooksFollowTrust == BookSpec => [](BookTypeOK /\ GossipFollowsTrust)
<1>1. BookInv => BookTypeOK /\ GossipFollowsTrust
  BY Zenon DEF BookInv, Book, BookTypeOK, GossipFollowsTrust
<1> QED BY <1>1, BookInvInit, BookInvStep, PTL DEF BookSpec

---------------------------------------------------------------------------
(***************************************************************************)
(* The library's objects side by side.                                      *)
(***************************************************************************)
\* The fields of a channel that no other property needs: its round counter
\* follows the rounds started, and every friend has a level.
ChannelInv == round_id \in 0 .. rounds /\ friend_trust \in [Friends -> 0 .. 2]

\* The levels sync_reputation_to_trust gives (f2f.rs:447).
LEMMA SyncedLevelType == \A r : SyncedLevel(r) \in 0 .. 2
<1>1. 0 \in 0 .. 2 /\ 1 \in 0 .. 2 /\ 2 \in 0 .. 2
  OBVIOUS
<1> QED BY <1>1, Zenon DEF SyncedLevel, Level

\* A round id is taken for a round that was started.
LEMMA ChannelInvStep ==
    ASSUME GroupInv, ChannelInv, [GroupNext]_groupVars
    PROVE  ChannelInv'
<1>1. \/ round_id' = round_id /\ rounds' = rounds
      \/ round_id' = round_id /\ rounds' = rounds + 1
      \/ round_id' = round_id + 1 /\ rounds' = rounds + 1
  BY ZenonT(40) DEF GroupNext, RoundNext, ReportNext, groupVars, join, leave, reform,
      start_round, finish_round, finish_round_with, process_round,
      broadcast_message, sync_reputation_to_trust
<1>2. \/ friend_trust' = friend_trust
      \/ friend_trust' = [p \in Friends |-> SyncedLevel(reputation'[p])]
  BY ZenonT(40) DEF GroupNext, RoundNext, ReportNext, groupVars, join, leave, reform,
      start_round, finish_round, finish_round_with, process_round,
      broadcast_message, sync_reputation_to_trust, SyncedWith
<1>3. round_id' \in 0 .. rounds'
  BY <1>1, RoundBoundAssumption DEF ChannelInv, GroupInv
<1>4. friend_trust' \in [Friends -> 0 .. 2]
  BY <1>2, SyncedLevelType, Zenon DEF ChannelInv
<1> QED BY <1>3, <1>4, Zenon DEF ChannelInv

\* A channel's group, its rounds and its reputations keep their types for any
\* number of members, rounds and reports.
THEOREM GroupTyped == GroupSpec => []GroupTypeOK
<1>1. GroupInit => ChannelInv
  <2> SUFFICES ASSUME GroupInit PROVE ChannelInv
    BY Zenon
  <2>1. 1 .. 2 \subseteq 0 .. 2 /\ 0 \in 0 .. 0
    OBVIOUS
  <2>2. friend_trust \in [Friends -> 0 .. 2]
    BY <2>1, Zenon DEF GroupInit
  <2> QED BY <2>1, <2>2, Zenon DEF GroupInit, ChannelInv
<1>2. GroupInv /\ ChannelInv => GroupTypeOK
  BY Zenon DEF GroupInv, Group, Judged, ChannelInv, GroupTypeOK
<1> QED BY <1>1, <1>2, ChannelInvStep, GroupInvariant, PTL DEF GroupSpec

\* Objects that share no state do not disturb each other: a behaviour of the
\* library is one of each of its objects, so that what is proved of an object
\* holds of it in the library.
THEOREM LibraryIsItsObjects ==
    LibrarySpec => Spec /\ TrustSpec /\ RatchetSpec /\ ServiceSpec /\ GroupSpec /\ BookSpec
<1>1. LibraryInit => /\ Init /\ TrustInit /\ RatchetInit
                     /\ ServiceInit /\ GroupInit /\ BookInit
  BY Zenon DEF LibraryInit
<1>2. ReportOnMe => GroupNext
  <2>1. \A S \in SUBSET {Me} : S \in SUBSET Peer
    BY MeAssumption, Zenon
  <2> QED BY <2>1, Zenon DEF ReportOnMe, GroupNext, ReportNext
<1>3. [LibraryNext]_libraryVars =>
          /\ [Next]_vars /\ [TrustNext]_trustVars /\ [RatchetNext]_ratchetVars
          /\ [ServiceNext]_serviceVars /\ [GroupNext]_groupVars /\ [BookNext]_bookVars
  BY <1>2, ZenonT(40) DEF LibraryNext, libraryVars, GroupNext
<1> QED BY <1>1, <1>3, PTL DEF LibrarySpec, Spec, TrustSpec, RatchetSpec, ServiceSpec,
            GroupSpec, BookSpec

\* Every object of the library keeps to the types its struct declares, for any
\* number of users, keys, frames, services, peers and books.
THEOREM LibraryTyped == LibrarySpec => []LibraryTypeOK
<1>1. Inv => TypeOK
  BY Zenon DEF Inv
<1>2. TrustInv => TrustTypeOK
  BY Zenon DEF TrustInv
<1>3. RatchetInv => RatchetTypeOK
  BY Zenon DEF RatchetInv
<1>4. ServiceInv => ServiceTypeOK
  BY Zenon DEF ServiceInv
<1>5. TypeOK /\ TrustTypeOK /\ RatchetTypeOK /\ ServiceTypeOK /\ GroupTypeOK /\ BookTypeOK
          => LibraryTypeOK
  BY Zenon DEF LibraryTypeOK
<1> QED BY <1>1, <1>2, <1>3, <1>4, <1>5, LibraryIsItsObjects, InvCorrect, TrustInvariant,
            RatchetInvariant, ServiceInvariant, GroupTyped, BooksFollowTrust, PTL
===========================================================================
