--------------------------- MODULE ServiceManager ---------------------------
(***************************************************************************)
(* The services of an F2F network and their proxy tunnels, service.rs.      *)
(*                                                                          *)
(* A service id is a fresh UUID: here services are numbered as they are     *)
(* created.  next_port is a u16 that wraps in a release build.  Each proxy  *)
(* also remembers, for the properties, the service it was opened for.       *)
(***************************************************************************)
EXTENDS Integers, Sequences

CONSTANTS Owner,        \* uids that create services
          Client,       \* uids that use them
          ServiceName,
          FirstPort,    \* 18080
          LastPort,     \* 65535
          MaxServices,  \* bound on the services created
          MaxAccepts    \* bound on the services accepted

ASSUME PortAssumption    == LastPort \in Nat /\ FirstPort \in 0 .. LastPort
ASSUME ServiceAssumption == MaxServices \in Nat /\ MaxAccepts \in Nat

VARIABLES services, proxies, next_port,
          accepted      \* services accepted so far

serviceVars == <<services, proxies, next_port, accepted>>

Status == {"Pending", "Active", "Rejected", "Closed"}

F2fService == [name : ServiceName, owner_uid : Owner, status : Status]

ProxyConfig == [target_uid : Owner, allowed_clients : SUBSET Client,
                allow_all_members : BOOLEAN, service : 1 .. MaxServices]

Port == 0 .. LastPort

ServiceInit ==
    /\ services = <<>>
    /\ proxies = [p \in {} |-> {}]
    /\ next_port = FirstPort
    /\ accepted = 0

---------------------------------------------------------------------------
create_service(name, owner) ==
    /\ Len(services) < MaxServices
    /\ services' = Append(services, [name |-> name, owner_uid |-> owner, status |-> "Pending"])
    /\ UNCHANGED <<proxies, next_port, accepted>>

\* Mutant: after the last port it starts again at the first.
Increment_FromFirst(p) == IF p = LastPort THEN FirstPort ELSE p + 1

\* next_port += 1 on a u16
Increment(p) == IF p = LastPort THEN 0 ELSE p + 1

accept_service(id) ==
    /\ accepted < MaxAccepts
    /\ services[id].status = "Pending"
    /\ services' = [services EXCEPT ![id].status = "Active"]
    /\ proxies' = [p \in DOMAIN proxies \cup {next_port} |->
                      IF p = next_port
                      THEN [target_uid |-> services[id].owner_uid, allowed_clients |-> {},
                            allow_all_members |-> TRUE, service |-> id]
                      ELSE proxies[p]]
    /\ next_port' = Increment(next_port)
    /\ accepted' = accepted + 1

\* In whatever state the service is; a proxy it has stays.
reject_service(id) ==
    /\ services' = [services EXCEPT ![id].status = "Rejected"]
    /\ UNCHANGED <<proxies, next_port, accepted>>

\* Mutant: the proxies are left to the next restart.
close_service_KeepsProxies(id, requester) ==
    /\ services[id].owner_uid = requester
    /\ services' = [services EXCEPT ![id].status = "Closed"]
    /\ UNCHANGED <<proxies, next_port, accepted>>

\* All proxies of the owner go.
close_service(id, requester) ==
    /\ services[id].owner_uid = requester
    /\ services' = [services EXCEPT ![id].status = "Closed"]
    /\ proxies' = [p \in {q \in DOMAIN proxies : proxies[q].target_uid # requester} |->
                      proxies[p]]
    /\ UNCHANGED <<next_port, accepted>>

\* The find() over the HashMap: any proxy to an owner of a service so named.
Matching(name) ==
    {p \in DOMAIN proxies : \E id \in 1 .. Len(services) :
        services[id].name = name /\ services[id].owner_uid = proxies[p].target_uid}

allow_client(name, uid) ==
    /\ \E p \in Matching(name) :
          proxies' = [proxies EXCEPT ![p].allow_all_members = FALSE,
                                     ![p].allowed_clients = @ \cup {uid}]
    /\ UNCHANGED <<services, next_port, accepted>>

deny_client(name, uid) ==
    /\ \E p \in Matching(name) :
          proxies' = [proxies EXCEPT ![p].allowed_clients = @ \ {uid}]
    /\ UNCHANGED <<services, next_port, accepted>>

can_access(uid, port) ==
    /\ port \in DOMAIN proxies
    /\ proxies[port].allow_all_members \/ uid \in proxies[port].allowed_clients

ServiceNext ==
    \/ \E name \in ServiceName, owner \in Owner : create_service(name, owner)
    \/ \E id \in 1 .. Len(services) : accept_service(id) \/ reject_service(id)
    \/ \E id \in 1 .. Len(services), uid \in Owner : close_service(id, uid)
    \/ \E name \in ServiceName, uid \in Client :
          allow_client(name, uid) \/ deny_client(name, uid)

ServiceSpec == ServiceInit /\ [][ServiceNext]_serviceVars

---------------------------------------------------------------------------
\* The fields of ServiceManager.
ServiceTypeOK ==
    /\ services \in Seq(F2fService) /\ Len(services) <= MaxServices
    /\ DOMAIN proxies \subseteq Port
    /\ \A p \in DOMAIN proxies : proxies[p] \in ProxyConfig
    /\ next_port \in Port
    /\ accepted \in 0 .. MaxAccepts

\* A service that was closed cannot be reached, whatever the admin did to it
\* before or after: no client has access through a port that was opened for it
\* (service.rs:142-157).
ClosedIsUnreachable ==
    \A p \in DOMAIN proxies :
        (\E uid \in Client : can_access(uid, p)) =>
            /\ proxies[p].service \in 1 .. Len(services)
            /\ services[proxies[p].service].status \in {"Active", "Rejected"}
            /\ services[proxies[p].service].owner_uid = proxies[p].target_uid

\* A port that is open goes on leading to the service it was opened for, also
\* when the counter has wrapped, until all the 65536 ports have been given out:
\* only then does one come up a second time, open or not (service.rs:117-118).
PortsKept ==
    [][\A p \in DOMAIN proxies \cap DOMAIN proxies' :
          proxies'[p].service # proxies[p].service => accepted > LastPort]_serviceVars
===========================================================================
