----------------------------- MODULE GuardPorts -----------------------------
(***************************************************************************)
(* The guard ports (watchapi-core/src/runtime.rs 3247-3359).  An agent     *)
(* keeps the address of its guard proxy, so the guard of an endpoint       *)
(* should come back on the same port.  A file next to the config says      *)
(* which endpoint has which port; the runtimes of a process, one per       *)
(* config, read and rewrite it under one lock.  A port that is registered  *)
(* is only used if it can be bound right now, and it is bound for good     *)
(* after the lock was given back.                                          *)
(*                                                                         *)
(*  down --> binding --> up      binding --> cleared --> rebinding --> up  *)
(***************************************************************************)
EXTENDS Integers

CONSTANTS
    Keeper,       \* the runtimes
    Key,          \* names of endpoints
    KeyOf,        \* the endpoint a runtime starts a guard for
    Port,         \* GUARD_PROXY_PORT_MIN..GUARD_PROXY_PORT_MAX
    NoPort        \* no registered port: any port will do

ASSUME PortsAssumption ==
    /\ KeyOf \in [Keeper -> Key]
    /\ Port \subseteq Int
    /\ \A S \in SUBSET Port : S # {} => \E p \in S : \A q \in S : p <= q
    /\ NoPort \notin Port

VARIABLES
    registry,     \* .watchapi-guard-ports.json
    keeper,       \* what each runtime is doing, the port it reserved or has
    foreign,      \* ports that other programs have bound
    lastPort,     \* history: the port of the last guard of an endpoint that
                  \* has one runtime
    excused       \* history: those of them that may come back elsewhere

portVars == <<registry, keeper, foreign, lastPort, excused>>

Stage == {"down", "binding", "cleared", "rebinding", "up"}
NoGuard == [at |-> "down", port |-> NoPort]

PortsInit ==
    /\ registry = [k \in Key |-> NoPort]
    /\ keeper = [r \in Keeper |-> NoGuard]
    /\ foreign = {}
    /\ lastPort = [r \in Keeper |-> NoPort]
    /\ excused = {}

(* A guard without a reserved port is on one of the system's choice.       *)
Bound ==
    (foreign \cup {keeper[r].port : r \in {q \in Keeper : keeper[q].at = "up"}}) \ {NoPort}

(* port_available: bind it and let it go again.                            *)
PortAvailable(p) == p \in Port \ Bound

(* A guard whose endpoint is nobody else's.                                *)
Sole(r) == \A q \in Keeper : KeyOf[q] = KeyOf[r] => q = r

Excuse(r) == IF lastPort[r] \in Bound THEN excused \cup {r} ELSE excused

Promised(k) == {registry[j] : j \in Key \ {k}}

(* Broken variant: a port that is promised but not in use is given away.   *)
CandidatesInUse(k) == {p \in Port : PortAvailable(p)}

(* find_available_guard_proxy_port: the first that nobody else is promised.*)
Candidates(k) == {p \in Port \ Promised(k) : PortAvailable(p)}

FirstOf(S) == IF S = {} THEN NoPort ELSE CHOOSE p \in S : \A q \in S : p <= q

(* Broken variant: what is registered is not looked at.                    *)
ReservedAnew(k) == FirstOf(Candidates(k))

(* reserve_guard_proxy_port_at, from its lock to its unlock.               *)
Reserved(k) == IF PortAvailable(registry[k]) THEN registry[k] ELSE FirstOf(Candidates(k))

Registered(k, p) == IF p = NoPort THEN registry ELSE [registry EXCEPT ![k] = p]

ReservePort(r) ==
    /\ keeper[r].at \in {"down", "cleared"}
    /\ LET k == KeyOf[r]
           p == Reserved(k)
       IN /\ registry' = Registered(k, p)
          /\ keeper' = [keeper EXCEPT ![r] =
                [at |-> IF keeper[r].at = "down" THEN "binding" ELSE "rebinding",
                 port |-> p]]
    /\ excused' = Excuse(r)
    /\ UNCHANGED <<foreign, lastPort>>

(* The file cannot be written: the guard does not start.                   *)
SaveFails(r) ==
    /\ keeper[r].at \in {"down", "cleared"}
    /\ Reserved(KeyOf[r]) \notin {registry[KeyOf[r]], NoPort}
    /\ keeper' = [keeper EXCEPT ![r] = NoGuard]
    /\ UNCHANGED <<registry, foreign, lastPort, excused>>

CanBind(r) ==
    keeper[r].at \in {"binding", "rebinding"} /\ keeper[r].port \notin Bound

(* GuardProxyServer::start. Without a reserved port the system chooses one.*)
BindPort(r) ==
    /\ CanBind(r)
    /\ keeper' = [keeper EXCEPT ![r].at = "up"]
    /\ lastPort' = IF Sole(r) THEN [lastPort EXCEPT ![r] = keeper[r].port] ELSE lastPort
    /\ excused' = IF Sole(r) /\ registry[KeyOf[r]] # keeper[r].port
                  THEN excused \cup {r} ELSE excused \ {r}
    /\ UNCHANGED <<registry, foreign>>

(* Somebody was faster. clear_guard_proxy_port_assignment forgets the      *)
(* port, if it can be written, before another one is reserved.             *)
BindFails(r) ==
    /\ keeper[r].at = "binding" /\ keeper[r].port \in Bound
    /\ \E cleared \in BOOLEAN :
         registry' = IF cleared THEN [registry EXCEPT ![KeyOf[r]] = NoPort] ELSE registry
    /\ keeper' = [keeper EXCEPT ![r] = [at |-> "cleared", port |-> NoPort]]
    /\ excused' = Excuse(r)
    /\ UNCHANGED <<foreign, lastPort>>

GiveUpBinding(r) ==
    /\ keeper[r].at = "rebinding" /\ keeper[r].port \in Bound
    /\ keeper' = [keeper EXCEPT ![r] = NoGuard]
    /\ excused' = Excuse(r)
    /\ UNCHANGED <<registry, foreign, lastPort>>

(* The guard is stopped, or its program dies.                              *)
ReleasePort(r) ==
    /\ keeper[r].at = "up"
    /\ keeper' = [keeper EXCEPT ![r] = NoGuard]
    /\ UNCHANGED <<registry, foreign, lastPort, excused>>

(* Another program takes a port or gives it back.                          *)
ForeignTakes(p) ==
    /\ PortAvailable(p)
    /\ foreign' = foreign \cup {p}
    /\ UNCHANGED <<registry, keeper, lastPort, excused>>

ForeignLeaves(p) ==
    /\ p \in foreign
    /\ foreign' = foreign \ {p}
    /\ UNCHANGED <<registry, keeper, lastPort, excused>>

(* Entries get lost: the file is unreadable, or another process, which the *)
(* lock does not reach, writes back what it has read before.               *)
EntryLost(k) ==
    /\ registry[k] # NoPort
    /\ registry' = [registry EXCEPT ![k] = NoPort]
    /\ excused' = excused \cup {r \in Keeper : Sole(r) /\ KeyOf[r] = k}
    /\ UNCHANGED <<keeper, foreign, lastPort>>

PortsNext ==
    \/ \E r \in Keeper :
         \/ ReservePort(r) \/ SaveFails(r) \/ BindPort(r) \/ BindFails(r)
         \/ GiveUpBinding(r) \/ ReleasePort(r)
    \/ \E p \in Port : ForeignTakes(p) \/ ForeignLeaves(p)
    \/ \E k \in Key : EntryLost(k)

PortsSpec == PortsInit /\ [][PortsNext]_portVars

(***************************************************************************)
(* Properties.                                                             *)
(***************************************************************************)
(* Types.                                                                  *)
PortsTypeOK ==
    /\ registry \in [Key -> Port \cup {NoPort}]
    /\ keeper \in [Keeper -> [at : Stage, port : Port \cup {NoPort}]]
    /\ foreign \subseteq Port
    /\ lastPort \in [Keeper -> Port \cup {NoPort}]
    /\ excused \subseteq Keeper

(* No two endpoints are promised the same port, whoever rewrites the file  *)
(* (find_available_guard_proxy_port).                                      *)
PortsDistinct ==
    \A j, k \in Key : registry[j] = registry[k] /\ registry[j] # NoPort => j = k

(* A guard whose endpoint is nobody else's comes back on its port, unless  *)
(* another program held that port while it started or the entry was lost:  *)
(* what other runtimes start and stop meanwhile does not matter            *)
(* (reserve_guard_proxy_port_at: the agent keeps the address).             *)
PortKept ==
    \A r \in Keeper \ excused :
        CanBind(r) /\ lastPort[r] # NoPort => keeper[r].port = lastPort[r]
=============================================================================
