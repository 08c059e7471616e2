---------------------------- MODULE CtrlerConfig ----------------------------
(***************************************************************************)
(* The tester of the shard controller (shardctrler/config.go): it starts   *)
(* servers, shuts them down and restarts them from their persisted state,  *)
(* and connects servers and clients, while calls are under way.            *)
(* kvraft/config.go has the same code.                                     *)
(*                                                                         *)
(* Instance g of server i is the caller <<i, g>>, and clerk c the caller   *)
(* <<c, 0>>.  An operation of the tester is a sequence of calls to the     *)
(* network: at says what comes next, of server who, and todo which loops   *)
(* of Enable calls remain.  Only saved[i] is ever read again, so what an   *)
(* instance writes to a persister that was superseded is dropped.          *)
(***************************************************************************)
EXTENDS Labrpc, Sequences

CONSTANTS
    Clerk,
    unreliable,   \* make_config's parameter
    MayRestart,   \* bound: the servers that the tests shut down and restart
    Reach,        \* bound: the servers that the tests connect clerks to
    All,          \* the servers in the order of their numbers
    Partitions,   \* bound: the partitions the tests make, as pairs of lists of servers
    MaxInstance   \* bound: a server is started this many times

ASSUME ConfigAssumption ==
    /\ MaxInstance \in Nat \ {0} /\ 1 .. MaxInstance \subseteq Instance
    /\ Name \X (1 .. MaxInstance) \subseteq Caller /\ Clerk \X {0} \subseteq Caller
    /\ All \in Seq(Name) /\ Partitions \subseteq Seq(Name) \X Seq(Name)
    /\ MayRestart \subseteq Name /\ Reach \subseteq Name
    /\ unreliable \in BOOLEAN

VARIABLES
    at, who, todo,
    instance,   \* instances of each server so far
    up,         \* servers with cfg.servers[i] # nil
    saved,      \* requests in the persister saved[i]
    owner,      \* the instance that writes to saved[i], or 0
    links       \* history: the pairs of servers that were last told to be connected

testerVars == <<at, who, todo, instance, up, saved, owner, links>>
storeVars  == <<instance, up, saved, owner, links>>

Peer(i) == <<i, instance[i]>>
Client(c) == <<c, 0>>

(* make_config has started every server and connected them all.            *)
make_config ==
    /\ at = "idle" /\ who = Nil /\ todo = <<>>
    /\ instance = [i \in Name |-> 1]
    /\ up = Name
    /\ saved = [i \in Name |-> {}]
    /\ owner = [i \in Name |-> 1]
    /\ links = Name \X Name
    /\ enabled = (Name \X {1}) \X Name
    /\ connections = (Name \X {1}) \X Name
    /\ servers = [i \in Name |-> 1]
    /\ reliable = ~unreliable

-----------------------------------------------------------------------------
(* The Enable calls of one connectUnlocked or disconnectUnlocked: outgoing *)
(* and incoming ends.  No call looks at more than one end, so the calls of *)
(* one such loop are one step.                                             *)
Ends(i, S) == ({Peer(i)} \X S) \cup {<<Peer(j), i>> : j \in S}

connectUnlocked(i, to) == [ends |-> Ends(i, to), on |-> TRUE]

(* Faulty: other servers can still send to i.                              *)
disconnectOutgoing(i, from) == [ends |-> {Peer(i)} \X from, on |-> FALSE]

disconnectUnlocked(i, from) == [ends |-> Ends(i, from), on |-> FALSE]

Members(s) == {s[k] : k \in 1 .. Len(s)}

(* All() lists the servers 0 .. n-1, and the tests split all of them.      *)
ASSUME ListAssumption ==
    /\ Name # {} /\ Members(All) = Name
    /\ \A p \in Partitions : /\ Members(p[1]) \cup Members(p[2]) = Name
                             /\ Members(p[1]) \cap Members(p[2]) = {}

ConnectAllCalls == [k \in 1 .. Len(All) |-> connectUnlocked(All[k], Members(All))]

(* For each server of p in turn: away from q, then together with p.        *)
SideCalls(p, q) ==
    [k \in 1 .. 2 * Len(p) |->
        IF k % 2 = 1 THEN disconnectUnlocked(p[(k + 1) \div 2], Members(q))
        ELSE connectUnlocked(p[k \div 2], Members(p))]

partitionCalls(p1, p2) == SideCalls(p1, p2) \o SideCalls(p2, p1)

Idle == at = "idle" /\ done = "open"
Step(l, m) == at = l /\ at' = m
Apply(x) == Enable(x.ends, x.on)

(* The next of the calls that ConnectAll or partition makes.               *)
EnableNext ==
    /\ at = "enabling"
    /\ Apply(Head(todo))
    /\ todo' = Tail(todo)
    /\ at' = IF Tail(todo) = <<>> THEN "idle" ELSE "enabling"
    /\ UNCHANGED <<connections, servers, reliable, done, callVars, who, storeVars>>

BeginEnabling(calls) ==
    /\ Idle
    /\ at' = "enabling" /\ todo' = calls
    /\ UNCHANGED <<netVars, who, instance, up, saved, owner>>

-----------------------------------------------------------------------------
(* StartServer: fresh ends, which are not enabled yet ...                  *)
StartServer(i) ==
    /\ Idle /\ i \notin up /\ instance[i] < MaxInstance
    /\ at' = "renewing" /\ who' = i
    /\ instance' = [instance EXCEPT ![i] = @ + 1]
    /\ MakeEnds({<<i, instance'[i]>>} \X Name)
    /\ UNCHANGED <<enabled, servers, reliable, done, callVars, todo, up, saved, owner, links>>

(* Faulty: the fresh persister is not stored in saved[i].                  *)
RenewNothing ==
    /\ Step("renewing", "adding")
    /\ up' = up \cup {who}
    /\ UNCHANGED <<netVars, who, todo, instance, saved, owner, links>>

(* ... a fresh persister with the content of the old one ...               *)
RenewPersister ==
    /\ Step("renewing", "adding")
    /\ owner' = [owner EXCEPT ![who] = instance[who]]
    /\ up' = up \cup {who}
    /\ UNCHANGED <<netVars, who, todo, instance, saved, links>>

(* ... and the new instance added to the network under the server's name.  *)
AddInstance ==
    /\ Step("adding", "idle")
    /\ AddServer(who, instance[who])
    /\ UNCHANGED <<enabled, connections, reliable, done, callVars, who, todo, storeVars>>

(* ShutdownServer: the server is isolated ...                              *)
ShutdownServer(i) ==
    /\ Idle /\ i \in up
    /\ at' = "deleting" /\ who' = i
    /\ Apply(disconnectUnlocked(i, Name))
    /\ links' = {l \in links : i \notin {l[1], l[2]}}
    /\ UNCHANGED <<connections, servers, reliable, done, callVars, todo, instance, up, saved, owner>>

(* ... deleted from the network ...                                        *)
DeleteInstance ==
    /\ Step("deleting", "copying")
    /\ DeleteServer(who)
    /\ UNCHANGED <<enabled, connections, reliable, done, callVars, who, todo, storeVars>>

(* ... its persister is superseded by a copy, and it is killed.            *)
CopyPersister ==
    /\ Step("copying", "idle")
    /\ owner' = [owner EXCEPT ![who] = 0]
    /\ up' = up \ {who}
    /\ UNCHANGED <<netVars, who, todo, instance, saved, links>>

(* ConnectAll and partition, which the tests call when all servers run.    *)
ConnectAll ==
    /\ up = Name
    /\ BeginEnabling(ConnectAllCalls)
    /\ links' = Name \X Name

partition(p1, p2) ==
    /\ up = Name
    /\ BeginEnabling(partitionCalls(p1, p2))
    /\ links' = (Members(p1) \X Members(p1)) \cup (Members(p2) \X Members(p2))

(* makeClient: ends to every server, of which those of to are enabled.     *)
makeClient(c, to) ==
    /\ Idle
    /\ MakeEnds({Client(c)} \X Name)
    /\ enabled' = enabled \cup ({Client(c)} \X to)
    /\ UNCHANGED <<servers, reliable, done, callVars, testerVars>>

(* ConnectClient and DisconnectClient.                                     *)
SwitchClient(c, to, on) ==
    /\ Idle /\ {Client(c)} \X Name \subseteq connections
    /\ Enable({Client(c)} \X to, on)
    /\ UNCHANGED <<connections, servers, reliable, done, callVars, testerVars>>

ConnectClient(c, to) == SwitchClient(c, to, TRUE)
DisconnectClient(c, from) == SwitchClient(c, from, FALSE)

CleanupNetwork == Idle /\ Cleanup /\ UNCHANGED testerVars

Tester ==
    \/ EnableNext \/ RenewPersister \/ AddInstance \/ DeleteInstance \/ CopyPersister
    \/ ConnectAll \/ CleanupNetwork
    \/ \E i \in Name : StartServer(i)
    \/ \E p \in Partitions : partition(p[1], p[2])
    \/ \E i \in MayRestart : ShutdownServer(i)
    \/ \E c \in Clerk : ConnectClient(c, Reach) \/ DisconnectClient(c, Reach)

TesterTypeOK ==
    /\ at \in {"idle", "enabling", "renewing", "adding", "deleting", "copying"}
    /\ who \in Name \cup {Nil}
    /\ todo \in Seq([ends : SUBSET End, on : BOOLEAN])
    /\ instance \in [Name -> Nat]
    /\ up \subseteq Name
    /\ saved \in [Name -> SUBSET Args]
    /\ owner \in [Name -> Nat]
    /\ links \subseteq Name \X Name
=============================================================================
