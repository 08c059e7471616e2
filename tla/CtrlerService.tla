--------------------------- MODULE CtrlerService ----------------------------
(***************************************************************************)
(* Clerks and servers of the shard controller over the simulated network,  *)
(* under a tester that restarts servers and cuts links at any moment.      *)
(*                                                                         *)
(* The handlers of the service are empty in the repository, and what they  *)
(* are meant to do is external: a handler either answers that it is not    *)
(* the leader, or has the request persisted and answers OK.  The calls of  *)
(* the servers among themselves are those of the Raft model; here they are *)
(* the ends over which they can get through.                               *)
(***************************************************************************)
EXTENDS CtrlerClerk

vars == <<netVars, testerVars, clerkVars>>

Init == MakeNetwork /\ make_config /\ ClerkInit

(* External: the service's handler, of a server that may be dead by now.   *)
Serve(h) ==
    /\ \/ /\ serverDispatch(h, "WrongLeader")
          /\ UNCHANGED saved
       \/ /\ serverDispatch(h, "OK")
          /\ saved' = IF owner[h.name] = h.server
                      THEN [saved EXCEPT ![h.name] = @ \cup {h.args}] ELSE saved
    /\ UNCHANGED <<at, who, todo, instance, up, owner, links, clerkVars>>

Network(c) == (Take(c) \/ processReq(c)) /\ UNCHANGED <<testerVars, clerkVars>>

Retry(c) == TryServer(c) \/ Answered(c) \/ WakeUp(c)

Clerks(c) ==
    \/ MakeClerk(c, Reach)
    \/ \E op \in Args : Invoke(c, op)
    \/ Retry(c)

Next ==
    \/ Tester /\ UNCHANGED clerkVars
    \/ \E c \in Clerk : Clerks(c)
    \/ \E c \in Caller : Network(c)
    \/ \E h \in handlers : Serve(h)
    \/ EndNetwork /\ UNCHANGED <<testerVars, clerkVars>>

Spec == Init /\ [][Next]_vars

(* The scheduler runs the clerks and the goroutines of their calls, and    *)
(* timers go off.  A handler need not return, nor the tester do anything.  *)
Fairness ==
    \A c \in Clerk : WF_vars(Network(Client(c))) /\ WF_vars(Retry(c))

FairSpec == Spec /\ Fairness

-----------------------------------------------------------------------------
(* Every variable has its type; a clerk is always at a server of its list. *)
TypeOK == NetTypeOK /\ TesterTypeOK /\ ClerkTypeOK

(* A positive reply means that the request is in the persister from which  *)
(* the server will be restarted: processReq looks the server up once more  *)
(* before it replies, and ShutdownServer deletes the server before it      *)
(* supersedes the persister.                                               *)
AckedIsSaved ==
    \A c \in Caller : At(c, "replying") /\ call[c].reply = "OK" =>
        call[c].args \in saved[call[c].name]

(* Why: an instance that calls can reach writes to the persister that will *)
(* be read; the tester changes persisters only while the name is free, and *)
(* gives it to an instance that has no calls under way; and ...            *)
TesterInv ==
    /\ \A n \in Name : /\ servers[n] <= instance[n]
                       /\ servers[n] # 0 => owner[n] = servers[n] /\ n \in up
    /\ at \in {"renewing", "adding", "copying", "deleting"} => who \in Name
    /\ at \in {"renewing", "adding", "copying"} => servers[who] = 0
    /\ at = "adding" => owner[who] = instance[who] /\ who \in up
    /\ \A n \in Name : instance[n] \in 1 .. MaxInstance

(* ... a call waits for one handler, which works on the same request at    *)
(* the same instance, and what an instance has answered while calls can    *)
(* reach it is in its persister.                                           *)
Newborn(n, g) == at \in {"renewing", "adding"} /\ n = who /\ g = instance[n]

CallInv ==
    /\ \A h \in handlers :
          /\ h.server <= instance[h.name] /\ ~Newborn(h.name, h.server)
          /\ h.attached => /\ At(h.caller, "waiting")
                           /\ h.name = call[h.caller].name
                           /\ h.server = call[h.caller].server
                           /\ h.args = call[h.caller].args
                           /\ \A g \in handlers : g.attached /\ g.caller = h.caller => g = h
          /\ h.reply = "OK" /\ servers[h.name] = h.server => h.args \in saved[h.name]
    /\ \A c \in Caller :
          /\ ~At(c, "none") => call[c].name \in Name /\ call[c].args \in Args
          /\ call[c].pc \in {"ready", "waiting", "answered"} =>
                /\ call[c].server \in Instance
                /\ call[c].server <= instance[call[c].name]
                /\ ~Newborn(call[c].name, call[c].server)
          /\ At(c, "answered") /\ call[c].reply = "OK" /\ servers[call[c].name] = call[c].server =>
                call[c].args \in saved[call[c].name]

(* The inductive invariant behind AckedIsSaved.                            *)
PersisterInv == TesterInv /\ CallInv

(* Whenever the tester is done with an operation, calls get through        *)
(* between the servers it has connected and no others, and every end of an *)
(* instance that was shut down is cut off, however often servers have been *)
(* restarted and partitions changed.                                       *)
EndsFollowTester ==
    at = "idle" =>
        \A e \in (Name \X Instance) \X Name :
            e \in enabled <=> e[1][2] = instance[e[1][1]] /\ <<e[1][1], e[2]>> \in links

(* The handler of c's call runs for ever, and the server does not stay     *)
(* dead: it is alive and connected again and again.                        *)
Hangs(c) ==
    /\ <>[](/\ At(c, "waiting")
            /\ \E h \in handlers : h.caller = c /\ h.attached /\ h.reply = Nil)
    /\ []<>~isServerDead(c)

(* Call is guaranteed to return unless the handler does not; and also then *)
(* when the server has been deleted, the end disabled, or the network      *)
(* cleaned up before it took the request.                                  *)
CallsReturn == \A c \in Clerk : []<>At(Client(c), "none") \/ Hangs(Client(c))

(* A clerk goes on asking every server, in spite of all errors, until its  *)
(* operation is done or a handler does not return.                         *)
EveryServerTried ==
    \A c \in Clerk, n \in Name :
        \/ []<>(ck[c].pc \in {"unmade", "idle"})
        \/ []<>(call[Client(c)].name = n)
        \/ Hangs(Client(c))

Rpc == INSTANCE RpcPromise WITH
    Place <- Name \X Instance,
    asked <- [c \in Caller |-> call[c].args],
    phase <- [c \in Caller |->
                CASE At(c, "none") -> "none"
                  [] At(c, "answered") \/ At(c, "replying") -> "executed"
                  [] At(c, "abandoned") \/ At(c, "failing") -> "lost"
                  [] OTHER -> IF \E h \in handlers : h.caller = c /\ h.attached /\ h.reply # Nil
                              THEN "executed" ELSE "asked"],
    ok    <- [c \in Caller |-> call[c].ok],
    stray <- {<<h.caller, h.args, <<h.name, h.server>>>> : h \in {g \in handlers : ~g.attached}}

(* The network keeps its promise: no request is executed twice, also when  *)
(* it was given up, and Call returns true only for one that was executed.  *)
ImplementsRpc == Rpc!RpcSpec
=============================================================================
