------------------------------- MODULE Labrpc -------------------------------
(***************************************************************************)
(* The simulated network (labrpc/labrpc.go): what happens between the      *)
(* moment a goroutine enters ClientEnd.Call and the moment Call returns.   *)
(*                                                                         *)
(* A caller is a goroutine that makes one call at a time, and an end-point *)
(* is named after its caller and the server it is connected to.  A *Server *)
(* is the number of the instance that was added under a name, 0 for nil.   *)
(* The states of a call:                                                   *)
(*                                                                         *)
(*   none       not in Call                                                *)
(*   sending    at the select that hands the request to the network        *)
(*   taken      processReq started, the end not looked up yet              *)
(*   ready      the end leads to a server                                  *)
(*   waiting    the handler runs in a goroutine of its own                 *)
(*   answered   the handler has returned                                   *)
(*   abandoned  the server was found dead, the handler may still run       *)
(*   failing    a negative reply will be delivered                         *)
(*   replying   the handler's reply will be delivered                      *)
(*                                                                         *)
(* Delays (LongDelays, LongReordering and the sleeps of processReq) are    *)
(* the arbitrary time between two steps.                                   *)
(***************************************************************************)
EXTENDS Naturals

CONSTANTS
    Name,      \* server names
    Caller,    \* goroutines that make calls
    Args,      \* requests
    Instance,  \* numbers of server instances
    Nil

ASSUME NetworkAssumption ==
    /\ Instance \subseteq Nat \ {0}
    /\ Nil \notin Name \cup Args \cup {"OK", "WrongLeader"}

VARIABLES
    enabled,      \* the ends that are enabled
    connections,  \* the ends that are connected
    servers,      \* by name, the instance that serves, or 0
    reliable,
    done,         \* "open", "closed", then "ended" with MakeNetwork's goroutine
    call,         \* the call each caller is making
    handlers      \* goroutines that run Server.dispatch, until their reply is taken

callVars == <<call, handlers>>
confVars == <<enabled, connections, servers, reliable>>
netVars  == <<confVars, done, callVars>>

End == Caller \X Name

NoCall == [pc |-> "none", name |-> Nil, args |-> Nil, server |-> 0, reliable |-> TRUE,
           reply |-> Nil, ok |-> FALSE]

(* A network at rest; its ends and servers are up to make_config.          *)
MakeNetwork ==
    /\ done = "open"
    /\ call = [c \in Caller |-> NoCall]
    /\ handlers = {}

At(c, l) == call[c].pc = l
Goto(c, l) == call' = [call EXCEPT ![c].pc = l]

-----------------------------------------------------------------------------
(* The tester's view.                                                      *)
MakeEnds(E) == E \cap connections = {} /\ connections' = connections \cup E

Enable(E, on) == enabled' = IF on THEN enabled \cup E ELSE enabled \ E

AddServer(n, g) == servers' = [servers EXCEPT ![n] = g]
DeleteServer(n) == servers' = [servers EXCEPT ![n] = 0]

Cleanup ==
    /\ done = "open"
    /\ done' = "closed"
    /\ UNCHANGED <<confVars, callVars>>

-----------------------------------------------------------------------------
(* ClientEnd.Call over the end of c that leads to n.                       *)
Call(c, n, a) ==
    /\ At(c, "none")
    /\ <<c, n>> \in connections
    /\ call' = [call EXCEPT ![c] = [NoCall EXCEPT !.pc = "sending", !.name = n, !.args = a]]
    /\ UNCHANGED <<confVars, done, handlers>>

(* The select of Call and the one of MakeNetwork's goroutine, which may    *)
(* still take requests after Cleanup until it chooses to return.           *)
Take(c) ==
    /\ At(c, "sending")
    /\ done # "ended"
    /\ Goto(c, "taken")
    /\ UNCHANGED <<confVars, done, handlers>>

EndNetwork ==
    /\ done = "closed"
    /\ done' = "ended"
    /\ UNCHANGED <<confVars, callVars>>

(* readEndnameInfo, and the branch for an end that leads nowhere.          *)
readEndnameInfo(c) ==
    LET n == call[c].name IN
    /\ At(c, "taken")
    /\ IF <<c, n>> \in enabled /\ <<c, n>> \in connections /\ servers[n] # 0
       THEN call' = [call EXCEPT ![c].pc = "ready", ![c].server = servers[n],
                                 ![c].reliable = reliable]
       ELSE Goto(c, "failing")
    /\ UNCHANGED <<confVars, done, handlers>>

dropRequest(c) ==
    /\ At(c, "ready")
    /\ ~call[c].reliable
    /\ Goto(c, "failing")
    /\ UNCHANGED <<confVars, done, handlers>>

Handler(c) == [caller |-> c, name |-> call[c].name, server |-> call[c].server,
               args |-> call[c].args, attached |-> TRUE, reply |-> Nil]

Dispatch(c) ==
    /\ At(c, "ready")
    /\ Goto(c, "waiting")
    /\ handlers' = handlers \cup {Handler(c)}
    /\ UNCHANGED <<confVars, done>>

(* Server.dispatch and Service.dispatch around the handler, which answers  *)
(* reply; what else it does is up to the service.  The reply of a handler  *)
(* that was abandoned goes to the goroutine that drains its channel.       *)
serverDispatch(h, reply) ==
    /\ h \in handlers
    /\ h.reply = Nil
    /\ handlers' = (handlers \ {h}) \cup
                   (IF h.attached THEN {[h EXCEPT !.reply = reply]} ELSE {})
    /\ UNCHANGED <<confVars, done, call>>

(* processReq receives on ech.                                             *)
receiveReply(c) ==
    /\ At(c, "waiting")
    /\ \E h \in handlers :
          /\ h.caller = c /\ h.attached /\ h.reply # Nil
          /\ handlers' = handlers \ {h}
          /\ call' = [call EXCEPT ![c].pc = "answered", ![c].reply = h.reply]
    /\ UNCHANGED <<confVars, done>>

isServerDead(c) ==
    \/ <<c, call[c].name>> \notin enabled
    \/ servers[call[c].name] # call[c].server

(* The 100 ms timer finds the server dead: the handler is left alone with  *)
(* a goroutine that drains its channel.                                    *)
abandon(c) ==
    LET mine == {h \in handlers : h.caller = c /\ h.attached} IN
    /\ At(c, "waiting")
    /\ isServerDead(c)
    /\ Goto(c, "abandoned")
    /\ handlers' = (handlers \ mine) \cup
                   {[h EXCEPT !.attached = FALSE] : h \in {g \in mine : g.reply = Nil}}
    /\ UNCHANGED <<confVars, done>>

(* Faulty: the server is not looked up again after the handler returned.   *)
decideUnchecked(c) ==
    /\ At(c, "answered") \/ At(c, "abandoned")
    /\ \/ /\ At(c, "answered")
          /\ Goto(c, "replying")
       \/ /\ At(c, "abandoned") \/ ~call[c].reliable
          /\ Goto(c, "failing")
    /\ UNCHANGED <<confVars, done, handlers>>

(* Faulty: a request whose reply was dropped is dispatched again.          *)
decideAgain(c) ==
    /\ At(c, "answered") \/ At(c, "abandoned")
    /\ \/ /\ At(c, "answered") /\ ~isServerDead(c)
          /\ Goto(c, "replying") \/ (~call[c].reliable /\ Goto(c, "ready"))
       \/ /\ At(c, "abandoned") \/ isServerDead(c)
          /\ Goto(c, "failing")
    /\ UNCHANGED <<confVars, done, handlers>>

(* After the loop: the server is looked up once more, and a reply from an  *)
(* unreliable network may be dropped.                                      *)
decide(c) ==
    /\ At(c, "answered") \/ At(c, "abandoned")
    /\ \/ /\ At(c, "answered") /\ ~isServerDead(c)
          /\ Goto(c, "replying")
       \/ /\ At(c, "abandoned") \/ isServerDead(c) \/ ~call[c].reliable
          /\ Goto(c, "failing")
    /\ UNCHANGED <<confVars, done, handlers>>

(* Call returns true: the handler's reply has been delivered ...           *)
returnTrue(c) ==
    /\ At(c, "replying")
    /\ call' = [call EXCEPT ![c] = [NoCall EXCEPT !.ok = TRUE]]
    /\ UNCHANGED <<confVars, done, handlers>>

(* Faulty: a caller whose network is gone waits for somebody to take the   *)
(* request.                                                                *)
returnFalseTaken(c) ==
    /\ At(c, "failing")
    /\ call' = [call EXCEPT ![c] = NoCall]
    /\ UNCHANGED <<confVars, done, handlers>>

(* ... or false: a negative reply, or no network to take the request.      *)
returnFalse(c) ==
    /\ At(c, "failing") \/ (At(c, "sending") /\ done # "open")
    /\ call' = [call EXCEPT ![c] = NoCall]
    /\ UNCHANGED <<confVars, done, handlers>>

processReq(c) ==
    \/ readEndnameInfo(c)
    \/ dropRequest(c)
    \/ Dispatch(c)
    \/ receiveReply(c)
    \/ abandon(c)
    \/ decide(c)

CallRecord == [pc : {"none", "sending", "taken", "ready", "waiting", "answered", "abandoned",
                     "failing", "replying"},
               name : Name \cup {Nil}, args : Args \cup {Nil}, server : Instance \cup {0},
               reliable : BOOLEAN, reply : {"OK", "WrongLeader", Nil}, ok : BOOLEAN]
HandlerRecord == [caller : Caller, name : Name, server : Instance, args : Args,
                  attached : BOOLEAN, reply : {"OK", "WrongLeader", Nil}]

NetTypeOK ==
    /\ enabled \subseteq End /\ connections \subseteq End
    /\ servers \in [Name -> Instance \cup {0}]
    /\ reliable \in BOOLEAN
    /\ done \in {"open", "closed", "ended"}
    /\ call \in [Caller -> CallRecord]
    /\ handlers \subseteq HandlerRecord
=============================================================================
