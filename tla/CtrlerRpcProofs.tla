-------------------------- MODULE CtrlerRpcProofs ---------------------------
(***************************************************************************)
(* The ends of the simulated network follow the tester, and calls over     *)
(* them keep the promise of RpcPromise, for any number of servers, clerks, *)
(* requests and restarts.                                                  *)
(***************************************************************************)
EXTENDS CtrlerServiceProofs

(* The servers of a split are disconnected from the other side and         *)
(* connected to their own.                                                 *)
LEMMA PartitionStep ==
    ASSUME IInv, ListInv, EndsInv, NEW p \in Partitions, partition(p[1], p[2])
    PROVE  ListInv' /\ EndsInv'
  <1>. DEFINE A == Members(p[1])
              B == Members(p[2])
              calls == partitionCalls(p[1], p[2])
  <1>1. /\ at = "idle" /\ at' = "enabling" /\ todo' = calls /\ up = Name
        /\ UNCHANGED <<enabled, connections, done, who, instance, up>>
        /\ links' = (A \X A) \cup (B \X B)
    BY DEF partition, BeginEnabling, Idle, netVars, confVars
  <1>2. p[1] \in Seq(Name) /\ p[2] \in Seq(Name) /\ A \cup B = Name /\ A \cap B = {} /\ Name # {}
    BY Zenon, ConfigAssumption, ListAssumption
  <1>3. /\ calls \in CallList
        /\ \A k \in 1 .. Len(calls) : \E i \in Name :
              \/ i \in A /\ (calls[k] = disconnectUnlocked(i, B) \/ calls[k] = connectUnlocked(i, A))
              \/ i \in B /\ (calls[k] = disconnectUnlocked(i, A) \/ calls[k] = connectUnlocked(i, B))
        /\ \A i \in A : \E k, m \in 1 .. Len(calls) :
              calls[k] = disconnectUnlocked(i, B) /\ calls[m] = connectUnlocked(i, A)
        /\ \A i \in B : \E k, m \in 1 .. Len(calls) :
              calls[k] = disconnectUnlocked(i, A) /\ calls[m] = connectUnlocked(i, B)
    BY Zenon, <1>2, PartitionCalls
  <1>. HIDE DEF A, B, calls
  <1>4. calls # <<>>
    <2>1. PICK i \in Name : i \in A \/ i \in B
      BY <1>2
    <2>2. 1 .. Len(calls) # {}
      BY <1>3, <2>1
    <2>. QED
      BY <2>2
  <1>5. ListInv'
    BY <1>1, <1>2, <1>3, <1>4 DEF ListInv
  <1>6. \A e \in PeerEnd :
           Target(e)' <=> /\ e[1][2] = instance[e[1][1]]
                          /\ (e[1][1] \in A /\ e[2] \in A) \/ (e[1][1] \in B /\ e[2] \in B)
    BY <1>1 DEF Target
  <1>7. CallsAim'
    <2>1. ASSUME NEW k \in 1 .. Len(calls), NEW e \in calls[k].ends
          PROVE  e \in PeerEnd /\ (Target(e)' <=> calls[k].on)
      <3>1. PICK i \in Name :
              \/ i \in A /\ (calls[k] = disconnectUnlocked(i, B) \/ calls[k] = connectUnlocked(i, A))
              \/ i \in B /\ (calls[k] = disconnectUnlocked(i, A) \/ calls[k] = connectUnlocked(i, B))
        BY <1>3
      <3>2. ASSUME NEW S \in SUBSET Name, NEW T \in SUBSET Name, i \in S, S \cap T = {},
                   \A a, b \in Name : (a \in A /\ b \in A) \/ (a \in B /\ b \in B) <=>
                                      (a \in S /\ b \in S) \/ (a \in T /\ b \in T),
                   calls[k] = disconnectUnlocked(i, T) \/ calls[k] = connectUnlocked(i, S)
            PROVE  e \in PeerEnd /\ (Target(e)' <=> calls[k].on)
        <4>1. e \in PeerEnd /\ e[1][1] \in Name /\ e[2] \in Name
          BY <2>1, <3>2, CallOK, EndsOK DEF PeerEnd
        <4>2. CASE calls[k] = disconnectUnlocked(i, T)
          BY <1>6, <2>1, <3>2, <4>1, <4>2, CallOK, EndsOK
        <4>3. CASE calls[k] = connectUnlocked(i, S)
          BY <1>6, <2>1, <3>2, <4>1, <4>3, CallOK, EndsOK
        <4>. QED
          BY <3>2, <4>1, <4>2, <4>3
      <3>3. A \in SUBSET Name /\ B \in SUBSET Name /\ A \cap B = {} /\ B \cap A = {}
        BY <1>2
      <3>4. CASE i \in A /\ (calls[k] = disconnectUnlocked(i, B) \/ calls[k] = connectUnlocked(i, A))
        BY <3>2, <3>3, <3>4
      <3>5. CASE i \in B /\ (calls[k] = disconnectUnlocked(i, A) \/ calls[k] = connectUnlocked(i, B))
        BY <3>2, <3>3, <3>5
      <3>. QED
        BY <3>1, <3>4, <3>5
    <2>. QED
      BY <1>1, <2>1 DEF CallsAim
  <1>8. RestAim'
    <2>1. ASSUME NEW e \in PeerEnd, ~Touched(e)'
          PROVE  e \in enabled' <=> Target(e)'
      <3>0. e[1][1] \in Name /\ e[2] \in Name
        BY DEF PeerEnd
      <3>1. \A k \in 1 .. Len(calls) : e \notin calls[k].ends
        BY <1>1, <2>1 DEF Touched
      <3>2. ASSUME NEW S \in SUBSET Name, NEW T \in SUBSET Name, S \cup T = Name, e[1][1] \in S,
                   \A i \in S : \E k, m \in 1 .. Len(calls) :
                       calls[k] = disconnectUnlocked(i, T) /\ calls[m] = connectUnlocked(i, S)
            PROVE  e[1][2] # instance[e[1][1]]
        <4>1. e \notin Ends(e[1][1], T) /\ e \notin Ends(e[1][1], S)
          BY <3>0, <3>1, <3>2, CallOK
        <4>. QED
          BY <3>0, <3>2, <4>1, EndsOK
      <3>3. e[1][2] # instance[e[1][1]]
        <4>1. A \in SUBSET Name /\ B \in SUBSET Name /\ A \cup B = Name /\ B \cup A = Name
          BY <1>2
        <4>2. CASE e[1][1] \in A
          BY Zenon, <1>3, <3>2, <4>1, <4>2
        <4>3. CASE e[1][1] \in B
          BY Zenon, <1>3, <3>2, <4>1, <4>3
        <4>. QED
          BY <3>0, <4>1, <4>2, <4>3
      <3>. QED
        BY <1>1, <1>6, <3>3, AtRest DEF Target
    <2>. QED
      BY <2>1 DEF RestAim
  <1>9. DownUnlinked'
    BY <1>1 DEF DownUnlinked, Changing
  <1>. QED
    BY <1>5, <1>7, <1>8, <1>9 DEF EndsInv

(* A fresh instance is the target of nothing: its server is not linked.    *)
LEMMA StartStep ==
    ASSUME IInv, ListInv, EndsInv, NEW i \in Name, StartServer(i)
    PROVE  ListInv' /\ EndsInv'
  <1>1. /\ at = "idle" /\ i \notin up /\ at' = "renewing" /\ who' = i
        /\ instance[i] < MaxInstance /\ instance' = [instance EXCEPT ![i] = @ + 1]
        /\ connections' = connections \cup ({<<i, instance'[i]>>} \X Name)
        /\ UNCHANGED <<enabled, done, todo, up, links>>
    BY DEF StartServer, Idle, MakeEnds
  <1>2. instance'[i] \in 1 .. MaxInstance /\ \A j \in Name \ {i} : instance'[j] = instance[j]
    BY <1>1, Parts, ConfigAssumption DEF TesterInv, StoreOK
  <1>3. todo = <<>> /\ \A e \in PeerEnd : e \in enabled <=> Target(e)
    BY <1>1, AtRest
  <1>4. ListInv'
    <2>1. {<<i, instance'[i]>>} \X Name \subseteq End
      BY <1>2, ConfigAssumption DEF End
    <2>. QED
      BY <1>1, <2>1 DEF ListInv
  <1>5. ASSUME NEW e \in PeerEnd
        PROVE  Target(e)' <=> Target(e)
    <2>1. CASE e[1][1] = i
      BY <1>1, <2>1 DEF EndsInv, DownUnlinked, Target
    <2>2. CASE e[1][1] # i
      BY <1>1, <1>2, <2>2 DEF Target, PeerEnd
    <2>. QED
      BY <2>1, <2>2
  <1>6. DownUnlinked'
    BY <1>1 DEF EndsInv, DownUnlinked, Changing
  <1>. QED
    BY <1>1, <1>3, <1>4, <1>5, <1>6, RestStep

(* ShutdownServer isolates the server.                                     *)
LEMMA ShutdownStep ==
    ASSUME IInv, ListInv, EndsInv, NEW i \in Name, ShutdownServer(i)
    PROVE  ListInv' /\ EndsInv'
  <1>1. /\ at = "idle" /\ at' = "deleting" /\ who' = i
        /\ enabled' = enabled \ disconnectUnlocked(i, Name).ends
        /\ links' = {l \in links : i \notin {l[1], l[2]}}
        /\ UNCHANGED <<connections, done, todo, up, instance>>
    <2>1. Enable(disconnectUnlocked(i, Name).ends, disconnectUnlocked(i, Name).on)
      BY DEF ShutdownServer, Apply
    <2>2. enabled' = enabled \ disconnectUnlocked(i, Name).ends
      BY <2>1, CallOK DEF Enable
    <2>. QED
      BY <2>2 DEF ShutdownServer, Idle
  <1>2. enabled' = enabled \ Ends(i, Name)
    BY <1>1, CallOK
  <1>3. todo = <<>> /\ \A e \in PeerEnd : e \in enabled <=> Target(e)
    BY <1>1, AtRest
  <1>4. ListInv'
    BY <1>1, <1>2 DEF ListInv
  <1>5. ASSUME NEW e \in PeerEnd
        PROVE  e \in enabled' <=> Target(e)'
    <2>1. e[1][1] \in Name /\ e[2] \in Name
      BY DEF PeerEnd
    <2>2. Target(e)' <=> Target(e) /\ i # e[1][1] /\ i # e[2]
      BY <1>1 DEF Target
    <2>3. e \in Ends(i, Name) <=> e[1][2] = instance[e[1][1]] /\ (e[1][1] = i \/ e[2] = i)
      BY <2>1, EndsOK
    <2>4. Target(e) => e[1][2] = instance[e[1][1]]
      BY DEF Target
    <2>. QED
      BY <1>2, <1>3, <2>2, <2>3, <2>4
  <1>6. DownUnlinked'
    BY <1>1 DEF EndsInv, DownUnlinked, Changing
  <1>. QED
    BY <1>1, <1>3, <1>4, <1>5, <1>6, RestStep

(* Steps that move the tester on and leave the ends alone.                 *)
LEMMA MoveStep ==
    ASSUME IInv, ListInv, EndsInv,
           RenewPersister \/ AddInstance \/ DeleteInstance \/ CopyPersister \/ CleanupNetwork
    PROVE  ListInv' /\ EndsInv'
  <1>1. /\ at # "enabling" /\ at' # "enabling"
        /\ at' \in {"idle", "adding", "copying"} \cup {at}
        /\ UNCHANGED <<enabled, connections, todo, who, instance, links>>
        /\ done' \in {"open", "closed", "ended"}
    BY DEF RenewPersister, AddInstance, DeleteInstance, CopyPersister, CleanupNetwork, Cleanup,
       Step, Idle, netVars, confVars, testerVars, storeVars, ListInv
  <1>2. ListInv'
    BY <1>1 DEF ListInv
  <1>3. DownUnlinked'
    BY DEF RenewPersister, AddInstance, DeleteInstance, CopyPersister, CleanupNetwork,
       Step, netVars, testerVars, storeVars, EndsInv, DownUnlinked, Changing
  <1>4. todo = <<>> /\ \A e \in PeerEnd : e \in enabled <=> Target(e)
    BY <1>1, AtRest
  <1>. QED
    BY <1>1, <1>2, <1>3, <1>4, RestStep DEF Target

(* The ends of clerks are not those of servers.                            *)
LEMMA ClientStep ==
    ASSUME IInv, ListInv, EndsInv, NEW c \in Clerk,
           \/ makeClient(c, Reach) \/ ConnectClient(c, Reach) \/ DisconnectClient(c, Reach)
    PROVE  ListInv' /\ EndsInv'
  <1>1. /\ at = "idle" /\ UNCHANGED <<at, done, todo, who, instance, up, links>>
        /\ connections' \subseteq connections \cup ({Client(c)} \X Name)
        /\ \/ enabled' = enabled \cup ({Client(c)} \X Reach)
           \/ enabled' = enabled \ ({Client(c)} \X Reach)
    BY DEF makeClient, ConnectClient, DisconnectClient, SwitchClient, Idle, MakeEnds, Enable, testerVars
  <1>2. Client(c) \in Caller /\ Client(c)[2] = 0 /\ 0 \notin Instance /\ Reach \subseteq Name
    BY ConfigAssumption, Numbers DEF Client
  <1>3. ListInv'
    BY <1>1, <1>2 DEF ListInv, End
  <1>4. \A e \in PeerEnd : e \notin {Client(c)} \X Reach
    BY <1>2 DEF PeerEnd
  <1>5. todo = <<>> /\ \A e \in PeerEnd : e \in enabled <=> Target(e)
    BY <1>1, AtRest
  <1>6. \A e \in PeerEnd : e \in enabled' <=> Target(e)'
    BY Zenon, <1>1, <1>4, <1>5 DEF Target
  <1>7. DownUnlinked'
    BY <1>1 DEF EndsInv, DownUnlinked, Changing
  <1>. QED
    BY <1>1, <1>3, <1>5, <1>6, <1>7, RestStep

LEMMA StillEnds ==
    ASSUME ListInv, EndsInv, UNCHANGED <<enabled, connections, at, who, todo, instance, up, links>>,
           done' \in {"open", "closed", "ended"}
    PROVE  ListInv' /\ EndsInv'
  <1>1. ListInv'
    BY DEF ListInv
  <1>2. \A e : (Target(e)' <=> Target(e)) /\ (Touched(e)' <=> Touched(e))
    BY DEF Target, Touched
  <1>. QED
    BY <1>1, <1>2 DEF EndsInv, CallsAim, RestAim, DownUnlinked, Changing

(* A clerk stays within its list of servers.                               *)
LEMMA PositionStep ==
    ASSUME IInv, PositionInv, NEW c \in Clerk, Clerks(c)
    PROVE  PositionInv'
  <1>0. /\ ck \in [Clerk -> ClerkRecord] /\ ck[c] \in ClerkRecord
        /\ handles \in [Clerk -> Seq(Name)] /\ Position(c) /\ Len(handles[c]) \in Nat
    BY Parts DEF ClerkOK, PositionInv, Position
  <1>1. ASSUME NEW r, NEW s, s \in Seq(Name), s # <<>>, ck' = [ck EXCEPT ![c] = r],
               handles' = [handles EXCEPT ![c] = s],
               r.pc # "unmade", r.srv \in Nat \ {0}, r.pc = "asleep" => r.srv = 1,
               r.pc \in {"trying", "calling"} => r.srv <= Len(s)
        PROVE  PositionInv'
    <2>1. /\ handles' \in [Clerk -> Seq(Name)] /\ ck'[c] = r /\ handles'[c] = s
          /\ \A d \in Clerk \ {c} : ck'[d] = ck[d] /\ handles'[d] = handles[d]
      BY <1>0, <1>1
    <2>. QED
      BY <1>1, <2>1 DEF PositionInv, Position
  <1>2. ASSUME NEW r, ck' = [ck EXCEPT ![c] = r], UNCHANGED handles, ck[c].pc # "unmade",
               r.pc # "unmade", r.srv \in Nat \ {0}, r.pc = "asleep" => r.srv = 1,
               r.pc \in {"trying", "calling"} => r.srv <= Len(handles[c])
        PROVE  PositionInv'
    <2>1. handles[c] \in Seq(Name) /\ handles[c] # <<>> /\ handles' = [handles EXCEPT ![c] = handles[c]]
      BY <1>0, <1>2 DEF Position
    <2>. QED
      BY Zenon, <1>1, <1>2, <2>1
  <1>3. CASE MakeClerk(c, Reach)
    <2>1. PICK s \in Orders : handles' = [handles EXCEPT ![c] = s]
      BY Zenon, <1>3 DEF MakeClerk
    <2>2. s \in Seq(Name) /\ s # <<>>
      <3>1. s \in Seq(Name) /\ Members(s) = Name /\ Name # {}
        BY OrderAssumption, ListAssumption
      <3>. QED
        BY <3>1 DEF Members
    <2>. DEFINE r == [ck[c] EXCEPT !.pc = "idle"]
    <2>3. ck' = [ck EXCEPT ![c] = r] /\ r.pc = "idle" /\ r.srv = ck[c].srv
      BY <1>0, <1>3 DEF MakeClerk, ClerkRecord
    <2>. HIDE DEF r
    <2>. QED
      BY Zenon, <1>0, <1>1, <2>1, <2>2, <2>3 DEF Position
  <1>4. ASSUME NEW op \in Args, Invoke(c, op)
        PROVE  PositionInv'
    <2>. DEFINE r == [pc |-> "trying", op |-> op, srv |-> 1]
    <2>1. ck' = [ck EXCEPT ![c] = r] /\ UNCHANGED handles /\ ck[c].pc = "idle" /\ handles[c] # <<>>
      BY <1>0, <1>4 DEF Invoke, Position
    <2>2. Len(handles[c]) >= 1
      BY <1>0, <2>1
    <2>3. r.pc = "trying" /\ r.srv = 1 /\ r.srv \in Nat \ {0} /\ r.srv <= Len(handles[c])
      BY <2>2
    <2>. HIDE DEF r
    <2>. QED
      BY Zenon, <1>2, <2>1, <2>3
  <1>5. CASE TryServer(c) \/ WakeUp(c)
    <2>1. PICK l \in {"trying", "calling"} :
             /\ ck' = [ck EXCEPT ![c] = [ck[c] EXCEPT !.pc = l]] /\ UNCHANGED handles
             /\ \/ ck[c].pc = "trying"
                \/ ck[c].pc = "asleep"
      BY <1>0, <1>5 DEF TryServer, WakeUp
    <2>. DEFINE r == [ck[c] EXCEPT !.pc = l]
    <2>2. r.pc = l /\ r.srv = ck[c].srv
      BY <1>0 DEF ClerkRecord
    <2>3. r.srv \in Nat \ {0} /\ r.srv <= Len(handles[c])
      BY <1>0, <2>1, <2>2 DEF Position
    <2>. HIDE DEF r
    <2>. QED
      BY Zenon, <1>2, <2>1, <2>2, <2>3 DEF r
  <1>6. CASE Answered(c)
    <2>1. PICK r \in {[pc |-> "idle", op |-> Nil, srv |-> 1], NextServer(c)} :
             ck' = [ck EXCEPT ![c] = r] /\ UNCHANGED handles /\ ck[c].pc = "calling"
      BY <1>6 DEF Answered
    <2>5. ck[c].pc # "unmade"
      BY <2>1
    <2>2. CASE r = NextServer(c) /\ ck[c].srv < Len(handles[c])
      <3>1. r = [ck[c] EXCEPT !.pc = "trying", !.srv = @ + 1]
        BY <2>2 DEF NextServer
      <3>2. r.pc = "trying" /\ r.srv = ck[c].srv + 1
        BY <1>0, <3>1 DEF ClerkRecord
      <3>. QED
        <4>1. r.srv \in Nat \ {0} /\ r.srv <= Len(handles[c])
          BY <1>0, <2>2, <3>2 DEF Position
        <4>. QED
          BY Zenon, <1>2, <2>1, <2>5, <3>2, <4>1
    <2>3. CASE r = NextServer(c) /\ ~(ck[c].srv < Len(handles[c]))
      <3>1. r = [ck[c] EXCEPT !.pc = "asleep", !.srv = 1]
        BY <2>3 DEF NextServer
      <3>2. r.pc = "asleep" /\ r.srv = 1 /\ r.srv \in Nat \ {0}
        BY <1>0, <3>1 DEF ClerkRecord
      <3>. QED
        BY Zenon, <1>2, <2>1, <2>5, <3>2
    <2>4. CASE r = [pc |-> "idle", op |-> Nil, srv |-> 1]
      <3>1. r.pc = "idle" /\ r.srv = 1 /\ r.srv \in Nat \ {0}
        BY <2>4
      <3>. QED
        BY Zenon, <1>2, <2>1, <2>5, <3>1
    <2>. QED
      BY <2>1, <2>2, <2>3, <2>4
  <1>. QED
    BY <1>3, <1>4, <1>5, <1>6 DEF Clerks, Retry

-----------------------------------------------------------------------------
(* The strengthening: TypeOK and EndsFollowTester rest on what IInv says   *)
(* of instances, which ends are still to be switched, and list positions.  *)
EndsIInv == IInv /\ ListInv /\ EndsInv /\ PositionInv

LEMMA EndsInit == Init => EndsIInv
  <1>. SUFFICES ASSUME Init PROVE EndsIInv
    OBVIOUS
  <1>1. MakeNetwork /\ make_config /\ ClerkInit
    BY DEF Init
  <1>2. ListInv
    <2>1. Name \X {1} \subseteq Caller
      BY ConfigAssumption
    <2>. QED
      BY <1>1, <2>1 DEF MakeNetwork, make_config, ListInv, CallList, End
  <1>3. EndsInv
    BY <1>1 DEF make_config, EndsInv, CallsAim, RestAim, DownUnlinked, Changing, Touched, Target, PeerEnd
  <1>4. PositionInv
    BY <1>1 DEF ClerkInit, PositionInv, Position
  <1>. QED
    BY <1>2, <1>3, <1>4, InitOK DEF EndsIInv

LEMMA EndsNext == EndsIInv /\ [Next]_vars => EndsIInv'
  <1>. SUFFICES ASSUME IInv, ListInv, EndsInv, PositionInv, [Next]_vars
                PROVE  ListInv' /\ EndsInv' /\ PositionInv'
    BY NextOK DEF EndsIInv
  <1>1. ASSUME UNCHANGED clerkVars PROVE PositionInv'
    BY <1>1 DEF clerkVars, PositionInv, Position
  <1>2. ASSUME UNCHANGED <<enabled, connections, at, who, todo, instance, up, links>>,
               UNCHANGED done \/ EndNetwork
        PROVE  ListInv' /\ EndsInv'
    <2>1. done' \in {"open", "closed", "ended"}
      BY <1>2 DEF ListInv, EndNetwork
    <2>. QED
      BY <1>2, <2>1, StillEnds
  <1>3. CASE Tester /\ UNCHANGED clerkVars
    <2>1. ListInv' /\ EndsInv'
      BY <1>3, EnableStep, MoveStep, ConnectStep, PartitionStep, StartStep, ShutdownStep, ClientStep,
         ConfigAssumption DEF Tester
    <2>. QED
      BY <1>1, <1>3, <2>1
  <1>4. ASSUME NEW c \in Clerk, Clerks(c)
        PROVE  ListInv' /\ EndsInv'
    <2>1. CASE MakeClerk(c, Reach)
      BY <2>1, ClientStep DEF MakeClerk
    <2>2. ASSUME NEW op \in Args, Invoke(c, op)
          PROVE  ListInv' /\ EndsInv'
      BY <1>2, <2>2 DEF Invoke, netVars, confVars, testerVars
    <2>3. CASE Retry(c)
      BY <1>2, <2>3 DEF Retry, TryServer, Answered, WakeUp, Call, returnTrue, returnFalse,
         netVars, confVars, testerVars
    <2>. QED
      BY <1>4, <2>1, <2>2, <2>3 DEF Clerks
  <1>5. ASSUME NEW c \in Caller, Network(c)
        PROVE  ListInv' /\ EndsInv' /\ PositionInv'
    <2>1. UNCHANGED <<confVars, done, testerVars, clerkVars>>
      BY Zenon, <1>5 DEF Network, Take, processReq, readEndnameInfo, dropRequest, Dispatch, receiveReply,
         abandon, decide, Goto
    <2>. QED
      BY <1>1, <1>2, <2>1 DEF confVars, testerVars
  <1>6. ASSUME NEW h \in handlers, Serve(h)
        PROVE  ListInv' /\ EndsInv' /\ PositionInv'
    BY <1>1, <1>2, <1>6 DEF Serve, serverDispatch, confVars
  <1>7. CASE (EndNetwork /\ UNCHANGED <<testerVars, clerkVars>>) \/ UNCHANGED vars
    BY <1>1, <1>2, <1>7 DEF EndNetwork, vars, netVars, confVars, testerVars
  <1>. QED
    BY <1>3, <1>4, <1>5, <1>6, <1>7, PositionStep DEF Next

(* The simulated network, the tester and the clerks keep their types: in   *)
(* particular a clerk never reads past the end of its list of servers.     *)
THEOREM CtrlerTypes == Spec => []TypeOK
  <1>1. EndsIInv => TypeOK
    BY DEF EndsIInv, IInv, StateOK, StoreOK, ClerkOK, ClerkRecord, ListInv, CallList, PositionInv, Position,
       TypeOK, NetTypeOK, TesterTypeOK, ClerkTypeOK
  <1>. QED
    BY <1>1, EndsInit, EndsNext, PTL DEF Spec

(* After each operation of the tester (ConnectAll, partition,              *)
(* ShutdownServer, StartServer), calls get through exactly between the     *)
(* current instances of the servers it has connected, in spite of the      *)
(* Enable calls being made one after the other.                            *)
THEOREM EndsFollow == Spec => []EndsFollowTester
  <1>1. EndsIInv => EndsFollowTester
    <2>. SUFFICES ASSUME EndsIInv, at = "idle"
                  PROVE  \A e \in PeerEnd : e \in enabled <=> Target(e)
      BY DEF EndsFollowTester, Target, PeerEnd
    <2>. QED
      BY AtRest DEF EndsIInv
  <1>. QED
    BY <1>1, EndsInit, EndsNext, PTL DEF Spec

-----------------------------------------------------------------------------
(* The refinement mapping of the instance Rpc, by its parts.               *)
Replied(c) == \E h \in handlers : h.caller = c /\ h.attached /\ h.reply # Nil
Phase(c) ==
    CASE At(c, "none") -> "none"
      [] At(c, "answered") \/ At(c, "replying") -> "executed"
      [] At(c, "abandoned") \/ At(c, "failing") -> "lost"
      [] OTHER -> IF Replied(c) THEN "executed" ELSE "asked"

AskedMap == [c \in Caller |-> call[c].args]
PhaseMap == [c \in Caller |-> Phase(c)]
OkMap    == [c \in Caller |-> call[c].ok]
Triple(h) == <<h.caller, h.args, <<h.name, h.server>>>>
StrayMap == {Triple(h) : h \in {g \in handlers : ~g.attached}}

rpcMap == <<AskedMap, PhaseMap, OkMap, StrayMap>>

(* The handlers left behind by abandon have not answered.                  *)
StrayInv == \A h \in handlers : ~h.attached => h.reply = Nil

LEMMA StrayStep ==
    ASSUME StrayInv, handlers \subseteq HandlerRecord, [Next]_vars
    PROVE  StrayInv'
  <1>1. ASSUME UNCHANGED handlers
        PROVE  StrayInv'
    BY <1>1 DEF StrayInv
  <1>2. ASSUME NEW h \in handlers, Serve(h)
        PROVE  StrayInv'
    <2>1. PICK reply \in {"OK", "WrongLeader"} : serverDispatch(h, reply)
      BY <1>2 DEF Serve
    <2>2. h.attached => [h EXCEPT !.reply = reply].attached
      BY DEF HandlerRecord
    <2>. QED
      BY Zenon, <2>1, <2>2 DEF serverDispatch, StrayInv
  <1>3. ASSUME NEW c \in Caller, Network(c)
        PROVE  StrayInv'
    <2>1. CASE Dispatch(c)
      BY <2>1 DEF Dispatch, Handler, StrayInv
    <2>2. CASE receiveReply(c)
      BY <2>2 DEF receiveReply, StrayInv
    <2>3. CASE abandon(c)
      <3>1. \A h \in handlers : h.reply = Nil => [h EXCEPT !.attached = FALSE].reply = Nil
        BY DEF HandlerRecord
      <3>. QED
        BY Zenon, <2>3, <3>1 DEF abandon, StrayInv
    <2>. QED
      BY <1>1, <1>3, <2>1, <2>2, <2>3 DEF Network, Take, processReq, readEndnameInfo, dropRequest, decide
  <1>4. ASSUME Tester
        PROVE  UNCHANGED handlers
    BY Zenon, <1>4 DEF Tester, EnableNext, RenewPersister, AddInstance, DeleteInstance, CopyPersister, ConnectAll,
       CleanupNetwork, Cleanup, StartServer, partition, ShutdownServer, ConnectClient, DisconnectClient,
       SwitchClient, BeginEnabling, callVars, netVars
  <1>5. ASSUME NEW c \in Clerk, Clerks(c)
        PROVE  UNCHANGED handlers
    BY <1>5 DEF Clerks, MakeClerk, makeClient, Invoke, Retry, TryServer, Call, Answered, returnTrue,
       returnFalse, WakeUp, callVars, netVars
  <1>6. ASSUME EndNetwork \/ UNCHANGED vars
        PROVE  UNCHANGED handlers
    BY <1>6 DEF EndNetwork, callVars, vars, netVars
  <1>. QED
    BY <1>1, <1>2, <1>3, <1>4, <1>5, <1>6 DEF Next

-----------------------------------------------------------------------------
(* What each step of the promise amounts to under the mapping.             *)
LEMMA AskMeans ==
    ASSUME NEW c \in Caller, NEW a \in Args, Phase(c) = "none",
           AskedMap' = [AskedMap EXCEPT ![c] = a], PhaseMap' = [PhaseMap EXCEPT ![c] = "asked"],
           OkMap' = [OkMap EXCEPT ![c] = FALSE], UNCHANGED StrayMap
    PROVE  Rpc!RpcNext
  <1>1. Rpc!Ask(c, a)
    BY DEF Rpc!Ask, AskedMap, PhaseMap, OkMap, StrayMap, Triple, Phase, Replied
  <1>. QED
    BY Zenon, <1>1 DEF Rpc!RpcNext

LEMMA ExecuteMeans ==
    ASSUME NEW c \in Caller, Phase(c) = "asked", PhaseMap' = [PhaseMap EXCEPT ![c] = "executed"],
           UNCHANGED <<AskedMap, OkMap, StrayMap>>
    PROVE  Rpc!RpcNext
  <1>1. Rpc!Execute(c)
    BY DEF Rpc!Execute, AskedMap, PhaseMap, OkMap, StrayMap, Triple, Phase, Replied
  <1>. QED
    BY Zenon, <1>1 DEF Rpc!RpcNext

LEMMA StrayMeans ==
    ASSUME NEW s \in StrayMap, StrayMap' = StrayMap \ {s}, UNCHANGED <<AskedMap, PhaseMap, OkMap>>
    PROVE  Rpc!RpcNext
  <1>1. Rpc!ExecuteStray(s)
    BY DEF Rpc!ExecuteStray, AskedMap, PhaseMap, OkMap, StrayMap, Triple, Phase, Replied
  <1>. QED
    BY Zenon, <1>1 DEF Rpc!RpcNext, StrayMap, Triple

LEMMA LoseMeans ==
    ASSUME NEW c \in Caller, Phase(c) \in {"asked", "executed"},
           PhaseMap' = [PhaseMap EXCEPT ![c] = "lost"],
           \/ UNCHANGED StrayMap
           \/ /\ Phase(c) = "asked"
              /\ \E p \in Name \X Instance : StrayMap' = StrayMap \cup {<<c, AskedMap[c], p>>},
           UNCHANGED <<AskedMap, OkMap>>
    PROVE  Rpc!RpcNext
  <1>1. Rpc!Lose(c)
    BY DEF Rpc!Lose, AskedMap, PhaseMap, OkMap, StrayMap, Triple, Phase, Replied
  <1>. QED
    BY Zenon, <1>1 DEF Rpc!RpcNext

LEMMA ReturnTrueMeans ==
    ASSUME NEW c \in Caller, Phase(c) = "executed",
           AskedMap' = [AskedMap EXCEPT ![c] = Nil], PhaseMap' = [PhaseMap EXCEPT ![c] = "none"],
           OkMap' = [OkMap EXCEPT ![c] = TRUE], UNCHANGED StrayMap
    PROVE  Rpc!RpcNext
  <1>1. Rpc!Return(c, TRUE)
    BY DEF Rpc!Return, AskedMap, PhaseMap, OkMap, StrayMap, Triple, Phase, Replied
  <1>. QED
    BY Zenon, <1>1 DEF Rpc!RpcNext

LEMMA ReturnFalseMeans ==
    ASSUME NEW c \in Caller, Phase(c) \in {"asked", "lost"},
           AskedMap' = [AskedMap EXCEPT ![c] = Nil], PhaseMap' = [PhaseMap EXCEPT ![c] = "none"],
           OkMap' = [OkMap EXCEPT ![c] = FALSE], UNCHANGED StrayMap
    PROVE  Rpc!RpcNext
  <1>1. Rpc!Return(c, FALSE)
    BY DEF Rpc!Return, AskedMap, PhaseMap, OkMap, StrayMap, Triple, Phase, Replied
  <1>. QED
    BY Zenon, <1>1 DEF Rpc!RpcNext

LEMMA StutterMeans ==
    ASSUME UNCHANGED rpcMap
    PROVE  UNCHANGED Rpc!rpcVars
  BY DEF Rpc!rpcVars, rpcMap, AskedMap, PhaseMap, OkMap, StrayMap, Triple, Phase, Replied

-----------------------------------------------------------------------------
(* A step that moves call c and the handlers of c only.                    *)
LEMMA MapStep ==
    ASSUME IInv, NEW c \in Caller, NEW r, call' = [call EXCEPT ![c] = r],
           \A d \in Caller \ {c} : Replied(d)' <=> Replied(d)
    PROVE  /\ AskedMap' = [AskedMap EXCEPT ![c] = r.args]
           /\ OkMap' = [OkMap EXCEPT ![c] = r.ok]
           /\ PhaseMap' = [PhaseMap EXCEPT ![c] = Phase(c)']
           /\ call'[c] = r
  <1>1. \A d \in Caller : call'[d] = IF d = c THEN r ELSE call[d]
    BY Parts
  <1>2. \A d \in Caller \ {c} : Phase(d)' = Phase(d)
    BY <1>1 DEF Phase, At
  <1>3. \A d \in Caller : /\ call'[d].args = IF d = c THEN r.args ELSE call[d].args
                          /\ call'[d].ok = IF d = c THEN r.ok ELSE call[d].ok
    BY <1>1
  <1>4. PhaseMap' = [PhaseMap EXCEPT ![c] = Phase(c)']
    BY Zenon, <1>2 DEF PhaseMap
  <1>5. AskedMap' = [AskedMap EXCEPT ![c] = r.args]
    BY Zenon, <1>3 DEF AskedMap
  <1>6. OkMap' = [OkMap EXCEPT ![c] = r.ok]
    BY Zenon, <1>3 DEF OkMap
  <1>. QED
    BY <1>1, <1>4, <1>5, <1>6

(* The handlers stay: the phase follows from the place of the call alone.  *)
LEMMA PlaceStep ==
    ASSUME IInv, NEW c \in Caller, NEW r, call' = [call EXCEPT ![c] = r], UNCHANGED handlers,
           r.args = call[c].args, r.ok = call[c].ok
    PROVE  /\ UNCHANGED <<AskedMap, OkMap, StrayMap>>
           /\ PhaseMap' = [PhaseMap EXCEPT ![c] = Phase(c)']
           /\ call'[c] = r
  <1>1. \A d \in Caller : Replied(d)' <=> Replied(d)
    BY DEF Replied
  <1>2. /\ AskedMap' = [AskedMap EXCEPT ![c] = r.args]
        /\ OkMap' = [OkMap EXCEPT ![c] = r.ok]
        /\ PhaseMap' = [PhaseMap EXCEPT ![c] = Phase(c)']
        /\ call'[c] = r
    BY Zenon, <1>1, MapStep
  <1>. QED
    BY <1>2 DEF AskedMap, OkMap, StrayMap, Triple

(* A call that is not waiting has no handler that may answer it.           *)
LEMMA NotReplied ==
    ASSUME IInv, NEW c \in Caller, ~At(c, "waiting")
    PROVE  ~Replied(c)
  BY Parts DEF Replied, CallInv

(* Moving call c to another place, by itself, is no step of the promise or *)
(* loses the request.                                                      *)
LEMMA GotoRefines ==
    ASSUME IInv, NEW c \in Caller, NEW r, call' = [call EXCEPT ![c] = r], UNCHANGED handlers,
           r.args = call[c].args, r.ok = call[c].ok, ~At(c, "waiting"),
           Phase(c)' = Phase(c) \/ (Phase(c) \in {"asked", "executed"} /\ Phase(c)' = "lost")
    PROVE  [Rpc!RpcNext]_(Rpc!rpcVars)
  <1>1. /\ UNCHANGED <<AskedMap, OkMap, StrayMap>>
        /\ PhaseMap' = [PhaseMap EXCEPT ![c] = Phase(c)']
    BY Zenon, PlaceStep
  <1>2. CASE Phase(c)' = Phase(c)
    <2>1. UNCHANGED PhaseMap
      BY Zenon, <1>1, <1>2 DEF PhaseMap
    <2>. QED
      BY <1>1, <2>1, StutterMeans DEF rpcMap
  <1>3. CASE Phase(c) \in {"asked", "executed"} /\ Phase(c)' = "lost"
    BY Zenon, <1>1, <1>3, LoseMeans
  <1>. QED
    BY <1>2, <1>3

LEMMA PlacesRefine ==
    ASSUME IInv, NEW c \in Caller,
           Take(c) \/ readEndnameInfo(c) \/ dropRequest(c) \/ decide(c)
    PROVE  [Rpc!RpcNext]_(Rpc!rpcVars)
  <1>0. call[c] \in CallRecord /\ UNCHANGED handlers
    BY Parts DEF Take, readEndnameInfo, dropRequest, decide
  <1>1. PICK r : /\ call' = [call EXCEPT ![c] = r] /\ r.args = call[c].args /\ r.ok = call[c].ok
                 /\ \/ /\ call[c].pc \in {"sending", "taken", "ready"}
                       /\ r.pc \in {"taken", "ready", "failing"}
                    \/ call[c].pc = "answered" /\ r.pc \in {"replying", "failing"}
                    \/ call[c].pc = "abandoned" /\ r.pc = "failing"
    <2>1. ASSUME NEW l \in {"taken", "failing", "replying"}, Goto(c, l)
          PROVE  LET r == [call[c] EXCEPT !.pc = l]
                 IN  /\ call' = [call EXCEPT ![c] = r] /\ r.args = call[c].args /\ r.ok = call[c].ok
                     /\ r.pc = l
      BY <1>0, <2>1 DEF Goto, CallRecord
    <2>2. CASE Take(c)
      BY Zenon, <2>1, <2>2 DEF Take, At
    <2>3. CASE dropRequest(c)
      BY Zenon, <2>1, <2>3 DEF dropRequest, At
    <2>4. CASE decide(c)
      BY Zenon, <2>1, <2>4 DEF decide, At
    <2>5. CASE readEndnameInfo(c) /\ Goto(c, "failing")
      BY Zenon, <2>1, <2>5 DEF readEndnameInfo, At
    <2>6. CASE readEndnameInfo(c) /\ ~Goto(c, "failing")
      <3>. DEFINE r == [call[c] EXCEPT !.pc = "ready", !.server = servers[call[c].name], !.reliable = reliable]
      <3>1. call' = [call EXCEPT ![c] = r]
        BY Zenon, <2>6, Parts DEF readEndnameInfo
      <3>2. r.args = call[c].args /\ r.ok = call[c].ok /\ r.pc = "ready"
        BY <1>0 DEF CallRecord
      <3>. QED
        BY Zenon, <2>6, <3>1, <3>2 DEF readEndnameInfo, At
    <2>. QED
      BY <2>2, <2>3, <2>4, <2>5, <2>6
  <1>2. ~At(c, "waiting") /\ ~Replied(c) /\ ~Replied(c)' /\ call'[c] = r
    BY <1>0, <1>1, NotReplied, Parts DEF At, Replied
  <1>3. Phase(c)' = Phase(c) \/ (Phase(c) \in {"asked", "executed"} /\ Phase(c)' = "lost")
    BY <1>1, <1>2 DEF Phase, At
  <1>. QED
    BY Zenon, <1>0, <1>1, <1>2, <1>3, GotoRefines

(* The handler is started: its request is still to be executed.            *)
LEMMA DispatchRefines ==
    ASSUME IInv, NEW c \in Caller, Dispatch(c)
    PROVE  [Rpc!RpcNext]_(Rpc!rpcVars)
  <1>. DEFINE r == [call[c] EXCEPT !.pc = "waiting"]
  <1>1. /\ call[c] \in CallRecord /\ call[c].pc = "ready" /\ ~Replied(c)
        /\ call' = [call EXCEPT ![c] = r] /\ handlers' = handlers \cup {Handler(c)}
    BY Parts, NotReplied DEF Dispatch, Goto, At
  <1>2. r.args = call[c].args /\ r.ok = call[c].ok /\ r.pc = "waiting"
    BY <1>1 DEF CallRecord
  <1>3. Handler(c).reply = Nil /\ Handler(c).attached
    BY DEF Handler
  <1>. HIDE DEF r
  <1>4. \A d \in Caller : Replied(d)' <=> Replied(d)
    BY <1>1, <1>3 DEF Replied
  <1>5. /\ AskedMap' = [AskedMap EXCEPT ![c] = r.args]
        /\ OkMap' = [OkMap EXCEPT ![c] = r.ok]
        /\ PhaseMap' = [PhaseMap EXCEPT ![c] = Phase(c)']
        /\ call'[c] = r
    BY Zenon, <1>1, <1>4, MapStep
  <1>6. Phase(c)' = Phase(c)
    BY <1>1, <1>2, <1>4, <1>5 DEF Phase, At
  <1>7. UNCHANGED <<AskedMap, OkMap, PhaseMap>>
    BY Zenon, <1>2, <1>5, <1>6 DEF AskedMap, OkMap, PhaseMap
  <1>8. UNCHANGED StrayMap
    <2>1. {g \in handlers' : ~g.attached} = {g \in handlers : ~g.attached}
      BY <1>1, <1>3
    <2>. QED
      BY <2>1 DEF StrayMap, Triple
  <1>. QED
    BY <1>7, <1>8, StutterMeans DEF rpcMap

(* The reply of the one handler of the call is taken.                      *)
LEMMA ReceiveRefines ==
    ASSUME IInv, NEW c \in Caller, receiveReply(c)
    PROVE  [Rpc!RpcNext]_(Rpc!rpcVars)
  <1>1. PICK h \in handlers :
           /\ h.caller = c /\ h.attached /\ h.reply # Nil
           /\ handlers' = handlers \ {h}
           /\ call' = [call EXCEPT ![c].pc = "answered", ![c].reply = h.reply]
    BY Zenon DEF receiveReply
  <1>. DEFINE r == [call[c] EXCEPT !.pc = "answered", !.reply = h.reply]
  <1>2. call[c] \in CallRecord /\ call[c].pc = "waiting" /\ call' = [call EXCEPT ![c] = r]
    BY Zenon, <1>1, Parts DEF receiveReply, At
  <1>3. r.args = call[c].args /\ r.ok = call[c].ok /\ r.pc = "answered"
    BY <1>2 DEF CallRecord
  <1>. HIDE DEF r
  <1>4. ASSUME NEW d \in Caller \ {c}
        PROVE  Replied(d)' <=> Replied(d)
    BY <1>1 DEF Replied
  <1>5. /\ AskedMap' = [AskedMap EXCEPT ![c] = r.args]
        /\ OkMap' = [OkMap EXCEPT ![c] = r.ok]
        /\ PhaseMap' = [PhaseMap EXCEPT ![c] = Phase(c)']
        /\ call'[c] = r
    BY Zenon, <1>2, <1>4, MapStep
  <1>6. Phase(c) = "executed" /\ Phase(c)' = "executed"
    <2>1. Replied(c)
      BY <1>1 DEF Replied
    <2>. QED
      BY <1>2, <1>3, <1>5, <2>1 DEF Phase, At
  <1>7. UNCHANGED <<AskedMap, OkMap, PhaseMap>>
    <2>1. UNCHANGED <<AskedMap, OkMap>>
      BY Zenon, <1>3, <1>5 DEF AskedMap, OkMap
    <2>2. PhaseMap[c] = Phase(c)'
      BY <1>6 DEF PhaseMap
    <2>. QED
      BY Zenon, <1>5, <2>1, <2>2 DEF PhaseMap
  <1>8. UNCHANGED StrayMap
    <2>1. {g \in handlers' : ~g.attached} = {g \in handlers : ~g.attached}
      BY <1>1
    <2>. QED
      BY <2>1 DEF StrayMap, Triple
  <1>. QED
    BY <1>7, <1>8, StutterMeans DEF rpcMap

(* The request is lost, together with the reply if there is one; without   *)
(* one it may still be executed.                                           *)
LEMMA AbandonRefines ==
    ASSUME IInv, NEW c \in Caller, abandon(c)
    PROVE  [Rpc!RpcNext]_(Rpc!rpcVars)
  <1>. DEFINE r == [call[c] EXCEPT !.pc = "abandoned"]
              mine == {h \in handlers : h.caller = c /\ h.attached}
              left == {[h EXCEPT !.attached = FALSE] : h \in {g \in mine : g.reply = Nil}}
              strays == {g \in handlers : ~g.attached}
  <1>1. /\ call[c] \in CallRecord /\ call[c].pc = "waiting"
        /\ call' = [call EXCEPT ![c] = r] /\ handlers' = (handlers \ mine) \cup left
    BY Parts DEF abandon, Goto, At
  <1>2. r.args = call[c].args /\ r.ok = call[c].ok /\ r.pc = "abandoned"
    BY <1>1 DEF CallRecord
  <1>3. \A h \in left : ~h.attached
    BY Parts DEF HandlerRecord
  <1>4. \A h, g \in mine : h = g
    BY Parts DEF CallInv
  <1>. HIDE DEF r
  <1>5. ASSUME NEW d \in Caller \ {c}
        PROVE  Replied(d)' <=> Replied(d)
    BY <1>1, <1>3 DEF Replied
  <1>6. /\ AskedMap' = [AskedMap EXCEPT ![c] = r.args]
        /\ OkMap' = [OkMap EXCEPT ![c] = r.ok]
        /\ PhaseMap' = [PhaseMap EXCEPT ![c] = Phase(c)']
        /\ call'[c] = r
    BY Zenon, <1>1, <1>5, MapStep
  <1>7. /\ UNCHANGED <<AskedMap, OkMap>> /\ PhaseMap' = [PhaseMap EXCEPT ![c] = "lost"]
        /\ Phase(c) \in {"asked", "executed"} /\ AskedMap[c] = call[c].args
    BY Zenon, <1>1, <1>2, <1>6 DEF AskedMap, OkMap, Phase, At
  <1>8. {g \in handlers' : ~g.attached} = strays \cup left
    BY <1>1, <1>3
  <1>9. CASE left = {}
    <2>1. UNCHANGED StrayMap
      BY <1>8, <1>9 DEF StrayMap, Triple
    <2>. QED
      BY Zenon, <1>7, <2>1, LoseMeans
  <1>10. CASE left # {}
    <2>1. PICK h \in mine : h.reply = Nil
      BY <1>10
    <2>. DEFINE g == [h EXCEPT !.attached = FALSE]
                p == <<h.name, h.server>>
    <2>2. left = {g} /\ ~Replied(c)
      BY <1>4, <2>1 DEF Replied
    <2>3. Phase(c) = "asked"
      BY <1>1, <2>2 DEF Phase, At
    <2>4. /\ h \in HandlerRecord /\ g.caller = c /\ g.args = h.args /\ g.name = h.name
          /\ g.server = h.server /\ h.args = call[c].args
      BY Parts DEF HandlerRecord, CallInv
    <2>5. p \in Name \X Instance /\ Triple(g) = <<c, AskedMap[c], p>>
      BY <1>7, <2>4 DEF HandlerRecord, Triple
    <2>6. {g2 \in handlers' : ~g2.attached} = strays \cup {g}
      BY <1>8, <2>2
    <2>. HIDE DEF g, p, strays
    <2>7. StrayMap' = StrayMap \cup {<<c, AskedMap[c], p>>}
      <3>1. StrayMap' = {Triple(x) : x \in strays \cup {g}}
        BY <2>6 DEF StrayMap, Triple
      <3>2. StrayMap = {Triple(x) : x \in strays}
        BY DEF StrayMap, strays
      <3>. QED
        BY <2>5, <3>1, <3>2
    <2>. QED
      BY Zenon, <1>7, <2>3, <2>5, <2>7, LoseMeans
  <1>. QED
    BY <1>9, <1>10

(* A handler that returns has executed the request of its caller, or one   *)
(* that was given up.                                                      *)
LEMMA ServeRefines ==
    ASSUME IInv, StrayInv, NEW h \in handlers, Serve(h)
    PROVE  [Rpc!RpcNext]_(Rpc!rpcVars)
  <1>1. PICK reply \in {"OK", "WrongLeader"} :
           /\ h.reply = Nil /\ UNCHANGED call
           /\ handlers' = (handlers \ {h}) \cup
                          (IF h.attached THEN {[h EXCEPT !.reply = reply]} ELSE {})
    BY DEF Serve, serverDispatch
  <1>2. reply # Nil /\ h \in HandlerRecord
    BY NetworkAssumption, Parts
  <1>3. UNCHANGED <<AskedMap, OkMap>>
    BY <1>1 DEF AskedMap, OkMap
  <1>4. CASE h.attached
    <2>. DEFINE g == [h EXCEPT !.reply = reply]
                c == h.caller
    <2>1. g.caller = c /\ g.attached /\ g.reply = reply /\ c \in Caller
      BY <1>2, <1>4 DEF HandlerRecord
    <2>2. /\ call[c].pc = "waiting" /\ ~Replied(c)
      BY <1>1, <1>4, Parts DEF CallInv, At, Replied
    <2>3. handlers' = (handlers \ {h}) \cup {g}
      BY <1>1, <1>4
    <2>. HIDE DEF g
    <2>4. Replied(c)' /\ \A d \in Caller \ {c} : Replied(d)' <=> Replied(d)
      BY <1>2, <2>1, <2>3 DEF Replied
    <2>5. Phase(c) = "asked" /\ Phase(c)' = "executed"
      BY <1>1, <2>2, <2>4 DEF Phase, At
    <2>6. \A d \in Caller \ {c} : Phase(d)' = Phase(d)
      BY <1>1, <2>4 DEF Phase, At
    <2>7. PhaseMap' = [PhaseMap EXCEPT ![c] = "executed"]
      BY Zenon, <2>1, <2>5, <2>6 DEF PhaseMap
    <2>8. {x \in handlers' : ~x.attached} = {x \in handlers : ~x.attached}
      BY <1>4, <2>1, <2>3
    <2>9. UNCHANGED StrayMap
      BY <2>8 DEF StrayMap, Triple
    <2>. QED
      BY Zenon, <1>3, <2>1, <2>5, <2>7, <2>9, ExecuteMeans
  <1>5. CASE ~h.attached
    <2>1. handlers' = handlers \ {h}
      BY <1>1, <1>5
    <2>2. \A d \in Caller : Replied(d)' <=> Replied(d)
      BY <1>5, <2>1 DEF Replied
    <2>3. UNCHANGED PhaseMap
      BY <1>1, <2>2 DEF PhaseMap, Phase, At
    <2>. DEFINE strays == {x \in handlers : ~x.attached}
    <2>4. {x \in handlers' : ~x.attached} = strays \ {h} /\ h \in strays
      BY <1>5, <2>1
    <2>5. ASSUME NEW x \in strays, Triple(x) = Triple(h)
          PROVE  x = h
      <3>1. x \in HandlerRecord /\ x.reply = Nil /\ ~x.attached
        BY Parts DEF StrayInv
      <3>2. x.caller = h.caller /\ x.args = h.args /\ x.name = h.name /\ x.server = h.server
        BY <2>5 DEF Triple
      <3>. QED
        BY <1>1, <1>2, <1>5, <3>1, <3>2 DEF HandlerRecord
    <2>. HIDE DEF strays
    <2>6. StrayMap' = {Triple(x) : x \in strays \ {h}}
      BY <2>4 DEF StrayMap, Triple
    <2>7. StrayMap = {Triple(x) : x \in strays}
      BY DEF StrayMap, strays
    <2>8. StrayMap' = StrayMap \ {Triple(h)} /\ Triple(h) \in StrayMap
      BY SMTT(30), <2>4, <2>5, <2>6, <2>7
    <2>. QED
      BY <1>3, <2>3, <2>8, StrayMeans
  <1>. QED
    BY <1>4, <1>5

(* A clerk calls a server, and its call returns.                           *)
LEMMA ClerkRefines ==
    ASSUME IInv, NEW c \in Clerk, Clerks(c)
    PROVE  [Rpc!RpcNext]_(Rpc!rpcVars)
  <1>. DEFINE d == Client(c)
  <1>0. d \in Caller /\ NoCall \in CallRecord /\ NoCall.args = Nil /\ NoCall.ok = FALSE
    BY ConfigAssumption DEF Client, NoCall, CallRecord
  <1>1. CASE MakeClerk(c, Reach) \/ (\E op \in Args : Invoke(c, op)) \/ WakeUp(c)
    <2>1. UNCHANGED <<call, handlers>>
      BY <1>1 DEF MakeClerk, makeClient, Invoke, WakeUp, netVars, callVars
    <2>. QED
      BY <2>1, StutterMeans DEF rpcMap, AskedMap, PhaseMap, OkMap, StrayMap, Triple, Phase, At, Replied
  <1>2. ASSUME NEW r, call' = [call EXCEPT ![d] = r], UNCHANGED handlers
        PROVE  /\ AskedMap' = [AskedMap EXCEPT ![d] = r.args]
               /\ OkMap' = [OkMap EXCEPT ![d] = r.ok]
               /\ PhaseMap' = [PhaseMap EXCEPT ![d] = Phase(d)']
               /\ call'[d] = r /\ UNCHANGED StrayMap
    <2>1. \A e \in Caller : Replied(e)' <=> Replied(e)
      BY <1>2 DEF Replied
    <2>2. UNCHANGED StrayMap
      BY <1>2 DEF StrayMap, Triple
    <2>. QED
      BY Zenon, <1>0, <1>2, <2>1, <2>2, MapStep
  <1>3. ~At(d, "waiting") => ~Replied(d) /\ (UNCHANGED handlers => ~Replied(d)')
    BY <1>0, NotReplied DEF Replied
  <1>4. CASE TryServer(c)
    <2>0. ck[c].op \in Args
      BY <1>4, Parts DEF TryServer, ClerkOK
    <2>1. PICK a \in Args : \E n : Call(d, n, a)
      BY Zenon, <1>4, <2>0 DEF TryServer, Call
    <2>5. PICK n : Call(d, n, a)
      BY <2>1
    <2>. DEFINE r == [NoCall EXCEPT !.pc = "sending", !.name = n, !.args = a]
    <2>2. r.args = a /\ r.ok = FALSE /\ r.pc = "sending"
      BY DEF NoCall
    <2>3. At(d, "none") /\ call' = [call EXCEPT ![d] = r] /\ UNCHANGED handlers
      BY <2>5 DEF Call
    <2>. HIDE DEF r, d
    <2>4. Phase(d) = "none" /\ Phase(d)' = "asked"
      BY Zenon, <1>2, <1>3, <2>2, <2>3 DEF Phase, At
    <2>. QED
      BY Zenon, <1>0, <1>2, <2>2, <2>3, <2>4, AskMeans
  <1>5. CASE Answered(c) /\ returnTrue(d)
    <2>. DEFINE r == [NoCall EXCEPT !.ok = TRUE]
    <2>2. r.args = Nil /\ r.ok = TRUE /\ r.pc = "none"
      BY DEF NoCall
    <2>3. At(d, "replying") /\ call' = [call EXCEPT ![d] = r] /\ UNCHANGED handlers
      BY <1>5 DEF returnTrue
    <2>. HIDE DEF r, d
    <2>4. Phase(d) = "executed" /\ Phase(d)' = "none"
      BY Zenon, <1>2, <2>2, <2>3 DEF Phase, At
    <2>. QED
      BY ZenonT(60), <1>0, <1>2, <2>2, <2>3, <2>4, ReturnTrueMeans
  <1>6. CASE Answered(c) /\ returnFalse(d)
    <2>2. /\ At(d, "failing") \/ At(d, "sending")
          /\ call' = [call EXCEPT ![d] = NoCall] /\ UNCHANGED handlers /\ NoCall.pc = "none"
      BY <1>6 DEF returnFalse, NoCall
    <2>. HIDE DEF d
    <2>3. Phase(d) \in {"asked", "lost"} /\ Phase(d)' = "none"
      BY Zenon, <1>2, <1>3, <2>2 DEF Phase, At
    <2>. QED
      BY Zenon, <1>0, <1>2, <2>2, <2>3, ReturnFalseMeans
  <1>. QED
    <2>1. Answered(c) => returnTrue(d) \/ returnFalse(d)
      BY Zenon DEF Answered
    <2>2. \/ MakeClerk(c, Reach) \/ (\E op \in Args : Invoke(c, op)) \/ WakeUp(c)
          \/ TryServer(c) \/ Answered(c)
      BY Zenon DEF Clerks, Retry
    <2>. HIDE DEF d
    <2>. QED
      BY ZenonT(60), <1>1, <1>4, <1>5, <1>6, <2>1, <2>2

(* The network of the shard controller's tests executes no request twice,  *)
(* also when Call gave it up, and Call returns true only for a request     *)
(* that was executed: every step of labrpc.go is one of the promise or     *)
(* does not show.                                                          *)
THEOREM NetworkKeepsPromise == Spec => ImplementsRpc
  <1>1. Init => Rpc!RpcInit /\ StrayInv
    BY DEF Init, MakeNetwork, NoCall, Rpc!RpcInit, At, StrayInv
  <1>2. ASSUME IInv, StrayInv, [Next]_vars
        PROVE  [Rpc!RpcNext]_(Rpc!rpcVars)
    <2>1. ASSUME UNCHANGED <<call, handlers>>
          PROVE  UNCHANGED Rpc!rpcVars
      BY <2>1, StutterMeans DEF rpcMap, AskedMap, PhaseMap, OkMap, StrayMap, Triple, Phase, At, Replied
    <2>2. CASE Tester \/ EndNetwork \/ UNCHANGED vars
      <3>1. UNCHANGED <<call, handlers>>
        BY Zenon, <2>2 DEF Tester, EnableNext, RenewPersister, AddInstance, DeleteInstance, CopyPersister,
           ConnectAll, CleanupNetwork, Cleanup, StartServer, partition, ShutdownServer, ConnectClient,
           DisconnectClient, SwitchClient, BeginEnabling, EndNetwork, callVars, netVars, vars
      <3>. QED
        BY <2>1, <3>1
    <2>3. ASSUME NEW c \in Caller, Network(c)
          PROVE  [Rpc!RpcNext]_(Rpc!rpcVars)
      BY Zenon, <1>2, <2>3, PlacesRefine, DispatchRefines, ReceiveRefines, AbandonRefines
         DEF Network, processReq
    <2>. QED
      BY Zenon, <1>2, <2>2, <2>3, ServeRefines, ClerkRefines DEF Next
  <1>3. IInv /\ StrayInv /\ [Next]_vars => StrayInv'
    BY StrayStep, Parts
  <1>. QED
    BY <1>1, <1>2, <1>3, InitOK, NextOK, PTL DEF Spec, ImplementsRpc, Rpc!RpcSpec
=============================================================================
