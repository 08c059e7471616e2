------------------------ MODULE CtrlerServiceProofs -------------------------
(***************************************************************************)
(* Theorems about the simulated network and its tester, for any number of  *)
(* servers, clerks, requests and restarts.  The steps of a call, and of    *)
(* the handler that serves it, come first; the tester and the clerk next.  *)
(***************************************************************************)
EXTENDS CtrlerService, TLAPS

(* The types of what the argument speaks of.                               *)
ClerkRecord == [pc : {"unmade", "idle", "trying", "calling", "asleep"},
                op : Args \cup {Nil}, srv : Nat]

ClerkOK ==
    /\ ck \in [Clerk -> ClerkRecord]
    /\ \A c \in Clerk : ck[c].pc \in {"trying", "calling", "asleep"} => ck[c].op \in Args

StoreOK ==
    /\ servers \in [Name -> Instance \cup {0}]
    /\ instance \in [Name -> Nat]
    /\ up \subseteq Name
    /\ saved \in [Name -> SUBSET Args]
    /\ owner \in [Name -> Nat]
    /\ \A e \in connections : e[2] \in Name
    /\ reliable \in BOOLEAN

StateOK ==
    /\ call \in [Caller -> CallRecord]
    /\ handlers \subseteq HandlerRecord
    /\ StoreOK
    /\ ClerkOK

IInv == StateOK /\ PersisterInv /\ AckedIsSaved

store == <<at, who, servers, instance, up, saved, owner, connections, reliable>>

LEMMA Numbers == /\ Instance \subseteq Nat /\ 0 \notin Instance /\ MaxInstance \in Nat
                 /\ "OK" # Nil /\ Nil \notin Name /\ Nil \notin Args
  BY NetworkAssumption, ConfigAssumption

LEMMA Parts ==
    ASSUME IInv
    PROVE  /\ StateOK /\ StoreOK /\ ClerkOK /\ TesterInv /\ CallInv /\ AckedIsSaved
           /\ call \in [Caller -> CallRecord] /\ handlers \subseteq HandlerRecord
  BY DEF IInv, StateOK, PersisterInv

LEMMA Whole ==
    ASSUME StateOK, TesterInv, CallInv, AckedIsSaved
    PROVE  IInv
  BY DEF IInv, PersisterInv

-----------------------------------------------------------------------------
LEMMA InitOK == Init => IInv
  <1>. SUFFICES ASSUME Init PROVE IInv
    OBVIOUS
  <1>0. MakeNetwork /\ make_config /\ ClerkInit
    BY DEF Init
  <1>1. NoCall \in CallRecord
    BY DEF NoCall, CallRecord
  <1>2. \A c \in Caller : call[c].pc = "none"
    BY <1>0 DEF NoCall, MakeNetwork
  <1>3. ClerkOK
    BY <1>0 DEF ClerkInit, ClerkOK, ClerkRecord
  <1>4. StoreOK
    <2>1. 1 \in Instance
      BY ConfigAssumption
    <2>. QED
      BY <1>0, <2>1 DEF make_config, StoreOK
  <1>5. StateOK
    BY <1>0, <1>1, <1>3, <1>4 DEF StateOK, MakeNetwork
  <1>6. TesterInv
    BY <1>0, ConfigAssumption DEF TesterInv, make_config
  <1>7. CallInv
    BY <1>0, <1>2 DEF CallInv, At, MakeNetwork
  <1>8. AckedIsSaved
    BY <1>2 DEF AckedIsSaved, At
  <1>. QED
    BY <1>5, <1>6, <1>7, <1>8, Whole

(* Nothing that the argument speaks of changes.                            *)
LEMMA StillStep ==
    ASSUME IInv, UNCHANGED <<call, handlers, store>>, ClerkOK'
    PROVE  IInv'
  <1>1. StateOK' /\ TesterInv'
    BY Parts DEF StateOK, StoreOK, TesterInv, store
  <1>2. CallInv' /\ AckedIsSaved'
    BY Parts DEF CallInv, AckedIsSaved, At, Newborn, store
  <1>. QED
    BY <1>1, <1>2 DEF IInv, PersisterInv

-----------------------------------------------------------------------------
(* A step that only moves call c, to a place from where nothing is         *)
(* delivered, or nothing that has not been saved.                          *)
LEMMA CallStep ==
    ASSUME IInv, NEW c \in Caller, NEW r \in CallRecord, call' = [call EXCEPT ![c] = r],
           UNCHANGED <<handlers, store>>, ClerkOK',
           ~At(c, "waiting"), r.pc # "waiting", r.pc # "answered",
           r.pc # "none" => r.name \in Name /\ r.args \in Args,
           r.pc = "ready" => /\ r.server \in Instance /\ r.server <= instance[r.name]
                             /\ ~Newborn(r.name, r.server),
           r.pc = "replying" /\ r.reply = "OK" => r.args \in saved[r.name]
    PROVE  IInv'
  <1>0. /\ \A d \in Caller : d # c => call'[d] = call[d]
        /\ call'[c] = r /\ call' \in [Caller -> CallRecord]
    BY Parts
  <1>1. StateOK' /\ TesterInv'
    BY <1>0, Parts DEF StateOK, StoreOK, TesterInv, store
  <1>2. CallInv'
    <2>1. \A h \in handlers : h.attached => h.caller # c /\ h.caller \in Caller
      BY Parts DEF CallInv, At, HandlerRecord
    <2>. QED
      BY <1>0, <2>1, Parts DEF CallInv, At, Newborn, store
  <1>3. AckedIsSaved'
    BY <1>0, Parts DEF AckedIsSaved, At, store
  <1>. QED
    BY <1>1, <1>2, <1>3 DEF IInv, PersisterInv

(* CallInv, one handler and one caller at a time.                          *)
HandlerPart(h) ==
    /\ h.server <= instance[h.name] /\ ~Newborn(h.name, h.server)
    /\ h.attached => /\ At(h.caller, "waiting")
                     /\ h.name = call[h.caller].name
                     /\ h.server = call[h.caller].server
                     /\ h.args = call[h.caller].args
                     /\ \A g \in handlers : g.attached /\ g.caller = h.caller => g = h
    /\ h.reply = "OK" /\ servers[h.name] = h.server => h.args \in saved[h.name]

CallerPart(c) ==
    /\ ~At(c, "none") => call[c].name \in Name /\ call[c].args \in Args
    /\ call[c].pc \in {"ready", "waiting", "answered"} =>
          /\ call[c].server \in Instance
          /\ call[c].server <= instance[call[c].name]
          /\ ~Newborn(call[c].name, call[c].server)
    /\ At(c, "answered") /\ call[c].reply = "OK" /\ servers[call[c].name] = call[c].server =>
          call[c].args \in saved[call[c].name]

LEMMA CallParts ==
    /\ CallInv => (\A h \in handlers : HandlerPart(h)) /\ \A c \in Caller : CallerPart(c)
    /\ (\A h \in handlers' : HandlerPart(h)') /\ (\A c \in Caller : CallerPart(c)') => CallInv'
  BY Zenon DEF CallInv, HandlerPart, CallerPart

(* What the others do leaves a handler and a caller as they are.           *)
LEMMA PartsKept ==
    ASSUME UNCHANGED <<at, who, instance, servers, saved>>
    PROVE  /\ \A h : HandlerPart(h) /\ (h.attached =>
                  /\ call'[h.caller] = call[h.caller]
                  /\ \A g \in handlers' : g.attached /\ g.caller = h.caller => g = h) => HandlerPart(h)'
           /\ \A c \in Caller : CallerPart(c) /\ call'[c] = call[c] => CallerPart(c)'
  <1>1. ASSUME NEW h, HandlerPart(h),
               h.attached => /\ call'[h.caller] = call[h.caller]
                             /\ \A g \in handlers' : g.attached /\ g.caller = h.caller => g = h
        PROVE  HandlerPart(h)'
    BY ZenonT(60), <1>1 DEF HandlerPart, At, Newborn
  <1>2. ASSUME NEW c \in Caller, CallerPart(c), call'[c] = call[c]
        PROVE  CallerPart(c)'
    BY ZenonT(60), <1>2 DEF CallerPart, At, Newborn
  <1>. QED
    BY Zenon, <1>1, <1>2

(* The request is handed to a goroutine that runs the handler.             *)
LEMMA DispatchStep ==
    ASSUME IInv, NEW c \in Caller, Dispatch(c), UNCHANGED <<store, ck>>
    PROVE  IInv'
  <1>. DEFINE r == [call[c] EXCEPT !.pc = "waiting"]
              g == Handler(c)
  <1>1. /\ call[c] \in CallRecord /\ call[c].pc = "ready"
        /\ call' = [call EXCEPT ![c] = r] /\ handlers' = handlers \cup {g}
    BY Parts DEF Dispatch, Goto, At
  <1>2. /\ r \in CallRecord /\ r.pc = "waiting" /\ r.name = call[c].name
        /\ r.server = call[c].server /\ r.args = call[c].args
    BY <1>1 DEF CallRecord
  <1>3. /\ call[c].name \in Name /\ call[c].args \in Args /\ call[c].server \in Instance
        /\ call[c].server <= instance[call[c].name]
        /\ ~Newborn(call[c].name, call[c].server)
    BY <1>1, Parts DEF CallInv, At
  <1>4. /\ g \in HandlerRecord /\ g.caller = c /\ g.name = r.name /\ g.server = r.server
        /\ g.args = r.args /\ g.reply = Nil
    BY <1>2, <1>3 DEF Handler, HandlerRecord
  <1>. HIDE DEF r, g
  <1>5. /\ \A d \in Caller : d # c => call'[d] = call[d]
        /\ call'[c] = r /\ call' \in [Caller -> CallRecord]
    BY <1>1, <1>2, Parts
  <1>6. StateOK' /\ TesterInv'
    BY <1>1, <1>4, <1>5, Parts DEF StateOK, StoreOK, ClerkOK, TesterInv, store
  <1>7. \A h \in handlers : h.attached => h.caller # c /\ h.caller \in Caller
    BY SMTT(30), <1>1, Parts DEF CallInv, At, HandlerRecord
  <1>8. CallInv'
    <2>0. CallInv /\ UNCHANGED <<at, who, instance, servers, saved>>
      BY Zenon, Parts DEF store
    <2>1. ASSUME NEW h \in handlers
          PROVE  HandlerPart(h)'
      <3>1. HandlerPart(h) /\ (h.attached => h.caller # c /\ call'[h.caller] = call[h.caller])
        BY Zenon, <1>5, <1>7, <2>0, CallParts
      <3>2. ASSUME h.attached, NEW f \in handlers', f.attached, f.caller = h.caller
            PROVE  f = h
        <4>1. f \in handlers \/ f.caller = c
          BY Zenon, <1>1, <1>4
        <4>. QED
          BY Zenon, <3>1, <3>2, <4>1 DEF HandlerPart
      <3>. QED
        BY Zenon, <2>0, <3>1, <3>2, PartsKept
    <2>2. ASSUME NEW h \in handlers', h = g
          PROVE  HandlerPart(h)'
      <3>0. /\ h.caller = c /\ h.name = r.name /\ h.server = r.server
            /\ h.args = r.args /\ h.reply = Nil
        BY Zenon, <1>4, <2>2
      <3>1. h.reply # "OK"
        BY <3>0, Numbers
      <3>2. ~Newborn(h.name, h.server)' /\ h.server <= instance'[h.name]
        BY Zenon, <1>2, <1>3, <2>0, <3>0 DEF Newborn
      <3>3. /\ At(h.caller, "waiting")' /\ h.name = call'[h.caller].name
            /\ h.server = call'[h.caller].server /\ h.args = call'[h.caller].args
        BY Zenon, <1>2, <1>5, <3>0 DEF At
      <3>4. \A f \in handlers' : f.attached /\ f.caller = h.caller => f = h
        BY Zenon, <1>1, <1>7, <2>2, <3>0
      <3>. QED
        BY Zenon, <3>1, <3>2, <3>3, <3>4 DEF HandlerPart
    <2>3. CallerPart(c)'
      <3>1. /\ call'[c].name \in Name /\ call'[c].args \in Args /\ call'[c].server \in Instance
            /\ call'[c].server <= instance'[call'[c].name]
            /\ ~Newborn(call[c].name, call[c].server)'
        BY Zenon, <1>2, <1>3, <1>5, <2>0 DEF Newborn
      <3>2. ~At(c, "answered")'
        BY <1>2, <1>5 DEF At
      <3>. QED
        BY Zenon, <3>1, <3>2 DEF CallerPart
    <2>. QED
      BY ZenonT(60), <1>1, <1>5, <2>0, <2>1, <2>2, <2>3, CallParts, PartsKept
  <1>9. AckedIsSaved'
    BY <1>2, <1>5, Parts DEF AckedIsSaved, At, store
  <1>. QED
    BY <1>6, <1>8, <1>9 DEF IInv, PersisterInv

(* The reply of the handler is received, and that handler is gone.         *)
LEMMA ReceiveStep ==
    ASSUME IInv, NEW c \in Caller, receiveReply(c), UNCHANGED <<store, ck>>
    PROVE  IInv'
  <1>0. PICK g \in handlers : /\ g.caller = c /\ g.attached
                              /\ handlers' = handlers \ {g}
                              /\ call' = [call EXCEPT ![c].pc = "answered", ![c].reply = g.reply]
    BY Zenon DEF receiveReply
  <1>. DEFINE r == [call[c] EXCEPT !.pc = "answered", !.reply = g.reply]
  <1>1. /\ call[c] \in CallRecord /\ call[c].pc = "waiting" /\ g \in HandlerRecord
        /\ call' = [call EXCEPT ![c] = r]
    BY Zenon, <1>0, Parts DEF receiveReply, At
  <1>2. /\ r \in CallRecord /\ r.pc = "answered" /\ r.name = call[c].name /\ r.reply = g.reply
        /\ r.server = call[c].server /\ r.args = call[c].args
    BY ZenonT(30), <1>1 DEF CallRecord, HandlerRecord
  <1>. HIDE DEF r
  <1>3. /\ \A d \in Caller : d # c => call'[d] = call[d]
        /\ call'[c] = r /\ call' \in [Caller -> CallRecord]
    BY <1>1, <1>2, Parts
  <1>4. StateOK' /\ TesterInv'
    BY <1>0, <1>3, Parts DEF StateOK, StoreOK, ClerkOK, TesterInv, store
  <1>5. /\ \A h \in handlers' : h.attached => h.caller # c /\ h.caller \in Caller
        /\ g.name = r.name /\ g.server = r.server /\ g.args = r.args
    BY SMTT(30), <1>0, <1>2, Parts DEF CallInv, HandlerRecord
  <1>6. CallInv'
    <2>0. /\ CallInv /\ handlers' \subseteq handlers
          /\ UNCHANGED <<at, who, instance, servers, saved>>
      BY Zenon, <1>0, Parts DEF store
    <2>1. ASSUME NEW h \in handlers'
          PROVE  /\ h.server <= instance'[h.name] /\ ~Newborn(h.name, h.server)'
                 /\ h.attached => /\ At(h.caller, "waiting")'
                                  /\ h.name = call'[h.caller].name
                                  /\ h.server = call'[h.caller].server
                                  /\ h.args = call'[h.caller].args
                                  /\ \A f \in handlers' : f.attached /\ f.caller = h.caller => f = h
                 /\ h.reply = "OK" /\ servers'[h.name] = h.server => h.args \in saved'[h.name]
      <3>1. h \in handlers
        BY Zenon, <2>0
      <3>2. h.attached => call'[h.caller] = call[h.caller]
        BY Zenon, <1>3, <1>5
      <3>3. /\ h.server <= instance[h.name] /\ ~Newborn(h.name, h.server)
            /\ h.attached => /\ call[h.caller].pc = "waiting"
                             /\ h.name = call[h.caller].name
                             /\ h.server = call[h.caller].server
                             /\ h.args = call[h.caller].args
                             /\ \A f \in handlers : f.attached /\ f.caller = h.caller => f = h
            /\ h.reply = "OK" /\ servers[h.name] = h.server => h.args \in saved[h.name]
        BY Zenon, <2>0, <3>1 DEF CallInv, At
      <3>. QED
        BY ZenonT(60), <2>0, <3>2, <3>3 DEF At, Newborn
    <2>2. ASSUME NEW d \in Caller, d # c
          PROVE  /\ ~At(d, "none")' => call'[d].name \in Name /\ call'[d].args \in Args
                 /\ call'[d].pc \in {"ready", "waiting", "answered"} =>
                       /\ call'[d].server \in Instance
                       /\ call'[d].server <= instance'[call'[d].name]
                       /\ ~Newborn(call[d].name, call[d].server)'
                 /\ At(d, "answered")' /\ call'[d].reply = "OK"
                       /\ servers'[call'[d].name] = call'[d].server =>
                       call'[d].args \in saved'[call'[d].name]
      BY ZenonT(60), <1>3, <2>0, <2>2 DEF CallInv, At, Newborn
    <2>3. /\ call'[c].name \in Name /\ call'[c].args \in Args
          /\ call'[c].server \in Instance
          /\ call'[c].server <= instance'[call'[c].name]
          /\ ~Newborn(call[c].name, call[c].server)'
      <3>1. ~At(c, "none") /\ call[c].pc \in {"ready", "waiting", "answered"}
        BY <1>1 DEF At
      <3>2. /\ call[c].name \in Name /\ call[c].args \in Args
            /\ call[c].server \in Instance
            /\ call[c].server <= instance[call[c].name]
            /\ ~Newborn(call[c].name, call[c].server)
        BY Zenon, <2>0, <3>1 DEF CallInv
      <3>3. /\ call'[c].name = call[c].name /\ call'[c].args = call[c].args
            /\ call'[c].server = call[c].server
        BY Zenon, <1>2, <1>3
      <3>. QED
        BY ZenonT(60), <2>0, <3>2, <3>3 DEF Newborn
    <2>4. call'[c].reply = "OK" /\ servers'[call'[c].name] = call'[c].server =>
              call'[c].args \in saved'[call'[c].name]
      <3>1. g.reply = "OK" /\ servers[g.name] = g.server => g.args \in saved[g.name]
        BY Zenon, <2>0 DEF CallInv
      <3>2. /\ call'[c].reply = g.reply /\ call'[c].name = g.name
            /\ call'[c].server = g.server /\ call'[c].args = g.args
        BY Zenon, <1>2, <1>3, <1>5
      <3>. QED
        BY Zenon, <2>0, <3>1, <3>2
    <2>. QED
      BY ZenonT(60), <2>1, <2>2, <2>3, <2>4 DEF CallInv
  <1>7. AckedIsSaved'
    BY <1>2, <1>3, Parts DEF AckedIsSaved, At, store
  <1>. QED
    BY <1>4, <1>6, <1>7 DEF IInv, PersisterInv

(* The caller gives up; the handler goes on without it.                    *)
LEMMA AbandonStep ==
    ASSUME IInv, NEW c \in Caller, abandon(c), UNCHANGED <<store, ck>>
    PROVE  IInv'
  <1>. DEFINE r == [call[c] EXCEPT !.pc = "abandoned"]
  <1>1. /\ call[c] \in CallRecord /\ call[c].pc = "waiting" /\ call' = [call EXCEPT ![c] = r]
    BY Parts DEF abandon, Goto, At
  <1>2. /\ r \in CallRecord /\ r.pc = "abandoned" /\ r.name = call[c].name
        /\ r.server = call[c].server /\ r.args = call[c].args
    BY <1>1 DEF CallRecord
  <1>. HIDE DEF r
  <1>3. \A h \in handlers' :
            \/ h \in handlers /\ (h.attached => h.caller # c)
            \/ /\ h \in HandlerRecord /\ ~h.attached /\ h.reply = Nil
               /\ \E g \in handlers : h.name = g.name /\ h.server = g.server
    <2>. SUFFICES ASSUME NEW h \in handlers', ~(h \in handlers /\ (h.attached => h.caller # c))
                  PROVE  /\ h \in HandlerRecord /\ ~h.attached /\ h.reply = Nil
                         /\ \E g \in handlers : h.name = g.name /\ h.server = g.server
      OBVIOUS
    <2>1. PICK g \in handlers : h = [g EXCEPT !.attached = FALSE] /\ g.reply = Nil
      BY DEF abandon
    <2>2. g \in HandlerRecord
      BY <2>1, Parts
    <2>. QED
      BY Zenon, <2>1, <2>2 DEF HandlerRecord
  <1>4. /\ \A d \in Caller : d # c => call'[d] = call[d]
        /\ call'[c] = r /\ call' \in [Caller -> CallRecord]
    BY <1>1, <1>2, Parts
  <1>5. StateOK' /\ TesterInv'
    BY <1>3, <1>4, Parts DEF StateOK, StoreOK, ClerkOK, TesterInv, store
  <1>6. CallInv'
    <2>1. \A h \in handlers : h.attached => h.caller \in Caller
      BY Parts DEF HandlerRecord
    <2>. QED
      <3>0. CallInv /\ UNCHANGED <<at, who, instance, servers, saved>>
        BY Zenon, Parts DEF store
      <3>1. ASSUME NEW h \in handlers'
            PROVE  HandlerPart(h)'
        <4>1. CASE h \in handlers /\ (h.attached => h.caller # c)
          <5>1. \A g \in handlers' : g.attached => g \in handlers
            BY Zenon, <1>3
          <5>2. HandlerPart(h) /\ (h.attached => call'[h.caller] = call[h.caller])
            BY Zenon, <1>4, <2>1, <3>0, <4>1, CallParts
          <5>3. h.attached => \A g \in handlers' : g.attached /\ g.caller = h.caller => g = h
            BY Zenon, <5>1, <5>2 DEF HandlerPart
          <5>. QED
            BY Zenon, <3>0, <5>2, <5>3, PartsKept
        <4>2. CASE /\ h \in HandlerRecord /\ ~h.attached /\ h.reply = Nil
                   /\ \E g \in handlers : h.name = g.name /\ h.server = g.server
          <5>1. h.reply # "OK"
            BY Zenon, <4>2, Numbers
          <5>2. h.server <= instance'[h.name] /\ ~Newborn(h.name, h.server)'
            BY Zenon, <3>0, <4>2, CallParts DEF HandlerPart, Newborn
          <5>. QED
            BY Zenon, <4>2, <5>1, <5>2 DEF HandlerPart
        <4>. QED
          BY Zenon, <1>3, <4>1, <4>2
      <3>2. CallerPart(c)'
        <4>1. /\ ~At(c, "none") /\ call'[c].pc \notin {"ready", "waiting", "answered"}
              /\ ~At(c, "answered")'
          BY <1>1, <1>2, <1>4 DEF At
        <4>2. call'[c].name \in Name /\ call'[c].args \in Args
          BY Zenon, <1>2, <1>4, <3>0, <4>1, CallParts DEF CallerPart
        <4>. QED
          BY Zenon, <4>1, <4>2 DEF CallerPart
      <3>. QED
        BY ZenonT(60), <1>4, <3>0, <3>1, <3>2, CallParts, PartsKept
  <1>7. AckedIsSaved'
    BY <1>2, <1>4, Parts DEF AckedIsSaved, At, store
  <1>. QED
    BY <1>5, <1>6, <1>7 DEF IInv, PersisterInv

(* The goroutine of the network that processes the call of c.              *)
LEMMA NetworkStep ==
    ASSUME IInv, NEW c \in Caller, Network(c)
    PROVE  IInv'
  <1>0. /\ UNCHANGED <<store, ck>> /\ call[c] \in CallRecord
        /\ Take(c) \/ processReq(c)
    BY Parts DEF Network, Take, processReq, readEndnameInfo, dropRequest, Dispatch, receiveReply,
                 abandon, decide, confVars, testerVars, clerkVars, store
  <1>1. ClerkOK'
    BY <1>0, Parts DEF ClerkOK
  <1>2. CASE Take(c)
    <2>. DEFINE r == [call[c] EXCEPT !.pc = "taken"]
    <2>1. call' = [call EXCEPT ![c] = r] /\ call[c].pc = "sending" /\ UNCHANGED handlers
      BY <1>0, <1>2, Parts DEF Take, Goto, At
    <2>2. r \in CallRecord /\ r.pc = "taken" /\ r.name = call[c].name /\ r.args = call[c].args
      BY <1>0 DEF CallRecord
    <2>3. call[c].name \in Name /\ call[c].args \in Args
      BY <2>1, Parts DEF CallInv, At
    <2>. HIDE DEF r
    <2>. QED
      BY ZenonT(30), <1>0, <1>1, <2>1, <2>2, <2>3, CallStep DEF At
  <1>3. CASE readEndnameInfo(c)
    <2>. DEFINE n == call[c].name
                ready == [call[c] EXCEPT !.pc = "ready", !.server = servers[n], !.reliable = reliable]
                failing == [call[c] EXCEPT !.pc = "failing"]
    <2>0. call[c].pc = "taken" /\ UNCHANGED handlers /\ n \in Name /\ call[c].args \in Args
      BY <1>3, Parts DEF readEndnameInfo, At, CallInv
    <2>1. \/ call' = [call EXCEPT ![c] = ready] /\ servers[n] # 0
          \/ call' = [call EXCEPT ![c] = failing]
      BY Zenon, <1>0, <1>3, Parts DEF readEndnameInfo, Goto
    <2>2. servers[n] # 0 => /\ servers[n] \in Instance /\ servers[n] <= instance[n]
                            /\ ~Newborn(n, servers[n])
      BY <2>0, Parts DEF StoreOK, TesterInv, Newborn
    <2>3. /\ failing \in CallRecord /\ failing.pc = "failing" /\ failing.name = n
          /\ failing.args = call[c].args
      BY <1>0 DEF CallRecord
    <2>4. ASSUME call' = [call EXCEPT ![c] = ready], servers[n] # 0
          PROVE  IInv'
      <3>1. reliable \in BOOLEAN
        BY Parts DEF StoreOK
      <3>2. /\ ready \in CallRecord /\ ready.pc = "ready" /\ ready.name = n
            /\ ready.args = call[c].args /\ ready.server = servers[n]
        BY ZenonT(30), <1>0, <2>2, <2>4, <3>1 DEF CallRecord
      <3>. HIDE DEF ready
      <3>. QED
        BY Zenon, <1>0, <1>1, <2>0, <2>2, <2>4, <3>2, CallStep DEF At
    <2>. HIDE DEF ready, failing
    <2>. QED
      BY <1>0, <1>1, <2>0, <2>1, <2>3, <2>4, CallStep DEF At
  <1>4. CASE dropRequest(c) \/ decide(c)
    <2>. DEFINE failing == [call[c] EXCEPT !.pc = "failing"]
                replying == [call[c] EXCEPT !.pc = "replying"]
    <2>0. /\ call[c].pc \in {"ready", "answered", "abandoned"} /\ UNCHANGED handlers
          /\ call[c].name \in Name /\ call[c].args \in Args
      BY <1>4, Parts DEF dropRequest, decide, At, CallInv
    <2>1. \/ call' = [call EXCEPT ![c] = failing]
          \/ /\ call' = [call EXCEPT ![c] = replying]
             /\ call[c].pc = "answered" /\ servers[call[c].name] = call[c].server
      BY <1>0, <1>4, Parts DEF dropRequest, decide, Goto, At, isServerDead
    <2>2. /\ failing \in CallRecord /\ failing.pc = "failing" /\ failing.name = call[c].name
          /\ failing.args = call[c].args
      BY <1>0 DEF CallRecord
    <2>3. /\ replying \in CallRecord /\ replying.pc = "replying" /\ replying.name = call[c].name
          /\ replying.args = call[c].args /\ replying.reply = call[c].reply
      BY <1>0 DEF CallRecord
    <2>. HIDE DEF failing, replying
    <2>4. CASE call' = [call EXCEPT ![c] = failing]
      BY Zenon, <1>0, <1>1, <2>0, <2>2, <2>4, CallStep DEF At
    <2>5. ASSUME call' = [call EXCEPT ![c] = replying],
                 call[c].pc = "answered", servers[call[c].name] = call[c].server
          PROVE  IInv'
      <3>1. call[c].reply = "OK" => call[c].args \in saved[call[c].name]
        BY <2>5, Parts DEF CallInv, At
      <3>. QED
        BY ZenonT(30), <1>0, <1>1, <2>0, <2>3, <2>5, <3>1, CallStep DEF At
    <2>. QED
      BY <2>1, <2>4, <2>5
  <1>. QED
    BY <1>0, <1>2, <1>3, <1>4, DispatchStep, ReceiveStep, AbandonStep DEF processReq

(* A handler runs: its server writes to the persister that is read after a *)
(* restart whenever calls can reach it.                                    *)
LEMMA ServeStep ==
    ASSUME IInv, NEW g \in handlers, Serve(g)
    PROVE  IInv'
  <1>0. PICK reply \in {"OK", "WrongLeader"} :
            /\ serverDispatch(g, reply)
            /\ IF reply = "OK" /\ owner[g.name] = g.server
               THEN saved' = [saved EXCEPT ![g.name] = @ \cup {g.args}] ELSE saved' = saved
    BY DEF Serve
  <1>1. /\ UNCHANGED <<call, at, who, servers, instance, up, owner, connections, reliable, ck>>
        /\ g \in HandlerRecord
    BY <1>0, Parts DEF Serve, serverDispatch, confVars, clerkVars
  <1>. DEFINE h1 == [g EXCEPT !.reply = reply]
  <1>2. /\ h1 \in HandlerRecord /\ h1.caller = g.caller /\ h1.name = g.name /\ h1.args = g.args
        /\ h1.server = g.server /\ h1.attached = g.attached /\ h1.reply = reply
    BY <1>1 DEF HandlerRecord
  <1>. HIDE DEF h1
  <1>3. \A h \in handlers' : (h \in handlers /\ h # g) \/ (h = h1 /\ g.attached)
    BY <1>0 DEF serverDispatch, h1
  <1>4. /\ saved' \in [Name -> SUBSET Args]
        /\ \A n \in Name : saved[n] \subseteq saved'[n]
        /\ reply = "OK" /\ owner[g.name] = g.server => g.args \in saved'[g.name]
        /\ g.name \in Name /\ g.args \in Args /\ g.caller \in Caller /\ g.server \in Instance
    <2>1. /\ saved \in [Name -> SUBSET Args]
          /\ g.name \in Name /\ g.args \in Args /\ g.caller \in Caller /\ g.server \in Instance
      BY <1>1, Parts DEF StoreOK, HandlerRecord
    <2>. QED
      BY <1>0, <2>1
  <1>5. StateOK' /\ TesterInv'
    BY <1>1, <1>2, <1>3, <1>4, Parts DEF StateOK, StoreOK, ClerkOK, TesterInv
  <1>6. CallInv'
    <2>1. \A h \in handlers' : /\ h.server <= instance'[h.name] /\ ~Newborn(h.name, h.server)'
                               /\ h.attached => /\ At(h.caller, "waiting")'
                                                /\ h.name = call'[h.caller].name
                                                /\ h.server = call'[h.caller].server
                                                /\ h.args = call'[h.caller].args
      BY <1>1, <1>2, <1>3, Parts DEF CallInv, At, Newborn
    <2>2. \A h, f \in handlers' : h.attached /\ f.attached /\ f.caller = h.caller => f = h
      BY <1>1, <1>2, <1>3, Parts DEF CallInv
    <2>3. \A h \in handlers' : h.reply = "OK" /\ servers'[h.name] = h.server =>
                                   h.args \in saved'[h.name]
      <3>1. servers[g.name] = g.server => owner[g.name] = g.server
        BY <1>4, Numbers, Parts DEF TesterInv
      <3>2. \A h \in handlers : h.name \in Name
        BY SMTT(30), Parts DEF HandlerRecord
      <3>. QED
        BY <1>1, <1>2, <1>3, <1>4, <3>1, <3>2, Parts DEF CallInv
    <2>4. \A c \in Caller :
            /\ ~At(c, "none")' => call'[c].name \in Name /\ call'[c].args \in Args
            /\ call'[c].pc \in {"ready", "waiting", "answered"} =>
                  /\ call'[c].server \in Instance
                  /\ call'[c].server <= instance'[call'[c].name]
                  /\ ~Newborn(call[c].name, call[c].server)'
            /\ At(c, "answered")' /\ call'[c].reply = "OK"
                  /\ servers'[call'[c].name] = call'[c].server =>
                  call'[c].args \in saved'[call'[c].name]
      <3>1. /\ call' = call /\ instance' = instance /\ servers' = servers
            /\ \A n \in Name : saved[n] \subseteq saved'[n]
            /\ CallInv
        BY Zenon, <1>1, <1>4, Parts
      <3>2. \A c \in Caller : (At(c, "none")' <=> At(c, "none")) /\ (At(c, "answered")' <=> At(c, "answered"))
        BY Zenon, <3>1 DEF At
      <3>3. \A n, k : Newborn(n, k)' <=> Newborn(n, k)
        BY Zenon, <1>1 DEF Newborn
      <3>4. \A c \in Caller : At(c, "answered") => ~At(c, "none")
        BY Zenon DEF At
      <3>. QED
        BY ZenonT(60), <3>1, <3>2, <3>3, <3>4 DEF CallInv
    <2>. QED
      BY <1>1, <2>1, <2>2, <2>3, <2>4 DEF CallInv
  <1>7. AckedIsSaved'
    BY <1>1, <1>4, Parts DEF AckedIsSaved, CallInv, At
  <1>. QED
    BY <1>5, <1>6, <1>7 DEF IInv, PersisterInv

-----------------------------------------------------------------------------
(* A step of the tester: it gives a name only to an instance that nobody   *)
(* has called yet, and does not change what is saved.                      *)
LEMMA TesterStep ==
    ASSUME IInv, UNCHANGED <<call, handlers, saved, ck>>, StoreOK', TesterInv',
           \A n \in Name : instance'[n] >= instance[n],
           \A n \in Name, g \in Instance :
               g <= instance[n] /\ ~Newborn(n, g) => ~Newborn(n, g)',
           \A n \in Name : servers'[n] \in {servers[n], 0} \/ Newborn(n, servers'[n])
    PROVE  IInv'
  <1>1. StateOK'
    BY Parts DEF StateOK, ClerkOK
  <1>2. /\ \A h \in handlers : h.name \in Name /\ h.server \in Instance
        /\ instance \in [Name -> Nat] /\ instance' \in [Name -> Nat]
    BY Parts DEF HandlerRecord, StoreOK
  <1>3. ASSUME NEW n \in Name, NEW g \in Instance, g <= instance[n], ~Newborn(n, g)
        PROVE  g <= instance'[n] /\ ~Newborn(n, g)' /\ (servers'[n] = g => servers[n] = g)
    BY <1>2, <1>3, Numbers
  <1>4. /\ \A h \in handlers : h.server <= instance[h.name] /\ ~Newborn(h.name, h.server)
        /\ \A c \in Caller : call[c].pc \in {"ready", "waiting", "answered"} =>
               /\ call[c].name \in Name /\ call[c].server \in Instance
               /\ call[c].server <= instance[call[c].name]
               /\ ~Newborn(call[c].name, call[c].server)
    BY SMTT(30), Parts DEF CallInv, At
  <1>5. CallInv'
    <2>1. ASSUME NEW h \in handlers
          PROVE  /\ h.server <= instance'[h.name] /\ ~Newborn(h.name, h.server)'
                 /\ servers'[h.name] = h.server => servers[h.name] = h.server
      BY <1>2, <1>3, <1>4
    <2>2. ASSUME NEW c \in Caller, call[c].pc \in {"ready", "waiting", "answered"}
          PROVE  /\ call[c].server <= instance'[call[c].name]
                 /\ ~Newborn(call[c].name, call[c].server)'
                 /\ servers'[call[c].name] = call[c].server =>
                        servers[call[c].name] = call[c].server
      <3>1. /\ call[c].name \in Name /\ call[c].server \in Instance
            /\ call[c].server <= instance[call[c].name]
            /\ ~Newborn(call[c].name, call[c].server)
        BY <1>4, <2>2
      <3>2. UNCHANGED call
        OBVIOUS
      <3>. QED
        <4>1. PICK n \in Name, g \in Instance : n = call[c].name /\ g = call[c].server
          BY Zenon, <3>1
        <4>2. g <= instance'[n] /\ ~Newborn(n, g)' /\ (servers'[n] = g => servers[n] = g)
          BY Zenon, <1>3, <3>1, <4>1
        <4>. QED
          BY Zenon, <3>2, <4>1, <4>2 DEF Newborn
    <2>. QED
      <3>1. CallInv /\ UNCHANGED <<call, handlers, saved>>
        BY Zenon, Parts
      <3>2. \A c \in Caller : \A p : At(c, p)' <=> At(c, p)
        BY Zenon DEF At
      <3>3. \A c \in Caller : At(c, "answered") => call[c].pc \in {"ready", "waiting", "answered"}
        BY Zenon DEF At
      <3>4. ASSUME NEW h \in handlers'
            PROVE  /\ h.server <= instance'[h.name] /\ ~Newborn(h.name, h.server)'
                   /\ h.attached => /\ At(h.caller, "waiting")'
                                    /\ h.name = call'[h.caller].name
                                    /\ h.server = call'[h.caller].server
                                    /\ h.args = call'[h.caller].args
                                    /\ \A g \in handlers' : g.attached /\ g.caller = h.caller => g = h
                   /\ h.reply = "OK" /\ servers'[h.name] = h.server => h.args \in saved'[h.name]
        BY Zenon, <2>1, <3>1 DEF CallInv, At
      <3>5. ASSUME NEW c \in Caller
            PROVE  /\ ~At(c, "none")' => call'[c].name \in Name /\ call'[c].args \in Args
                   /\ call'[c].pc \in {"ready", "waiting", "answered"} =>
                         /\ call'[c].server \in Instance
                         /\ call'[c].server <= instance'[call'[c].name]
                         /\ ~Newborn(call[c].name, call[c].server)'
                   /\ At(c, "answered")' /\ call'[c].reply = "OK"
                         /\ servers'[call'[c].name] = call'[c].server =>
                         call'[c].args \in saved'[call'[c].name]
        BY ZenonT(60), <2>2, <3>1, <3>2, <3>3 DEF CallInv, Newborn
      <3>. QED
        BY Zenon, <3>4, <3>5 DEF CallInv
  <1>6. AckedIsSaved'
    BY Parts DEF AckedIsSaved, At
  <1>. QED
    BY <1>1, <1>5, <1>6 DEF IInv, PersisterInv

LEMMA TesterSteps ==
    ASSUME IInv, Tester, UNCHANGED clerkVars
    PROVE  IInv'
  <1>0. UNCHANGED ck /\ ClerkOK' /\ TesterInv /\ StoreOK
    BY Parts DEF clerkVars, ClerkOK
  <1>1. CASE \/ EnableNext \/ ConnectAll \/ CleanupNetwork
             \/ \E p \in Partitions : partition(p[1], p[2])
             \/ \E c \in Clerk : ConnectClient(c, Reach) \/ DisconnectClient(c, Reach)
    <2>1. /\ UNCHANGED <<call, handlers, who, servers, instance, up, saved, owner, connections, reliable>>
          /\ at \in {"idle", "enabling"} /\ at' \in {"idle", "enabling"}
      BY Zenon, <1>1 DEF EnableNext, ConnectAll, BeginEnabling, CleanupNetwork, Cleanup, partition, Idle,
                  ConnectClient, DisconnectClient, SwitchClient, storeVars, testerVars, netVars,
                  confVars, callVars
    <2>2. StoreOK' /\ TesterInv'
      BY <1>0, <2>1 DEF StoreOK, TesterInv
    <2>. QED
      BY <1>0, <2>1, <2>2, TesterStep DEF Newborn, StoreOK
  <1>2. ASSUME NEW i \in Name, StartServer(i)
        PROVE  IInv'
    <2>1. /\ UNCHANGED <<call, handlers, servers, up, saved, owner, reliable>>
          /\ at = "idle" /\ at' = "renewing" /\ who' = i /\ i \notin up
          /\ instance[i] < MaxInstance /\ instance' = [instance EXCEPT ![i] = @ + 1]
          /\ connections' = connections \cup ({<<i, instance'[i]>>} \X Name)
      BY <1>2 DEF StartServer, Idle, MakeEnds, callVars
    <2>2. /\ instance'[i] = instance[i] + 1
          /\ \A n \in Name : n # i => instance'[n] = instance[n]
          /\ \A n \in Name : instance[n] \in Nat
          /\ servers[i] = 0
      BY <1>0, <2>1 DEF StoreOK, TesterInv
    <2>3. StoreOK'
      BY <1>0, <2>1, <2>2 DEF StoreOK
    <2>4. TesterInv'
      BY <1>0, <2>1, <2>2, Numbers DEF TesterInv, StoreOK
    <2>5. \A n \in Name, g \in Instance : g <= instance[n] => ~Newborn(n, g)'
      BY <2>1, <2>2, Numbers DEF Newborn
    <2>. QED
      BY <1>0, <2>1, <2>2, <2>3, <2>4, <2>5, TesterStep
  <1>3. CASE RenewPersister
    <2>1. /\ UNCHANGED <<call, handlers, who, servers, instance, saved, connections, reliable>>
          /\ at = "renewing" /\ at' = "adding" /\ who \in Name /\ servers[who] = 0
          /\ owner' = [owner EXCEPT ![who] = instance[who]] /\ up' = up \cup {who}
      BY <1>0, <1>3 DEF RenewPersister, Step, TesterInv, netVars, confVars, callVars
    <2>2. StoreOK' /\ TesterInv'
      BY <1>0, <2>1 DEF StoreOK, TesterInv
    <2>. QED
      BY SMTT(30), <1>0, <2>1, <2>2, TesterStep DEF Newborn, StoreOK
  <1>4. CASE AddInstance
    <2>1. /\ UNCHANGED <<call, handlers, who, up, owner, instance, saved, connections, reliable>>
          /\ at = "adding" /\ at' = "idle" /\ who \in Name /\ owner[who] = instance[who]
          /\ who \in up /\ servers' = [servers EXCEPT ![who] = instance[who]]
          /\ instance[who] \in Instance
      BY <1>0, <1>4, ConfigAssumption
      DEF AddInstance, Step, AddServer, TesterInv, storeVars, callVars
    <2>2. StoreOK' /\ TesterInv'
      BY <1>0, <2>1 DEF StoreOK, TesterInv
    <2>. QED
      BY <1>0, <2>1, <2>2, TesterStep DEF Newborn, StoreOK
  <1>5. ASSUME NEW i \in MayRestart, ShutdownServer(i)
        PROVE  IInv'
    <2>1. /\ UNCHANGED <<call, handlers, servers, up, owner, instance, saved, connections, reliable>>
          /\ at = "idle" /\ at' = "deleting" /\ who' = i /\ i \in Name
      BY <1>5, ConfigAssumption DEF ShutdownServer, Idle, callVars
    <2>2. StoreOK' /\ TesterInv'
      BY <1>0, <2>1 DEF StoreOK, TesterInv
    <2>. QED
      BY <1>0, <2>1, <2>2, TesterStep DEF Newborn, StoreOK
  <1>6. CASE DeleteInstance
    <2>1. /\ UNCHANGED <<call, handlers, who, up, owner, instance, saved, connections, reliable>>
          /\ at = "deleting" /\ at' = "copying" /\ who \in Name
          /\ servers' = [servers EXCEPT ![who] = 0]
      BY <1>0, <1>6 DEF DeleteInstance, Step, DeleteServer, TesterInv, storeVars, callVars
    <2>2. StoreOK' /\ TesterInv'
      BY <1>0, <2>1, Numbers DEF StoreOK, TesterInv
    <2>. QED
      BY <1>0, <2>1, <2>2, TesterStep DEF Newborn, StoreOK
  <1>7. CASE CopyPersister
    <2>1. /\ UNCHANGED <<call, handlers, who, servers, instance, saved, connections, reliable>>
          /\ at = "copying" /\ at' = "idle" /\ who \in Name /\ servers[who] = 0
          /\ owner' = [owner EXCEPT ![who] = 0] /\ up' = up \ {who}
      BY <1>0, <1>7 DEF CopyPersister, Step, TesterInv, netVars, confVars, callVars
    <2>2. StoreOK' /\ TesterInv'
      BY <1>0, <2>1 DEF StoreOK, TesterInv
    <2>. QED
      BY <1>0, <2>1, <2>2, TesterStep DEF Newborn, StoreOK
  <1>. QED
    BY <1>1, <1>2, <1>3, <1>4, <1>5, <1>6, <1>7 DEF Tester

-----------------------------------------------------------------------------
(* A clerk calls a server of its list, or has its answer.                  *)
LEMMA ClerkStep ==
    ASSUME IInv, NEW c \in Clerk, Clerks(c)
    PROVE  IInv'
  <1>0. /\ ck \in [Clerk -> ClerkRecord]
        /\ \A d \in Clerk : ck[d].pc \in {"trying", "calling", "asleep"} => ck[d].op \in Args
        /\ Client(c) \in Caller /\ call[Client(c)] \in CallRecord
    BY Parts, ConfigAssumption DEF ClerkOK, Client
  <1>1. NoCall \in CallRecord /\ NoCall.pc = "none"
    BY DEF NoCall, CallRecord
  <1>2. CASE MakeClerk(c, Reach)
    <2>1. /\ UNCHANGED <<call, handlers, saved, servers, instance, up, owner, at, who, reliable>>
          /\ connections' = connections \cup ({Client(c)} \X Name)
          /\ ck' = [ck EXCEPT ![c].pc = "idle"]
      BY <1>2 DEF MakeClerk, makeClient, MakeEnds, callVars, testerVars
    <2>2. ClerkOK'
      BY <1>0, <2>1 DEF ClerkOK, ClerkRecord
    <2>3. StateOK' /\ TesterInv'
      BY <2>1, <2>2, Parts DEF StateOK, StoreOK, TesterInv
    <2>4. CallInv' /\ AckedIsSaved'
      BY <2>1, Parts DEF CallInv, AckedIsSaved, At, Newborn
    <2>. QED
      BY <2>3, <2>4 DEF IInv, PersisterInv
  <1>3. ASSUME NEW op \in Args, Invoke(c, op)
        PROVE  IInv'
    <2>1. /\ UNCHANGED <<call, handlers, store>>
          /\ ck' = [ck EXCEPT ![c] = [pc |-> "trying", op |-> op, srv |-> 1]]
      BY <1>3 DEF Invoke, netVars, confVars, callVars, testerVars, store
    <2>2. ClerkOK'
      BY <1>0, <2>1 DEF ClerkOK, ClerkRecord
    <2>. QED
      BY <2>1, <2>2, StillStep
  <1>4. CASE WakeUp(c)
    <2>1. /\ UNCHANGED <<call, handlers, store>>
          /\ ck[c].pc = "asleep" /\ ck' = [ck EXCEPT ![c].pc = "trying"]
      BY <1>4 DEF WakeUp, netVars, confVars, callVars, testerVars, store
    <2>2. ClerkOK'
      BY <1>0, <2>1 DEF ClerkOK, ClerkRecord
    <2>. QED
      BY <2>1, <2>2, StillStep
  <1>5. CASE TryServer(c)
    <2>. DEFINE n == handles[c][ck[c].srv]
                r == [NoCall EXCEPT !.pc = "sending", !.name = n, !.args = ck[c].op]
    <2>1. /\ UNCHANGED <<handlers, store>> /\ At(Client(c), "none")
          /\ ck[c].pc = "trying" /\ ck' = [ck EXCEPT ![c].pc = "calling"]
          /\ <<Client(c), n>> \in connections
          /\ call' = [call EXCEPT ![Client(c)] = r]
      BY <1>5 DEF TryServer, Call, confVars, testerVars, store
    <2>2. n \in Name /\ ck[c].op \in Args
      BY <1>0, <2>1, Parts DEF StoreOK
    <2>3. r \in CallRecord /\ r.pc = "sending" /\ r.name = n /\ r.args = ck[c].op
      BY ZenonT(30), <1>1, <2>2 DEF CallRecord, NoCall
    <2>4. ClerkOK'
      BY <1>0, <2>1 DEF ClerkOK, ClerkRecord
    <2>. HIDE DEF n, r
    <2>. QED
      BY Zenon, <1>0, <2>1, <2>2, <2>3, <2>4, CallStep DEF At
  <1>6. CASE Answered(c)
    <2>. DEFINE r == [NoCall EXCEPT !.ok = TRUE]
    <2>1. /\ UNCHANGED <<handlers, store>> /\ ~At(Client(c), "waiting")
          /\ ck[c].pc = "calling"
          /\ \/ ck' = [ck EXCEPT ![c] = [pc |-> "idle", op |-> Nil, srv |-> 1]]
             \/ ck' = [ck EXCEPT ![c] = NextServer(c)]
          /\ call' = [call EXCEPT ![Client(c)] = r] \/ call' = [call EXCEPT ![Client(c)] = NoCall]
      BY <1>6 DEF Answered, returnTrue, returnFalse, confVars, testerVars, store, At
    <2>2. r \in CallRecord /\ r.pc = "none"
      BY ZenonT(30), <1>1 DEF CallRecord, NoCall
    <2>3. NextServer(c) \in ClerkRecord /\ NextServer(c).op = ck[c].op
      <3>. DEFINE a == [ck[c] EXCEPT !.pc = "trying", !.srv = @ + 1]
                  b == [ck[c] EXCEPT !.pc = "asleep", !.srv = 1]
      <3>1. NextServer(c) = a \/ NextServer(c) = b
        BY Zenon DEF NextServer
      <3>2. ck[c] \in ClerkRecord /\ ck[c].srv + 1 \in Nat
        BY <1>0 DEF ClerkRecord
      <3>3. a \in ClerkRecord /\ a.op = ck[c].op
        BY Zenon, <3>2 DEF ClerkRecord
      <3>4. b \in ClerkRecord /\ b.op = ck[c].op
        BY ZenonT(30), <3>2 DEF ClerkRecord
      <3>. QED
        BY Zenon, <3>1, <3>3, <3>4
    <2>4. ClerkOK'
      BY <1>0, <2>1, <2>3 DEF ClerkOK, ClerkRecord
    <2>. HIDE DEF r
    <2>. QED
      BY <1>0, <1>1, <2>1, <2>2, <2>4, CallStep
  <1>. QED
    BY <1>2, <1>3, <1>4, <1>5, <1>6 DEF Clerks, Retry

LEMMA NextOK == IInv /\ [Next]_vars => IInv'
  <1>. SUFFICES ASSUME IInv, [Next]_vars
                PROVE  IInv'
    OBVIOUS
  <1>1. CASE (EndNetwork /\ UNCHANGED <<testerVars, clerkVars>>) \/ UNCHANGED vars
    <2>1. UNCHANGED <<call, handlers, store, ck>>
      BY <1>1 DEF EndNetwork, vars, netVars, confVars, callVars, testerVars, clerkVars, store
    <2>2. ClerkOK'
      BY <2>1, Parts DEF ClerkOK
    <2>. QED
      BY <2>1, <2>2, StillStep
  <1>. QED
    BY <1>1, TesterSteps, ClerkStep, NetworkStep, ServeStep DEF Next

(* The inductive invariant: names, persisters and calls fit together.      *)
THEOREM PersisterSafe == Spec => []PersisterInv
  <1>1. IInv => PersisterInv
    BY DEF IInv
  <1>. QED
    BY <1>1, InitOK, NextOK, PTL DEF Spec

(* Whatever the tester does to servers and links while calls are under     *)
(* way, and however many servers, clerks and instances there are: a        *)
(* positive reply is only delivered for a request that a restart will      *)
(* find.                                                                   *)
THEOREM AckedSafe == Spec => []AckedIsSaved
  <1>1. IInv => AckedIsSaved
    BY DEF IInv
  <1>. QED
    BY <1>1, InitOK, NextOK, PTL DEF Spec

-----------------------------------------------------------------------------
PeerEnd == (Name \X Instance) \X Name

(* Whether calls over the end are meant to get through.                    *)
Target(e) == e[1][2] = instance[e[1][1]] /\ <<e[1][1], e[2]>> \in links

Touched(e) == \E k \in 1 .. Len(todo) : e \in todo[k].ends

(* The Enable calls that remain all agree with the target, an end that     *)
(* none of them touches has reached it, and a server that is down, or on   *)
(* its way there or back, is linked to nobody.                             *)
CallsAim == \A k \in 1 .. Len(todo) : \A e \in todo[k].ends :
                e \in PeerEnd /\ (Target(e) <=> todo[k].on)
RestAim  == \A e \in PeerEnd : ~Touched(e) => (e \in enabled <=> Target(e))
Changing(n) == at \in {"renewing", "adding", "deleting", "copying"} /\ who = n
DownUnlinked == \A n \in Name : n \notin up \/ Changing(n) =>
                    \A l \in links : n # l[1] /\ n # l[2]

EndsInv == CallsAim /\ RestAim /\ DownUnlinked

(* The types, with what the next step of the tester or clerk relies on.    *)
CallList == Seq([ends : SUBSET End, on : BOOLEAN])
ListInv ==
    /\ enabled \subseteq End /\ connections \subseteq End
    /\ done \in {"open", "closed", "ended"}
    /\ at \in {"idle", "enabling", "renewing", "adding", "deleting", "copying"}
    /\ who \in Name \cup {Nil}
    /\ links \subseteq Name \X Name
    /\ todo \in CallList
    /\ todo # <<>> <=> at = "enabling"

Position(c) ==
    /\ handles[c] \in Seq(Name)
    /\ ck[c].srv \in Nat \ {0}
    /\ ck[c].pc \in {"unmade", "asleep"} => ck[c].srv = 1
    /\ ck[c].pc # "unmade" => handles[c] # <<>>
    /\ ck[c].pc \in {"trying", "calling"} => ck[c].srv <= Len(handles[c])
PositionInv == handles \in [Clerk -> Seq(Name)] /\ \A c \in Clerk : Position(c)

-----------------------------------------------------------------------------
LEMMA PeerOK ==
    ASSUME IInv, NEW i \in Name
    PROVE  Peer(i) \in Name \X Instance /\ Peer(i) \in Caller /\ instance[i] \in Instance
  BY Parts, ConfigAssumption DEF TesterInv, Peer

(* The ends between i and the servers of S, both ways.                     *)
LEMMA EndsOK ==
    ASSUME IInv, NEW i \in Name, NEW S \in SUBSET Name
    PROVE  /\ Ends(i, S) \subseteq End /\ Ends(i, S) \subseteq PeerEnd
           /\ \A e \in PeerEnd :
                 e \in Ends(i, S) <=> /\ e[1][2] = instance[e[1][1]]
                                     /\ \/ e[1][1] = i /\ e[2] \in S
                                        \/ e[1][1] \in S /\ e[2] = i
  <1>1. \A j \in Name : Peer(j) \in Name \X Instance /\ Peer(j) \in Caller /\ Peer(j) = <<j, instance[j]>>
    BY PeerOK DEF Peer
  <1>2. Ends(i, S) \subseteq End /\ Ends(i, S) \subseteq PeerEnd
    BY <1>1 DEF Ends, End, PeerEnd
  <1>3. ASSUME NEW e \in PeerEnd
        PROVE  e \in Ends(i, S) <=> /\ e[1][2] = instance[e[1][1]]
                                   /\ \/ e[1][1] = i /\ e[2] \in S
                                      \/ e[1][1] \in S /\ e[2] = i
    <2>1. PICK a \in Name, g \in Instance, b \in Name : e = <<<<a, g>>, b>>
      BY DEF PeerEnd
    <2>2. e[1][1] = a /\ e[1][2] = g /\ e[2] = b
      BY <2>1
    <2>3. e \in Ends(i, S) <=> \/ <<a, g>> = Peer(i) /\ b \in S
                              \/ \E j \in S : <<a, g>> = Peer(j) /\ b = i
      BY <2>1 DEF Ends
    <2>. QED
      BY <1>1, <2>2, <2>3
  <1>. QED
    BY <1>2, <1>3

LEMMA CallOK ==
    ASSUME IInv, NEW i \in Name, NEW S \in SUBSET Name
    PROVE  /\ connectUnlocked(i, S) \in [ends : SUBSET End, on : BOOLEAN]
           /\ disconnectUnlocked(i, S) \in [ends : SUBSET End, on : BOOLEAN]
           /\ connectUnlocked(i, S).ends = Ends(i, S) /\ connectUnlocked(i, S).on
           /\ disconnectUnlocked(i, S).ends = Ends(i, S) /\ ~disconnectUnlocked(i, S).on
  BY EndsOK DEF connectUnlocked, disconnectUnlocked

(* For each server of a side, a call that separates it from the others and *)
(* one that connects it to its side.                                       *)
LEMMA SidesOK ==
    ASSUME IInv, NEW p \in Seq(Name), NEW q \in Seq(Name)
    PROVE  /\ SideCalls(p, q) \in CallList /\ Len(SideCalls(p, q)) = 2 * Len(p)
           /\ Members(p) \subseteq Name
           /\ \A k \in 1 .. 2 * Len(p) : \E i \in Members(p) :
                 \/ SideCalls(p, q)[k] = disconnectUnlocked(i, Members(q))
                 \/ SideCalls(p, q)[k] = connectUnlocked(i, Members(p))
           /\ \A i \in Members(p) : \E k, m \in 1 .. 2 * Len(p) :
                 /\ SideCalls(p, q)[k] = disconnectUnlocked(i, Members(q))
                 /\ SideCalls(p, q)[m] = connectUnlocked(i, Members(p))
  <1>. DEFINE n == Len(p)
              s == SideCalls(p, q)
  <1>0. n \in Nat /\ Members(p) \subseteq Name /\ Members(q) \subseteq Name
    BY DEF Members
  <1>1. \A k \in 1 .. 2 * n : /\ k % 2 = 1 => (k + 1) \div 2 \in 1 .. n
                              /\ k % 2 # 1 => k \div 2 \in 1 .. n
    BY <1>0
  <1>2. ASSUME NEW k \in 1 .. 2 * n
        PROVE  \E i \in Members(p) : \/ s[k] = disconnectUnlocked(i, Members(q))
                                     \/ s[k] = connectUnlocked(i, Members(p))
    <2>1. s[k] = IF k % 2 = 1 THEN disconnectUnlocked(p[(k + 1) \div 2], Members(q))
                 ELSE connectUnlocked(p[k \div 2], Members(p))
      BY DEF SideCalls
    <2>2. CASE k % 2 = 1
      <3>1. p[(k + 1) \div 2] \in Members(p)
        BY <1>1, <2>2 DEF Members
      <3>. QED
        BY <2>1, <2>2, <3>1
    <2>3. CASE k % 2 # 1
      <3>1. p[k \div 2] \in Members(p)
        BY <1>1, <2>3 DEF Members
      <3>. QED
        BY <2>1, <2>3, <3>1
    <2>. QED
      BY <2>2, <2>3
  <1>3. ASSUME NEW i \in Members(p)
        PROVE  \E k, m \in 1 .. 2 * n : /\ s[k] = disconnectUnlocked(i, Members(q))
                                        /\ s[m] = connectUnlocked(i, Members(p))
    <2>1. PICK j \in 1 .. n : i = p[j]
      BY DEF Members
    <2>2. /\ 2 * j - 1 \in 1 .. 2 * n /\ (2 * j - 1) % 2 = 1 /\ ((2 * j - 1) + 1) \div 2 = j
          /\ 2 * j \in 1 .. 2 * n /\ (2 * j) % 2 # 1 /\ (2 * j) \div 2 = j
      BY <1>0
    <2>3. /\ s[2 * j - 1] = disconnectUnlocked(i, Members(q))
          /\ s[2 * j] = connectUnlocked(i, Members(p))
      BY <2>1, <2>2 DEF SideCalls
    <2>. QED
      BY <2>2, <2>3
  <1>4. s \in CallList /\ Len(s) = 2 * n
    <2>1. \A k \in 1 .. 2 * n : s[k] \in [ends : SUBSET End, on : BOOLEAN]
      BY <1>0, <1>2, CallOK
    <2>2. s = [k \in 1 .. 2 * n |-> s[k]]
      BY DEF SideCalls
    <2>. HIDE DEF s
    <2>. QED
      BY <1>0, <2>1, <2>2 DEF CallList
  <1>. QED
    BY <1>0, <1>2, <1>3, <1>4

-----------------------------------------------------------------------------
LEMMA HeadTail ==
    ASSUME NEW S, NEW s \in Seq(S), s # <<>>
    PROVE  /\ Head(s) = s[1] /\ s[1] \in S /\ Tail(s) \in Seq(S)
           /\ Len(s) \in Nat \ {0} /\ Len(Tail(s)) = Len(s) - 1
           /\ \A k \in 1 .. Len(Tail(s)) : Tail(s)[k] = s[k + 1]
  OBVIOUS

(* One call is made: its ends reach the target, the others wait.           *)
LEMMA EnableStep ==
    ASSUME IInv, ListInv, EndsInv, EnableNext
    PROVE  ListInv' /\ EndsInv'
  <1>. DEFINE x == Head(todo)
  <1>1. /\ todo \in CallList /\ todo # <<>> /\ x = todo[1] /\ x \in [ends : SUBSET End, on : BOOLEAN]
        /\ todo' = Tail(todo) /\ todo' \in CallList /\ Len(todo') = Len(todo) - 1
        /\ \A k \in 1 .. Len(todo') : todo'[k] = todo[k + 1]
        /\ Len(todo) \in Nat \ {0}
    <2>1. todo \in CallList /\ todo # <<>> /\ todo' = Tail(todo)
      BY DEF EnableNext, ListInv
    <2>. DEFINE R == [ends : SUBSET End, on : BOOLEAN]
    <2>2. todo \in Seq(R) /\ CallList = Seq(R)
      BY <2>1 DEF CallList
    <2>. HIDE DEF R
    <2>3. x = todo[1] /\ todo[1] \in R /\ Tail(todo) \in Seq(R)
      BY <2>1, <2>2, HeadTail
    <2>. QED
      BY <2>1, <2>2, <2>3, HeadTail DEF R
  <1>2. /\ enabled' = IF x.on THEN enabled \cup x.ends ELSE enabled \ x.ends
        /\ UNCHANGED <<connections, done, who, instance, up, links>>
        /\ at = "enabling" /\ at' = IF todo' = <<>> THEN "idle" ELSE "enabling"
    BY DEF EnableNext, Apply, Enable, storeVars
  <1>. HIDE DEF x
  <1>3. ListInv'
    BY <1>1, <1>2 DEF ListInv
  <1>4. CallsAim'
    <2>1. ASSUME NEW k \in 1 .. Len(todo'), NEW e \in todo'[k].ends
          PROVE  e \in PeerEnd /\ (Target(e)' <=> todo'[k].on)
      <3>1. k + 1 \in 1 .. Len(todo) /\ todo'[k] = todo[k + 1]
        BY <1>1
      <3>2. e \in PeerEnd /\ (Target(e) <=> todo[k + 1].on)
        BY <2>1, <3>1 DEF EndsInv, CallsAim
      <3>. QED
        BY <1>2, <3>1, <3>2 DEF Target
    <2>. QED
      BY <2>1 DEF CallsAim
  <1>5. RestAim'
    <2>1. ASSUME NEW e \in PeerEnd, ~Touched(e)'
          PROVE  e \in enabled' <=> Target(e)'
      <3>1. Target(e)' <=> Target(e)
        BY <1>2 DEF Target
      <3>2. CASE e \in x.ends
        <4>1. Target(e) <=> x.on
          BY <1>1, <3>2 DEF EndsInv, CallsAim
        <4>. QED
          BY <1>2, <3>1, <3>2, <4>1
      <3>3. CASE e \notin x.ends
        <4>1. ASSUME NEW k \in 1 .. Len(todo)
              PROVE  e \notin todo[k].ends
          <5>1. CASE k = 1
            BY <1>1, <3>3, <5>1
          <5>2. CASE k # 1
            <6>1. k - 1 \in 1 .. Len(todo') /\ todo'[k - 1] = todo[k]
              BY <1>1, <5>2
            <6>. QED
              BY <2>1, <6>1 DEF Touched
          <5>. QED
            BY <5>1, <5>2
        <4>2. e \in enabled <=> Target(e)
          BY <4>1 DEF EndsInv, RestAim, Touched
        <4>. QED
          BY <1>2, <3>1, <3>3, <4>2
      <3>. QED
        BY <3>2, <3>3
    <2>. QED
      BY <2>1 DEF RestAim
  <1>6. DownUnlinked'
    BY <1>2 DEF EndsInv, DownUnlinked, Changing
  <1>. QED
    BY <1>3, <1>4, <1>5, <1>6 DEF EndsInv

(* A step after which no Enable calls remain.                              *)
LEMMA RestStep ==
    ASSUME todo' = <<>>,
           \A e \in PeerEnd : e \in enabled' <=> Target(e)',
           DownUnlinked'
    PROVE  EndsInv'
  BY DEF EndsInv, CallsAim, RestAim, Touched

(* Outside of a list of Enable calls every end is where it is meant to be. *)
LEMMA AtRest ==
    ASSUME ListInv, EndsInv, at # "enabling"
    PROVE  todo = <<>> /\ \A e \in PeerEnd : e \in enabled <=> Target(e)
  BY DEF ListInv, EndsInv, RestAim, Touched

LEMMA ConnectStep ==
    ASSUME IInv, ListInv, EndsInv, ConnectAll
    PROVE  ListInv' /\ EndsInv'
  <1>. DEFINE n == Len(All)
  <1>1. /\ at = "idle" /\ at' = "enabling" /\ todo' = ConnectAllCalls /\ up = Name
        /\ UNCHANGED <<enabled, connections, done, who, instance, up>> /\ links' = Name \X Name
    BY DEF ConnectAll, BeginEnabling, Idle, netVars, confVars
  <1>2. All \in Seq(Name) /\ n \in Nat \ {0} /\ Members(All) = Name
    <2>1. All \in Seq(Name) /\ n \in Nat /\ Members(All) = Name /\ Name # {}
      BY ConfigAssumption, ListAssumption
    <2>. QED
      BY <2>1 DEF Members
  <1>3. \A k \in 1 .. n : /\ ConnectAllCalls[k] = connectUnlocked(All[k], Name)
                          /\ All[k] \in Name
    BY <1>2 DEF ConnectAllCalls
  <1>4. ConnectAllCalls \in CallList /\ Len(ConnectAllCalls) = n
    <2>1. \A k \in 1 .. n : ConnectAllCalls[k] \in [ends : SUBSET End, on : BOOLEAN]
      BY <1>3, CallOK
    <2>2. ConnectAllCalls = [k \in 1 .. n |-> ConnectAllCalls[k]]
      BY DEF ConnectAllCalls
    <2>. QED
      BY <1>2, <2>1, <2>2 DEF CallList
  <1>5. ListInv'
    BY <1>1, <1>2, <1>4 DEF ListInv
  <1>6. \A e \in PeerEnd : Target(e)' <=> e[1][2] = instance[e[1][1]]
    BY <1>1 DEF Target, PeerEnd
  <1>7. CallsAim'
    <2>1. ASSUME NEW k \in 1 .. n, NEW e \in ConnectAllCalls[k].ends
          PROVE  e \in PeerEnd /\ (Target(e)' <=> ConnectAllCalls[k].on)
      <3>1. e \in Ends(All[k], Name) /\ ConnectAllCalls[k].on /\ All[k] \in Name
        BY <1>3, <2>1, CallOK
      <3>2. e \in PeerEnd /\ e[1][2] = instance[e[1][1]]
        BY <3>1, EndsOK
      <3>. QED
        BY <1>6, <3>1, <3>2
    <2>. QED
      BY <1>1, <1>4, <2>1 DEF CallsAim
  <1>8. RestAim'
    <2>1. ASSUME NEW e \in PeerEnd, ~Touched(e)'
          PROVE  e \in enabled' <=> Target(e)'
      <3>1. e[1][2] # instance[e[1][1]]
        <4>1. PICK k \in 1 .. n : e[1][1] = All[k]
          BY SMTT(30), <1>2 DEF PeerEnd, Members
        <4>2. e \notin Ends(All[k], Name)
          <5>1. e \notin ConnectAllCalls[k].ends
            BY <1>1, <1>4, <2>1 DEF Touched
          <5>2. All[k] \in Name /\ Name \in SUBSET Name
            BY Zenon, <1>3
          <5>3. connectUnlocked(All[k], Name).ends = Ends(All[k], Name)
            BY Zenon, <5>2, CallOK
          <5>. QED
            BY Zenon, <1>3, <5>1, <5>3
        <4>. QED
          BY <1>2, <4>1, <4>2, EndsOK DEF PeerEnd
      <3>. QED
        BY <1>1, <1>6, <3>1, AtRest DEF Target
    <2>. QED
      BY <2>1 DEF RestAim
  <1>9. DownUnlinked'
    BY <1>1 DEF DownUnlinked, Changing
  <1>. QED
    BY <1>5, <1>7, <1>8, <1>9 DEF EndsInv

LEMMA Concat ==
    ASSUME NEW S, NEW s \in Seq(S), NEW t \in Seq(S)
    PROVE  /\ s \o t \in Seq(S) /\ Len(s) \in Nat /\ Len(t) \in Nat /\ Len(s \o t) = Len(s) + Len(t)
           /\ \A k \in 1 .. Len(s) : (s \o t)[k] = s[k]
           /\ \A k \in 1 .. Len(t) : (s \o t)[Len(s) + k] = t[k]
  <1>1. s \o t \in Seq(S) /\ Len(s) \in Nat /\ Len(t) \in Nat
    OBVIOUS
  <1>2. Len(s \o t) = Len(s) + Len(t)
    OBVIOUS
  <1>3. \A k \in 1 .. Len(s) : (s \o t)[k] = s[k]
    OBVIOUS
  <1>4. \A k \in 1 .. Len(t) : (s \o t)[Len(s) + k] = t[k]
    OBVIOUS
  <1>. QED
    BY Zenon, <1>1, <1>2, <1>3, <1>4

(* The calls of partition, in the order of their making, by their kind.    *)
LEMMA PartitionCalls ==
    ASSUME IInv, NEW p1 \in Seq(Name), NEW p2 \in Seq(Name)
    PROVE  LET calls == partitionCalls(p1, p2)
               A == Members(p1)
               B == Members(p2)
               Of(x, i, mine, other) ==
                   i \in mine /\ (x = disconnectUnlocked(i, other) \/ x = connectUnlocked(i, mine))
           IN  /\ calls \in CallList /\ Len(calls) = 2 * Len(p1) + 2 * Len(p2)
               /\ \A k \in 1 .. Len(calls) : \E i \in Name : Of(calls[k], i, A, B) \/ Of(calls[k], i, B, A)
               /\ \A i \in A : \E k, m \in 1 .. Len(calls) :
                     calls[k] = disconnectUnlocked(i, B) /\ calls[m] = connectUnlocked(i, A)
               /\ \A i \in B : \E k, m \in 1 .. Len(calls) :
                     calls[k] = disconnectUnlocked(i, A) /\ calls[m] = connectUnlocked(i, B)
  <1>. DEFINE s == SideCalls(p1, p2)
              t == SideCalls(p2, p1)
              A == Members(p1)
              B == Members(p2)
              u == 2 * Len(p1)
              v == 2 * Len(p2)
              calls == partitionCalls(p1, p2)
  <1>1. /\ s \in CallList /\ Len(s) = u /\ A \subseteq Name /\ u \in Nat
        /\ t \in CallList /\ Len(t) = v /\ B \subseteq Name /\ v \in Nat
    BY SidesOK
  <1>2. /\ \A k \in 1 .. u : \E i \in A : s[k] = disconnectUnlocked(i, B) \/ s[k] = connectUnlocked(i, A)
        /\ \A i \in A : \E k, m \in 1 .. u : s[k] = disconnectUnlocked(i, B) /\ s[m] = connectUnlocked(i, A)
    BY SidesOK
  <1>3. /\ \A k \in 1 .. v : \E i \in B : t[k] = disconnectUnlocked(i, A) \/ t[k] = connectUnlocked(i, B)
        /\ \A i \in B : \E k, m \in 1 .. v : t[k] = disconnectUnlocked(i, A) /\ t[m] = connectUnlocked(i, B)
    BY SidesOK
  <1>4. calls = s \o t
    BY DEF partitionCalls
  <1>. HIDE DEF s, t, A, B, u, v, calls
  <1>5. /\ calls \in CallList /\ Len(calls) = u + v
        /\ \A k \in 1 .. u : k \in 1 .. u + v /\ calls[k] = s[k]
        /\ \A k \in 1 .. v : u + k \in 1 .. u + v /\ calls[u + k] = t[k]
        /\ \A k \in 1 .. u + v : k \notin 1 .. u => k - u \in 1 .. v /\ calls[k] = t[k - u]
    <2>. DEFINE R == [ends : SUBSET End, on : BOOLEAN]
    <2>1. CallList = Seq(R)
      BY DEF CallList
    <2>. HIDE DEF R
    <2>2. /\ calls \in Seq(R) /\ Len(calls) = u + v
          /\ \A k \in 1 .. u : calls[k] = s[k]
          /\ \A k \in 1 .. v : calls[u + k] = t[k]
      <3>1. s \in Seq(R) /\ t \in Seq(R)
        BY <1>1, <2>1
      <3>2. /\ s \o t \in Seq(R) /\ Len(s \o t) = Len(s) + Len(t)
            /\ \A k \in 1 .. Len(s) : (s \o t)[k] = s[k]
            /\ \A k \in 1 .. Len(t) : (s \o t)[Len(s) + k] = t[k]
        BY <3>1, Concat
      <3>. QED
        BY <1>1, <1>4, <3>2
    <2>3. ASSUME NEW k \in 1 .. u + v, k \notin 1 .. u
          PROVE  k - u \in 1 .. v /\ calls[k] = t[k - u]
      <3>1. k - u \in 1 .. v /\ u + (k - u) = k
        BY <1>1, <2>3
      <3>. QED
        BY <2>2, <3>1
    <2>4. /\ \A k \in 1 .. u : k \in 1 .. u + v
          /\ \A k \in 1 .. v : u + k \in 1 .. u + v
      BY <1>1
    <2>. QED
      BY <2>1, <2>2, <2>3, <2>4
  <1>6. ASSUME NEW k \in 1 .. u + v
        PROVE  \E i \in Name :
                  \/ i \in A /\ (calls[k] = disconnectUnlocked(i, B) \/ calls[k] = connectUnlocked(i, A))
                  \/ i \in B /\ (calls[k] = disconnectUnlocked(i, A) \/ calls[k] = connectUnlocked(i, B))
    <2>1. CASE k \in 1 .. u
      BY <1>1, <1>2, <1>5, <2>1
    <2>2. CASE k \notin 1 .. u
      <3>1. PICK i \in B : \/ t[k - u] = disconnectUnlocked(i, A)
                           \/ t[k - u] = connectUnlocked(i, B)
        BY Zenon, <1>3, <1>5, <2>2
      <3>. QED
        BY <1>1, <1>5, <2>2, <3>1
    <2>. QED
      BY <2>1, <2>2
  <1>7. ASSUME NEW i \in A
        PROVE  \E k, m \in 1 .. u + v :
            calls[k] = disconnectUnlocked(i, B) /\ calls[m] = connectUnlocked(i, A)
    <2>1. PICK k \in 1 .. u, m \in 1 .. u : s[k] = disconnectUnlocked(i, B) /\ s[m] = connectUnlocked(i, A)
      BY <1>2
    <2>. QED
      BY <1>5, <2>1
  <1>8. ASSUME NEW i \in B
        PROVE  \E k, m \in 1 .. u + v :
            calls[k] = disconnectUnlocked(i, A) /\ calls[m] = connectUnlocked(i, B)
    <2>1. PICK k \in 1 .. v, m \in 1 .. v : t[k] = disconnectUnlocked(i, A) /\ t[m] = connectUnlocked(i, B)
      BY <1>3
    <2>2. u + k \in 1 .. u + v /\ u + m \in 1 .. u + v
      BY <1>5
    <2>. QED
      BY <1>5, <2>1, <2>2
  <1>9. /\ \A i \in A : \E k, m \in 1 .. u + v :
                calls[k] = disconnectUnlocked(i, B) /\ calls[m] = connectUnlocked(i, A)
        /\ \A i \in B : \E k, m \in 1 .. u + v :
                calls[k] = disconnectUnlocked(i, A) /\ calls[m] = connectUnlocked(i, B)
    BY <1>7, <1>8
  <1>10. \A k \in 1 .. Len(calls) : \E i \in Name :
            \/ i \in A /\ (calls[k] = disconnectUnlocked(i, B) \/ calls[k] = connectUnlocked(i, A))
            \/ i \in B /\ (calls[k] = disconnectUnlocked(i, A) \/ calls[k] = connectUnlocked(i, B))
    BY Zenon, <1>5, <1>6
  <1>11. u + v = 2 * Len(p1) + 2 * Len(p2)
    BY Zenon DEF u, v
  <1>12. calls \in CallList /\ Len(calls) = 2 * Len(p1) + 2 * Len(p2)
    BY Zenon, <1>5, <1>11
  <1>13. /\ \A i \in A : \E k, m \in 1 .. Len(calls) :
                calls[k] = disconnectUnlocked(i, B) /\ calls[m] = connectUnlocked(i, A)
         /\ \A i \in B : \E k, m \in 1 .. Len(calls) :
                calls[k] = disconnectUnlocked(i, A) /\ calls[m] = connectUnlocked(i, B)
    <2>1. Len(calls) = u + v
      BY Zenon, <1>5
    <2>. QED
      BY <1>9, <2>1
  <1>. QED
    BY Zenon, <1>10, <1>12, <1>13 DEF A, B, calls
=============================================================================
