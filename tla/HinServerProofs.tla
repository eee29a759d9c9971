-------------------------- MODULE HinServerProofs --------------------------
(***************************************************************************)
(* Proofs about HinServer, for any finite sets of servers and clients and  *)
(* any bounds.  Good is the inductive invariant, stated of a master        *)
(* record so that one lemma per function of the code carries it.           *)
(***************************************************************************)
EXTENDS HinServer, FiniteSetTheorems, TLAPS

AllClients(st) == UNION {st.clients[s] : s \in Servers}

(* A client belongs to one server, a server that is not listed is empty. *)
Owned(st) ==
  /\ \A s, t \in Servers : s # t => st.clients[s] \cap st.clients[t] = {}
  /\ \A s \in Servers : s \notin st.serverList =>
       st.clients[s] = {} /\ st.accept[s] = "none"

(* After a stop the listed servers wait for their last client only. *)
Draining(st) ==
  "QUIT" \in st.flags =>
    \A s \in st.serverList : st.clients[s] # {} /\ st.accept[s] = "none"

Ended(st) ==
  "FINISH" \in st.flags =>
    "QUIT" \in st.flags /\ st.serverList = {} /\ st.numConnection = 0

Counted(st) ==
  /\ st.numListen = Cardinality(st.serverList)
  /\ st.numClient = Cardinality(AllClients(st))
  /\ st.numConnection = st.busy + st.idle + st.closing

Good(st) == /\ st \in MasterType
            /\ Owned(st)
            /\ Draining(st)
            /\ Ended(st)
            /\ Counted(st)

(* What a step that is not about clients leaves alone. *)
SameClients(st, r) ==
  /\ r.clients = st.clients
  /\ "QUIT" \in st.flags => "QUIT" \in r.flags

(* What every function but hin_stop1 leaves alone. *)
SameOutgoing(st, r) ==
  /\ r.numConnection = st.numConnection
  /\ r.busy = st.busy
  /\ r.idle = st.idle
  /\ r.closing = st.closing

(* The listed servers and the clients are finitely many, so the counters   *)
(* of the code can count them. *)
LEMMA Finite ==
  ASSUME NEW st \in MasterType
  PROVE  /\ IsFiniteSet(st.serverList)
         /\ IsFiniteSet(AllClients(st))
         /\ Cardinality(st.serverList) \in Nat
         /\ Cardinality(AllClients(st)) \in Nat
<1>1. st.serverList \in SUBSET Servers /\ AllClients(st) \in SUBSET Clients
  BY DEF MasterType, AllClients
<1>2. IsFiniteSet(st.serverList) /\ IsFiniteSet(AllClients(st))
  BY <1>1, FS_Subset, BoundsAssumption
<1> QED BY <1>2, FS_CardinalityType

(* hin_server_close on every server, as hin_stop does. *)
LEMMA CloseAllGood ==
  ASSUME NEW st, Good(st)
  PROVE  Good(CloseAll(st)) /\ SameClients(st, CloseAll(st))
         /\ SameOutgoing(st, CloseAll(st))
<1> DEFINE r == CloseAll(st)
<1>0. st \in MasterType BY DEF Good
<1>1. /\ r.flags = st.flags \cup {"QUIT"}
      /\ r.accept = [s \in Servers |-> IF s \in st.serverList THEN "none" ELSE st.accept[s]]
      /\ r.serverList = st.serverList \ Drained(st)
      /\ r.numListen = st.numListen - Cardinality(Drained(st))
      /\ r.clients = st.clients
      /\ r.numClient = st.numClient
      /\ SameOutgoing(st, r)
  BY <1>0 DEF CloseAll, MasterType, SameOutgoing
<1>2. /\ IsFiniteSet(Drained(st))
      /\ Cardinality(r.serverList) = Cardinality(st.serverList) - Cardinality(Drained(st))
      /\ Cardinality(r.serverList) \in Nat
  <2>1. IsFiniteSet(st.serverList) BY <1>0, Finite
  <2>2. Drained(st) \in SUBSET st.serverList BY DEF Drained
  <2>3. IsFiniteSet(Drained(st)) BY <2>1, <2>2, FS_Subset
  <2>4. st.serverList \cap Drained(st) = Drained(st) BY <2>2
  <2>5. /\ IsFiniteSet(st.serverList \ Drained(st))
        /\ Cardinality(st.serverList \ Drained(st)) =
             Cardinality(st.serverList) - Cardinality(st.serverList \cap Drained(st))
    BY <2>1, FS_Difference
  <2>6. Cardinality(st.serverList \ Drained(st)) \in Nat BY <2>5, FS_CardinalityType
  <2> QED BY <2>3, <2>4, <2>5, <2>6, <1>1
<1>3. r.numListen = Cardinality(r.serverList)
  BY <1>1, <1>2 DEF Good, Counted
<1>4. r \in MasterType
  BY <1>0, <1>1, <1>2, <1>3 DEF CloseAll, MasterType
<1>5. Owned(r)
  BY <1>0, <1>1 DEF Good, Owned, Drained, MasterType
<1>6. Draining(r)
  BY <1>0, <1>1 DEF Draining, Drained, MasterType
<1>7. Ended(r)
  BY <1>0, <1>1 DEF Good, Ended, SameOutgoing
<1>8. Counted(r)
  BY <1>1, <1>3 DEF Good, Counted, AllClients, SameOutgoing
<1> QED BY <1>1, <1>4, <1>5, <1>6, <1>7, <1>8 DEF Good, SameClients

(* Setting HIN_FLAG_FINISH, under the tests of hin_check_alive. *)
LEMMA TryFinishGood ==
  ASSUME NEW st, Good(st)
  PROVE  Good(TryFinish(st)) /\ SameClients(st, TryFinish(st))
         /\ SameOutgoing(st, TryFinish(st))
<1>0. st \in MasterType BY DEF Good
<1>1. CASE "QUIT" \in st.flags /\ st.serverList = {} /\ st.numConnection = 0
  <2> DEFINE r == [st EXCEPT !.flags = @ \cup {"FINISH"}]
  <2>1. TryFinish(st) = r BY <1>1 DEF TryFinish
  <2>2. /\ r \in MasterType
        /\ r.flags = st.flags \cup {"FINISH"}
        /\ r.serverList = st.serverList
        /\ r.accept = st.accept
        /\ r.clients = st.clients
        /\ r.numListen = st.numListen
        /\ r.numClient = st.numClient
        /\ SameOutgoing(st, r)
    BY <1>0 DEF MasterType, SameOutgoing
  <2> HIDE DEF r
  <2>3. Owned(r) /\ Draining(r) /\ Ended(r)
    BY <1>1, <2>2 DEF Good, Owned, Draining, Ended, SameOutgoing
  <2>4. Counted(r)
    BY <2>2 DEF Good, Counted, AllClients, SameOutgoing
  <2> QED BY <2>1, <2>2, <2>3, <2>4 DEF Good, SameClients
<1>2. CASE ~("QUIT" \in st.flags /\ st.serverList = {} /\ st.numConnection = 0)
  BY <1>2 DEF TryFinish, SameClients, SameOutgoing
<1> QED BY <1>1, <1>2

(* The restart flags and the shared word do not matter to Good. *)
LEMMA RestartFieldsGood ==
  ASSUME NEW st, Good(st), NEW r \in MasterType,
         r.serverList = st.serverList, r.accept = st.accept,
         r.clients = st.clients, r.numListen = st.numListen,
         r.numClient = st.numClient, SameOutgoing(st, r),
         "QUIT" \in r.flags <=> "QUIT" \in st.flags,
         "FINISH" \in r.flags <=> "FINISH" \in st.flags
  PROVE  Good(r) /\ SameClients(st, r)
BY DEF Good, Owned, Draining, Ended, Counted, AllClients, SameClients, SameOutgoing

(* hin_check_alive, both halves. *)
LEMMA CheckAliveGood ==
  ASSUME NEW st, Good(st)
  PROVE  Good(hin_check_alive(st)) /\ SameClients(st, hin_check_alive(st))
         /\ SameOutgoing(st, hin_check_alive(st))
<1>0. st \in MasterType BY DEF Good
<1>1. CASE "RESTARTING" \in st.flags /\ st.done > 0
  <2> DEFINE q == [st EXCEPT !.done = 0, !.flags = @ \ {"RESTARTING"}]
             r == CloseAll(q)
  <2>1. /\ q \in MasterType
        /\ q.serverList = st.serverList /\ q.accept = st.accept
        /\ q.clients = st.clients /\ q.numListen = st.numListen
        /\ q.numClient = st.numClient /\ SameOutgoing(st, q)
        /\ q.flags = st.flags \ {"RESTARTING"}
    BY <1>0 DEF MasterType, SameOutgoing
  <2>2. hin_check_alive(st) = TryFinish(r) BY <1>1 DEF hin_check_alive
  <2> HIDE DEF q
  <2>3. Good(q) /\ SameClients(st, q) BY <2>1, RestartFieldsGood
  <2>4. Good(r) /\ SameClients(q, r) /\ SameOutgoing(q, r) BY <2>3, CloseAllGood
  <2> HIDE DEF r
  <2>5. /\ Good(TryFinish(r))
        /\ SameClients(r, TryFinish(r))
        /\ SameOutgoing(r, TryFinish(r))
    BY <2>4, TryFinishGood
  <2> QED BY <2>1, <2>2, <2>3, <2>4, <2>5 DEF SameClients, SameOutgoing
<1>2. CASE ~("RESTARTING" \in st.flags /\ st.done > 0)
  BY <1>2, TryFinishGood DEF hin_check_alive
<1> QED BY <1>1, <1>2

(* hin_stop. *)
LEMMA StopGood ==
  ASSUME NEW st, Good(st)
  PROVE  Good(hin_stop(st)) /\ SameClients(st, hin_stop(st))
<1> DEFINE r == CloseAll(st)
<1>1. Good(r) /\ SameClients(st, r) BY CloseAllGood
<1>2. hin_stop(st) = hin_check_alive(r) \/ hin_stop(st) = r BY DEF hin_stop
<1> HIDE DEF r
<1>3. Good(hin_check_alive(r)) /\ SameClients(r, hin_check_alive(r))
  BY <1>1, CheckAliveGood
<1> QED BY <1>1, <1>2, <1>3 DEF SameClients

(* Outgoing connections change only while the process has not finished,    *)
(* and num_connection with them. *)
LEMMA ConnectionGood ==
  ASSUME NEW st, Good(st), NEW r \in MasterType,
         r.flags = st.flags, r.serverList = st.serverList,
         r.accept = st.accept, r.clients = st.clients,
         r.numListen = st.numListen, r.numClient = st.numClient,
         r.numConnection = r.busy + r.idle + r.closing,
         "FINISH" \in st.flags => r.numConnection = st.numConnection
  PROVE  Good(r) /\ SameClients(st, r)
BY DEF Good, Owned, Draining, Ended, Counted, AllClients, SameClients

(* hin_stop1: the idle connections start to close, then hin_stop. *)
LEMMA Stop1Good ==
  ASSUME NEW st, Good(st)
  PROVE  Good(hin_stop1(st)) /\ SameClients(st, hin_stop1(st))
<1> DEFINE q == [st EXCEPT !.idle = 0, !.closing = st.closing + st.idle]
<1>0. st \in MasterType BY DEF Good
<1>1. /\ q \in MasterType /\ q.flags = st.flags
      /\ q.serverList = st.serverList /\ q.accept = st.accept
      /\ q.clients = st.clients /\ q.numListen = st.numListen
      /\ q.numClient = st.numClient /\ q.numConnection = st.numConnection
      /\ q.busy = st.busy /\ q.idle = 0 /\ q.closing = st.closing + st.idle
  <2>1. st.closing + st.idle \in Nat BY <1>0 DEF MasterType
  <2> QED BY <1>0, <2>1 DEF MasterType
<1>2. q.numConnection = q.busy + q.idle + q.closing
  BY <1>0, <1>1 DEF Good, Counted, MasterType
<1>3. hin_stop1(st) = hin_stop(q) BY DEF hin_stop1
<1> HIDE DEF q
<1>4. Good(q) /\ SameClients(st, q) BY <1>1, <1>2, ConnectionGood
<1>5. Good(hin_stop(q)) /\ SameClients(q, hin_stop(q)) BY <1>4, StopGood
<1> QED BY <1>3, <1>4, <1>5 DEF SameClients

(* hin_server_accept_callback on a listed server that still accepts. *)
LEMMA AcceptedGood ==
  ASSUME NEW st, Good(st), NEW s \in Servers, st.accept[s] = "armed",
         NEW c \in Clients \ AllClients(st)
  PROVE  Good(AcceptedClient(st, s, c)) /\ "QUIT" \notin st.flags
<1> DEFINE r == AcceptedClient(st, s, c)
<1>0. st \in MasterType BY DEF Good
<1>1. s \in st.serverList BY DEF Good, Owned
<1>2. "QUIT" \notin st.flags BY <1>1 DEF Good, Draining
<1>3. /\ r.flags = st.flags
      /\ r.accept = st.accept
      /\ r.serverList = st.serverList
      /\ r.numListen = st.numListen
      /\ SameOutgoing(st, r)
      /\ r.clients = [st.clients EXCEPT ![s] = @ \cup {c}]
      /\ r.numClient = st.numClient + 1
  BY <1>0 DEF AcceptedClient, MasterType, SameOutgoing
<1>9. r \in MasterType
  <2>1. [st.clients EXCEPT ![s] = @ \cup {c}] \in [Servers -> SUBSET Clients]
    BY <1>0 DEF MasterType
  <2>2. st.numClient + 1 \in Nat
    BY <1>0 DEF MasterType
  <2>3. r = [[st EXCEPT !.clients = [st.clients EXCEPT ![s] = @ \cup {c}]]
               EXCEPT !.numClient = st.numClient + 1]
    BY <1>0 DEF AcceptedClient, MasterType
  <2> QED BY <1>0, <2>1, <2>2, <2>3, ZenonT(40) DEF MasterType
<1>4. /\ st.clients \in [Servers -> SUBSET Clients]
      /\ st.accept \in [Servers -> {"armed", "idle", "none"}]
  BY <1>0 DEF MasterType
<1> HIDE DEF r
<1>5. AllClients(r) = AllClients(st) \cup {c}
  BY <1>3, <1>4 DEF AllClients
<1>6. Owned(r)
  BY <1>1, <1>3, <1>4 DEF Good, Owned, AllClients
<1>7. Counted(r)
  <2>1. IsFiniteSet(AllClients(st)) BY <1>0, Finite
  <2>2. Cardinality(AllClients(r)) = Cardinality(AllClients(st)) + 1
    BY <1>5, <2>1, FS_AddElement
  <2> QED BY <1>3, <2>2, <1>0 DEF Good, Counted, SameOutgoing
<1>8. Draining(r) /\ Ended(r)
  BY <1>2, <1>3 DEF Good, Draining, Ended, SameOutgoing
<1> QED BY <1>2, <1>6, <1>7, <1>8, <1>9 DEF Good, r

(* hin_client_close: the count of clients, and of servers when the last    *)
(* client of a closed server goes. *)
LEMMA ClientCloseGood ==
  ASSUME NEW st, Good(st), NEW s \in Servers, NEW c \in st.clients[s]
  PROVE  /\ Good(hin_client_close(st, s, c))
         /\ \A t \in Servers :
              hin_client_close(st, s, c).clients[t] \subseteq st.clients[t]
<1> DEFINE q == [st EXCEPT !.clients[s] = @ \ {c}, !.numClient = @ - 1]
           r == [q EXCEPT !.serverList = @ \ {s}, !.numListen = @ - 1]
<1>0. st \in MasterType BY DEF Good
<1>1. /\ st.clients \in [Servers -> SUBSET Clients]
      /\ st.accept \in [Servers -> {"armed", "idle", "none"}]
      /\ st.numClient \in Nat /\ st.numListen \in Nat
  BY <1>0 DEF MasterType
<1>2. s \in st.serverList /\ "FINISH" \notin st.flags
  BY DEF Good, Owned, Ended
<1>3. /\ q.flags = st.flags /\ q.accept = st.accept
      /\ q.serverList = st.serverList /\ q.numListen = st.numListen
      /\ SameOutgoing(st, q)
      /\ q.clients = [st.clients EXCEPT ![s] = @ \ {c}]
      /\ q.numClient = st.numClient - 1
  BY <1>0 DEF MasterType, SameOutgoing
<1>4. AllClients(q) = AllClients(st) \ {c}
  BY <1>1, <1>3 DEF AllClients, Good, Owned
<1>5. q.numClient = Cardinality(AllClients(q)) /\ q.numClient \in Nat
  <2>1. IsFiniteSet(AllClients(st)) /\ c \in AllClients(st)
    BY <1>0, Finite DEF AllClients
  <2>2. /\ IsFiniteSet(AllClients(q))
        /\ Cardinality(AllClients(q)) = Cardinality(AllClients(st)) - 1
    BY <1>4, <2>1, FS_RemoveElement
  <2>3. Cardinality(AllClients(q)) \in Nat BY <2>2, FS_CardinalityType
  <2> QED BY <1>3, <2>2, <2>3 DEF Good, Counted
<1>6. q \in MasterType
  BY <1>0, <1>5 DEF MasterType
<1>7. \A t \in Servers : q.clients[t] \subseteq st.clients[t]
  BY <1>1, <1>3
<1>8. CASE q.clients[s] = {} /\ q.accept[s] = "none"
  <2>1. hin_client_close(st, s, c) = hin_check_alive(r)
    BY <1>8 DEF hin_client_close
  <2>2. /\ r.flags = st.flags /\ r.accept = st.accept
        /\ r.serverList = st.serverList \ {s}
        /\ r.numListen = st.numListen - 1
        /\ SameOutgoing(st, r)
        /\ r.clients = q.clients /\ r.numClient = q.numClient
    BY <1>3, <1>6 DEF MasterType, SameOutgoing
  <2>3. r.numListen = Cardinality(r.serverList) /\ r.numListen \in Nat
    <3>1. IsFiniteSet(st.serverList) BY <1>0, Finite
    <3>2. /\ IsFiniteSet(r.serverList)
          /\ Cardinality(r.serverList) = Cardinality(st.serverList) - 1
      BY <1>2, <2>2, <3>1, FS_RemoveElement
    <3>3. Cardinality(r.serverList) \in Nat BY <3>2, FS_CardinalityType
    <3> QED BY <2>2, <3>2, <3>3 DEF Good, Counted
  <2>4. r \in MasterType BY <1>6, <2>3 DEF MasterType
  <2> HIDE DEF q, r
  <2>5. Owned(r) BY <1>1, <1>3, <1>8, <2>2 DEF Good, Owned
  <2>6. Draining(r) BY <1>1, <1>3, <2>2 DEF Good, Draining
  <2>7. Ended(r) BY <1>2, <2>2 DEF Ended, SameOutgoing
  <2>8. Counted(r)
    <3>1. AllClients(r) = AllClients(q) BY <2>2 DEF AllClients
    <3> QED BY <1>5, <1>3, <2>2, <2>3, <3>1 DEF Good, Counted, SameOutgoing
  <2>9. Good(r) BY <2>4, <2>5, <2>6, <2>7, <2>8 DEF Good
  <2>10. Good(hin_check_alive(r)) /\ SameClients(r, hin_check_alive(r))
    BY <2>9, CheckAliveGood
  <2> QED BY <1>7, <2>1, <2>2, <2>10 DEF SameClients
<1>9. CASE ~(q.clients[s] = {} /\ q.accept[s] = "none")
  <2>1. hin_client_close(st, s, c) = q
    BY <1>9 DEF hin_client_close
  <2> HIDE DEF q
  <2>2. Owned(q) BY <1>1, <1>2, <1>3 DEF Good, Owned
  <2>3. Draining(q) BY <1>1, <1>3, <1>9 DEF Good, Draining, MasterType
  <2>4. Ended(q) BY <1>2, <1>3 DEF Ended, SameOutgoing
  <2>5. Counted(q) BY <1>3, <1>5 DEF Good, Counted, SameOutgoing
  <2> QED BY <1>6, <1>7, <2>1, <2>2, <2>3, <2>4, <2>5 DEF Good
<1> QED BY <1>8, <1>9

----------------------------------------------------------------------------
(* hin_server_reaccept re-arms only accepts that are idle. *)
LEMMA ReacceptGood ==
  ASSUME NEW st, Good(st)
  PROVE  Good(hin_server_reaccept(st)) /\ SameClients(st, hin_server_reaccept(st))
<1> DEFINE r == hin_server_reaccept(st)
<1>0. st \in MasterType BY DEF Good
<1>1. /\ r.flags = st.flags /\ r.clients = st.clients
      /\ r.serverList = st.serverList /\ r.numListen = st.numListen
      /\ r.numClient = st.numClient /\ SameOutgoing(st, r)
      /\ r.accept = [s \in Servers |->
           IF s \in st.serverList /\ st.accept[s] = "idle" THEN "armed" ELSE st.accept[s]]
  BY <1>0 DEF hin_server_reaccept, MasterType, SameOutgoing
<1>2. r \in MasterType
  BY <1>0 DEF hin_server_reaccept, MasterType
<1>3. st.serverList \subseteq Servers BY <1>0 DEF MasterType
<1> HIDE DEF r
<1>4. Owned(r) /\ Draining(r) /\ Ended(r) /\ Counted(r)
  BY <1>1, <1>3 DEF Good, Owned, Draining, Ended, Counted, AllClients, SameOutgoing
<1> QED BY <1>1, <1>2, <1>4 DEF Good, SameClients, r

(* hin_check_alive_timer. *)
LEMMA AliveTimerGood ==
  ASSUME NEW st, Good(st)
  PROVE  /\ Good(hin_check_alive_timer(st))
         /\ SameClients(st, hin_check_alive_timer(st))
<1> DEFINE q == hin_stop1(st)
           r == [q EXCEPT !.done = 0]
<1>1. Good(q) /\ SameClients(st, q) BY Stop1Good
<1>2. hin_check_alive_timer(st) = r \/ hin_check_alive_timer(st) = st
  BY DEF hin_check_alive_timer
<1>3. q \in MasterType BY <1>1 DEF Good
<1> HIDE DEF q
<1>4. /\ r \in MasterType /\ r.flags = q.flags
      /\ r.serverList = q.serverList /\ r.accept = q.accept
      /\ r.clients = q.clients /\ r.numListen = q.numListen
      /\ r.numClient = q.numClient /\ SameOutgoing(q, r)
  BY <1>3 DEF MasterType, SameOutgoing
<1> HIDE DEF r
<1>5. Good(r) /\ SameClients(q, r) BY <1>1, <1>4, RestartFieldsGood
<1> QED BY <1>1, <1>2, <1>5 DEF SameClients

(* hin_restart1 is a stop with the restart flags set. *)
LEMMA Restart1Good ==
  ASSUME NEW st, Good(st)
  PROVE  Good(hin_restart1(st)) /\ SameClients(st, hin_restart1(st))
<1> DEFINE q == [st EXCEPT !.done = 0, !.restartPid = TRUE,
                           !.flags = @ \cup {"RESTARTING"}]
<1>0. st \in MasterType BY DEF Good
<1>1. /\ q \in MasterType /\ q.flags = st.flags \cup {"RESTARTING"}
      /\ q.serverList = st.serverList /\ q.accept = st.accept
      /\ q.clients = st.clients /\ q.numListen = st.numListen
      /\ q.numClient = st.numClient /\ SameOutgoing(st, q)
  BY <1>0 DEF MasterType, SameOutgoing
<1>2. hin_restart1(st) = hin_stop1(q) BY DEF hin_restart1
<1> HIDE DEF q
<1>3. Good(q) /\ SameClients(st, q) BY <1>1, RestartFieldsGood
<1>4. Good(hin_stop1(q)) /\ SameClients(q, hin_stop1(q)) BY <1>3, Stop1Good
<1> QED BY <1>2, <1>3, <1>4 DEF SameClients

(* The shared word is written by another process. *)
LEMMA DoneGood ==
  ASSUME NEW st, Good(st), NEW d \in {0, 1}
  PROVE  /\ Good([st EXCEPT !.done = d])
         /\ SameClients(st, [st EXCEPT !.done = d])
<1> DEFINE r == [st EXCEPT !.done = d]
<1>0. st \in MasterType BY DEF Good
<1>1. /\ r \in MasterType /\ r.flags = st.flags
      /\ r.serverList = st.serverList /\ r.accept = st.accept
      /\ r.clients = st.clients /\ r.numListen = st.numListen
      /\ r.numClient = st.numClient /\ SameOutgoing(st, r)
  BY <1>0 DEF MasterType, SameOutgoing
<1> HIDE DEF r
<1> QED BY <1>1, RestartFieldsGood DEF r

(* An accept that fails, on a server that still accepts. *)
LEMMA AcceptErrorGood ==
  ASSUME NEW st, Good(st), NEW s \in Servers, st.accept[s] = "armed",
         NEW a \in {"armed", "idle", "none"}
  PROVE  /\ Good([st EXCEPT !.accept[s] = a])
         /\ SameClients(st, [st EXCEPT !.accept[s] = a])
<1> DEFINE r == [st EXCEPT !.accept[s] = a]
<1>0. st \in MasterType BY DEF Good
<1>1. s \in st.serverList /\ "QUIT" \notin st.flags
  BY DEF Good, Owned, Draining
<1>2. /\ r.flags = st.flags /\ r.clients = st.clients
      /\ r.serverList = st.serverList /\ r.numListen = st.numListen
      /\ r.numClient = st.numClient /\ SameOutgoing(st, r)
      /\ r.accept = [st.accept EXCEPT ![s] = a]
  BY <1>0 DEF MasterType, SameOutgoing
<1>3. r \in MasterType
  BY <1>0 DEF MasterType
<1>4. st.accept \in [Servers -> {"armed", "idle", "none"}]
  BY <1>0 DEF MasterType
<1> HIDE DEF r
<1>5. Owned(r) /\ Draining(r) /\ Ended(r) /\ Counted(r)
  BY <1>1, <1>2, <1>4 DEF Good, Owned, Draining, Ended, Counted, AllClients, SameOutgoing
<1> QED BY <1>2, <1>3, <1>5 DEF Good, SameClients, r

----------------------------------------------------------------------------
(* The inductive invariant of the specification. *)
IInv == /\ Good(m)
        /\ child \in [1 .. MaxRestart -> {"none", "starting", "serving", "exited"}]
        /\ restarts \in 0 .. MaxRestart

(* What a step may do to the clients of a stopping process. *)
NobodyNew ==
  \A s \in Servers : "QUIT" \in m.flags => m'.clients[s] \subseteq m.clients[s]

(* A process starts with every server listening and nobody connected. *)
LEMMA InitInv == Init => IInv
<1> SUFFICES ASSUME Init PROVE IInv OBVIOUS
<1>1. /\ m.flags = {} /\ m.serverList = Servers
      /\ m.accept = [s \in Servers |-> "armed"]
      /\ m.clients = [s \in Servers |-> {}]
      /\ m.numClient = 0 /\ m.numListen = Cardinality(Servers)
      /\ m.numConnection = 0 /\ m.busy = 0 /\ m.idle = 0 /\ m.closing = 0
  BY DEF Init
<1>2. Cardinality(Servers) \in Nat BY FS_CardinalityType, BoundsAssumption
<1>3. m \in MasterType
  BY <1>2 DEF Init, MasterType
<1>4. AllClients(m) = {} BY <1>1 DEF AllClients
<1>5. Counted(m) BY <1>1, <1>4, FS_EmptySet DEF Counted
<1>6. Owned(m) /\ Draining(m) /\ Ended(m)
  BY <1>1 DEF Owned, Draining, Ended
<1>7. /\ child \in [1 .. MaxRestart -> {"none", "starting", "serving", "exited"}]
      /\ restarts \in 0 .. MaxRestart
  BY BoundsAssumption DEF Init
<1> QED BY <1>3, <1>5, <1>6, <1>7 DEF IInv, Good

(* Every action of the process and of its children keeps the invariant,    *)
(* and no action connects a client once a stop was asked for. *)
LEMMA NextInv == IInv /\ [Next]_vars => IInv' /\ NobodyNew
<1> SUFFICES ASSUME IInv, [Next]_vars PROVE IInv' /\ NobodyNew OBVIOUS
<1> DEFINE q == hin_check_alive(m)
<1>a. Good(m) BY DEF IInv
<1>b. Good(q) /\ SameClients(m, q) /\ SameOutgoing(m, q) BY <1>a, CheckAliveGood
<1>c. AllClients(m) = Connected BY DEF AllClients, Connected
<1>d. \A st : Good(st) /\ AllClients(st) # {} => "FINISH" \notin st.flags
  BY DEF Good, Owned, Ended, AllClients
<1>e. q \in MasterType BY <1>b DEF Good
<1>f. /\ q.numConnection \in Nat /\ q.busy \in Nat /\ q.idle \in Nat /\ q.closing \in Nat
      /\ q.numConnection = q.busy + q.idle + q.closing
  BY <1>b, <1>e DEF Good, Counted, MasterType
<1> HIDE DEF q
<1>s. SUFFICES Good(m') /\ NobodyNew
               /\ child' \in [1 .. MaxRestart -> {"none", "starting", "serving", "exited"}]
               /\ restarts' \in 0 .. MaxRestart
  BY DEF IInv, Good, Owned, Draining, Ended, Counted, AllClients
<1>1. ASSUME NEW s \in Servers, Accept(s) PROVE Good(m') /\ NobodyNew
  <2>1. PICK c \in Clients \ Connected : m' = AcceptedClient(q, s, c)
    BY <1>1 DEF Accept, q
  <2>2. q.accept[s] = "armed" BY <1>1 DEF Accept, q
  <2>3. c \in Clients \ AllClients(q)
    BY <1>b, <1>c DEF SameClients, AllClients
  <2>4. Good(AcceptedClient(q, s, c)) /\ "QUIT" \notin q.flags
    BY <1>b, <2>2, <2>3, AcceptedGood
  <2> QED BY <1>b, <2>1, <2>4 DEF SameClients, NobodyNew
<1>2. ASSUME NEW s \in Servers, AcceptError(s) PROVE Good(m') /\ NobodyNew
  <2>1. PICK a \in {"armed", "idle", "none"} : m' = [q EXCEPT !.accept[s] = a]
    BY <1>2 DEF AcceptError, q
  <2>2. q.accept[s] = "armed" BY <1>2 DEF AcceptError, q
  <2>3. /\ Good([q EXCEPT !.accept[s] = a])
        /\ SameClients(q, [q EXCEPT !.accept[s] = a])
    BY <1>b, <2>2, AcceptErrorGood
  <2> QED BY <1>b, <2>1, <2>3 DEF SameClients, NobodyNew
<1>3. ASSUME NEW s \in Servers, NEW c \in Clients, ClientClose(s, c)
      PROVE Good(m') /\ NobodyNew
  <2>1. m' = hin_client_close(q, s, c) /\ c \in q.clients[s]
    BY <1>3, <1>b DEF ClientClose, q, SameClients
  <2>2. /\ Good(m')
        /\ \A t \in Servers : m'.clients[t] \subseteq q.clients[t]
    BY <1>b, <2>1, ClientCloseGood
  <2> QED BY <1>b, <2>2 DEF SameClients, NobodyNew
<1>4. ASSUME Connect PROVE Good(m') /\ NobodyNew
  <2>1. /\ m' = [q EXCEPT !.numConnection = q.numConnection + 1, !.busy = q.busy + 1]
        /\ Connected # {}
    BY <1>4 DEF Connect, q
  <2>2. "FINISH" \notin q.flags
    BY <1>b, <1>c, <1>d, <2>1 DEF SameClients, AllClients
  <2>3. /\ m' \in MasterType /\ m'.flags = q.flags
        /\ m'.serverList = q.serverList /\ m'.accept = q.accept
        /\ m'.clients = q.clients /\ m'.numListen = q.numListen
        /\ m'.numClient = q.numClient /\ m'.numConnection = q.numConnection + 1
        /\ m'.busy = q.busy + 1 /\ m'.idle = q.idle /\ m'.closing = q.closing
    <3>1. q.numConnection + 1 \in Nat /\ q.busy + 1 \in Nat BY <1>f
    <3> QED BY <1>e, <2>1, <3>1 DEF MasterType
  <2>4. m'.numConnection = m'.busy + m'.idle + m'.closing
    BY <1>f, <2>3
  <2>5. Good(m') /\ SameClients(q, m') BY <1>b, <2>2, <2>3, <2>4, ConnectionGood
  <2> QED BY <1>b, <2>5 DEF SameClients, NobodyNew
<1>14. ASSUME Release PROVE Good(m') /\ NobodyNew
  <2>1. m' = [q EXCEPT !.busy = q.busy - 1, !.idle = q.idle + 1] /\ m.busy > 0
    BY <1>14 DEF Release, q
  <2>2. q.busy - 1 \in Nat BY <1>b, <1>f, <2>1 DEF SameOutgoing
  <2>3. /\ m' \in MasterType /\ m'.flags = q.flags
        /\ m'.serverList = q.serverList /\ m'.accept = q.accept
        /\ m'.clients = q.clients /\ m'.numListen = q.numListen
        /\ m'.numClient = q.numClient /\ m'.numConnection = q.numConnection
        /\ m'.busy = q.busy - 1 /\ m'.idle = q.idle + 1 /\ m'.closing = q.closing
    <3>1. q.idle + 1 \in Nat BY <1>f
    <3> QED BY <1>e, <2>1, <2>2, <3>1 DEF MasterType
  <2>4. m'.numConnection = m'.busy + m'.idle + m'.closing
    BY <1>f, <2>3
  <2>5. Good(m') /\ SameClients(q, m') BY <1>b, <2>3, <2>4, ConnectionGood
  <2> QED BY <1>b, <2>5 DEF SameClients, NobodyNew
<1>15. ASSUME Reuse PROVE Good(m') /\ NobodyNew
  <2>1. m' = [q EXCEPT !.idle = q.idle - 1, !.busy = q.busy + 1] /\ m.idle > 0
    BY <1>15 DEF Reuse, q
  <2>2. q.idle - 1 \in Nat BY <1>b, <1>f, <2>1 DEF SameOutgoing
  <2>3. /\ m' \in MasterType /\ m'.flags = q.flags
        /\ m'.serverList = q.serverList /\ m'.accept = q.accept
        /\ m'.clients = q.clients /\ m'.numListen = q.numListen
        /\ m'.numClient = q.numClient /\ m'.numConnection = q.numConnection
        /\ m'.busy = q.busy + 1 /\ m'.idle = q.idle - 1 /\ m'.closing = q.closing
    <3>1. q.busy + 1 \in Nat BY <1>f
    <3> QED BY <1>e, <2>1, <2>2, <3>1 DEF MasterType
  <2>4. m'.numConnection = m'.busy + m'.idle + m'.closing
    BY <1>f, <2>3
  <2>5. Good(m') /\ SameClients(q, m') BY <1>b, <2>3, <2>4, ConnectionGood
  <2> QED BY <1>b, <2>5 DEF SameClients, NobodyNew
<1>5. ASSUME Disconnect PROVE Good(m') /\ NobodyNew
  <2>1. m' = Released([q EXCEPT !.busy = q.busy - 1]) /\ m.busy > 0
    BY <1>5 DEF Disconnect, q
  <2> DEFINE r == [[q EXCEPT !.busy = q.busy - 1] EXCEPT !.numConnection = q.numConnection - 1]
  <2>2. m' = hin_check_alive(r) BY <1>e, <2>1 DEF Released, MasterType
  <2>3. q.busy - 1 \in Nat BY <1>b, <1>f, <2>1 DEF SameOutgoing
  <2>4. q.numConnection - 1 \in Nat BY <1>f, <2>3
  <2>5. /\ r \in MasterType /\ r.flags = q.flags
        /\ r.serverList = q.serverList /\ r.accept = q.accept
        /\ r.clients = q.clients /\ r.numListen = q.numListen
        /\ r.numClient = q.numClient /\ r.numConnection = q.numConnection - 1
        /\ r.busy = q.busy - 1 /\ r.idle = q.idle /\ r.closing = q.closing
    BY <1>e, <2>3, <2>4 DEF MasterType
  <2> HIDE DEF r
  <2>6. r.numConnection = r.busy + r.idle + r.closing
    BY <1>f, <2>5
  <2>7. "FINISH" \notin q.flags BY <1>b, <1>f, <2>4 DEF Good, Ended
  <2>8. Good(r) /\ SameClients(q, r) BY <1>b, <2>5, <2>6, <2>7, ConnectionGood
  <2>9. Good(hin_check_alive(r)) /\ SameClients(r, hin_check_alive(r))
    BY <2>8, CheckAliveGood
  <2> QED BY <1>b, <2>2, <2>8, <2>9 DEF SameClients, NobodyNew
<1>16. ASSUME CloseDone PROVE Good(m') /\ NobodyNew
  <2>1. m' = Released([q EXCEPT !.closing = q.closing - 1]) /\ m.closing > 0
    BY <1>16 DEF CloseDone, q
  <2> DEFINE r == [[q EXCEPT !.closing = q.closing - 1] EXCEPT !.numConnection = q.numConnection - 1]
  <2>2. m' = hin_check_alive(r) BY <1>e, <2>1 DEF Released, MasterType
  <2>3. q.closing - 1 \in Nat BY <1>b, <1>f, <2>1 DEF SameOutgoing
  <2>4. q.numConnection - 1 \in Nat BY <1>f, <2>3
  <2>5. /\ r \in MasterType /\ r.flags = q.flags
        /\ r.serverList = q.serverList /\ r.accept = q.accept
        /\ r.clients = q.clients /\ r.numListen = q.numListen
        /\ r.numClient = q.numClient /\ r.numConnection = q.numConnection - 1
        /\ r.busy = q.busy /\ r.idle = q.idle /\ r.closing = q.closing - 1
    BY <1>e, <2>3, <2>4 DEF MasterType
  <2> HIDE DEF r
  <2>6. r.numConnection = r.busy + r.idle + r.closing
    BY <1>f, <2>5
  <2>7. "FINISH" \notin q.flags BY <1>b, <1>f, <2>4 DEF Good, Ended
  <2>8. Good(r) /\ SameClients(q, r) BY <1>b, <2>5, <2>6, <2>7, ConnectionGood
  <2>9. Good(hin_check_alive(r)) /\ SameClients(r, hin_check_alive(r))
    BY <2>8, CheckAliveGood
  <2> QED BY <1>b, <2>2, <2>8, <2>9 DEF SameClients, NobodyNew
<1>17. ASSUME IdleEnds PROVE Good(m') /\ NobodyNew
  <2>1. m' = Released([q EXCEPT !.idle = q.idle - 1]) /\ m.idle > 0
    BY <1>17 DEF IdleEnds, q
  <2> DEFINE r == [[q EXCEPT !.idle = q.idle - 1] EXCEPT !.numConnection = q.numConnection - 1]
  <2>2. m' = hin_check_alive(r) BY <1>e, <2>1 DEF Released, MasterType
  <2>3. q.idle - 1 \in Nat BY <1>b, <1>f, <2>1 DEF SameOutgoing
  <2>4. q.numConnection - 1 \in Nat BY <1>f, <2>3
  <2>5. /\ r \in MasterType /\ r.flags = q.flags
        /\ r.serverList = q.serverList /\ r.accept = q.accept
        /\ r.clients = q.clients /\ r.numListen = q.numListen
        /\ r.numClient = q.numClient /\ r.numConnection = q.numConnection - 1
        /\ r.busy = q.busy /\ r.idle = q.idle - 1 /\ r.closing = q.closing
    BY <1>e, <2>3, <2>4 DEF MasterType
  <2> HIDE DEF r
  <2>6. r.numConnection = r.busy + r.idle + r.closing
    BY <1>f, <2>5
  <2>7. "FINISH" \notin q.flags BY <1>b, <1>f, <2>4 DEF Good, Ended
  <2>8. Good(r) /\ SameClients(q, r) BY <1>b, <2>5, <2>6, <2>7, ConnectionGood
  <2>9. Good(hin_check_alive(r)) /\ SameClients(r, hin_check_alive(r))
    BY <2>8, CheckAliveGood
  <2> QED BY <1>b, <2>2, <2>8, <2>9 DEF SameClients, NobodyNew
<1>6. ASSUME TimerTick PROVE Good(m') /\ NobodyNew
  <2> DEFINE r == hin_server_reaccept(q)
  <2>1. m' = r \/ m' = hin_check_alive_timer(r)
    BY <1>6 DEF TimerTick, q
  <2>2. Good(r) /\ SameClients(q, r) BY <1>b, ReacceptGood
  <2> HIDE DEF r
  <2>3. Good(hin_check_alive_timer(r)) /\ SameClients(r, hin_check_alive_timer(r))
    BY <2>2, AliveTimerGood
  <2> QED BY <1>b, <2>1, <2>2, <2>3 DEF SameClients, NobodyNew
<1>7. ASSUME Quit PROVE Good(m') /\ NobodyNew
  <2>1. m' = hin_stop1(q) BY <1>7 DEF Quit, q
  <2>2. Good(hin_stop1(q)) /\ SameClients(q, hin_stop1(q)) BY <1>b, Stop1Good
  <2> QED BY <1>b, <2>1, <2>2 DEF SameClients, NobodyNew
<1>8. ASSUME Restart PROVE Good(m') /\ NobodyNew
  <2>1. m' = hin_restart1(q) BY <1>8 DEF Restart, q
  <2>2. Good(hin_restart1(q)) /\ SameClients(q, hin_restart1(q))
    BY <1>b, Restart1Good
  <2> QED BY <1>b, <2>1, <2>2 DEF SameClients, NobodyNew
<1>9. ASSUME RestartFails PROVE Good(m') /\ NobodyNew
  <2>1. m' = [q EXCEPT !.done = 0] BY <1>9 DEF RestartFails, q
  <2>2. Good(m') /\ SameClients(q, m') BY <1>b, <2>1, DoneGood
  <2> QED BY <1>b, <2>2 DEF SameClients, NobodyNew
<1>10. ASSUME NEW i \in 1 .. MaxRestart, ChildServes(i) \/ ChildExit(i)
       PROVE Good(m') /\ NobodyNew
  <2>1. PICK d \in {0, 1} : m' = [m EXCEPT !.done = d]
    <3>1. m.done \in {0, 1} BY <1>a DEF Good, MasterType
    <3> QED BY <1>10, <3>1 DEF ChildServes, ChildExit
  <2>2. Good(m') /\ SameClients(m, m') BY <1>a, <2>1, DoneGood
  <2> QED BY <2>2 DEF SameClients, NobodyNew
<1>11. ASSUME UNCHANGED vars PROVE Good(m') /\ NobodyNew
  <2>1. m' = m BY <1>11 DEF vars
  <2> QED BY <1>a, <2>1 DEF NobodyNew
<1>12. /\ child' \in [1 .. MaxRestart -> {"none", "starting", "serving", "exited"}]
       /\ restarts' \in 0 .. MaxRestart
  BY BoundsAssumption DEF IInv, Next, vars, Accept, AcceptError, ClientClose,
     Connect, Release, Reuse, Disconnect, CloseDone, IdleEnds, TimerTick, Quit,
     Restart, RestartFails, ChildServes, ChildExit
<1>13. Good(m') /\ NobodyNew
  BY <1>1, <1>2, <1>3, <1>4, <1>5, <1>6, <1>7, <1>8, <1>9, <1>10, <1>11,
     <1>14, <1>15, <1>16, <1>17 DEF Next
<1> QED BY <1>12, <1>13

(* The inductive invariant holds in every reachable state. *)
LEMMA AlwaysInv == Spec => []IInv
<1>1. IInv /\ [Next]_vars => IInv' BY NextInv
<1> QED BY InitInv, <1>1, PTL DEF Spec

----------------------------------------------------------------------------
(* Every reachable state is well typed; in particular no counter of        *)
(* hin_master_t ever falls below zero. *)
THEOREM TypeCorrect == Spec => []TypeOK
<1>1. IInv => TypeOK BY DEF IInv, Good, TypeOK
<1> QED BY AlwaysInv, <1>1, PTL

(* num_client, num_listen and num_connection are exact. *)
THEOREM CountersCorrect == Spec => []CountersExact
<1>1. IInv => CountersExact
  BY DEF IInv, Good, Counted, CountersExact, AllClients, Connected
<1> QED BY AlwaysInv, <1>1, PTL

(* A stopping server waits for its own clients only, and a server that is  *)
(* no longer listed has neither clients nor an accept buffer. *)
THEOREM DrainingCorrect == Spec => []DrainingServers
<1>1. IInv => DrainingServers
  BY DEF IInv, Good, Owned, Draining, DrainingServers
<1> QED BY AlwaysInv, <1>1, PTL

(* The event loop ends only after every client, server and outgoing        *)
(* connection has gone. *)
THEOREM FinishCorrect == Spec => []FinishSafe
<1>1. IInv => FinishSafe
  BY DEF IInv, Good, Owned, Ended, FinishSafe, Connected
<1> QED BY AlwaysInv, <1>1, PTL

(* A process that was asked to stop accepts nobody. *)
THEOREM NoAcceptCorrect == Spec => NoAcceptAfterQuit
<1>1. IInv /\ [Next]_vars =>
        [\A s \in Servers : "QUIT" \in m.flags => m'.clients[s] \subseteq m.clients[s]]_vars
  BY NextInv DEF NobodyNew
<1> QED BY AlwaysInv, <1>1, PTL DEF Spec, NoAcceptAfterQuit
=============================================================================
