----------------------------- MODULE HinServer -----------------------------
(***************************************************************************)
(* The life of a server process: listening sockets and their accept        *)
(* requests, connected clients, outgoing connections, the graceful stop    *)
(* and the graceful restart (netcode/server.c, netcode/hin.c,              *)
(* netcode/timer.c, system/restart.c, system/console.c).                   *)
(*                                                                         *)
(* The process is one event loop: hin_event_process calls hin_check_alive  *)
(* and then the callback of one completion, so each handler below acts on  *)
(* the state hin_check_alive leaves.  The restarted child is a second      *)
(* process that shares one word, `done`, with its parent.                  *)
(*                                                                         *)
(* hin_server_close frees the accept buffer without cancelling the request *)
(* the kernel holds; the model assumes that no connection arrives on that  *)
(* request before the process ends.                                        *)
(***************************************************************************)
EXTENDS Integers, FiniteSets

CONSTANTS Servers,     \* listening sockets of the configuration
          Clients,     \* connections that can come in
          MaxConn,     \* bound on outgoing connections alive at once
          MaxRestart   \* bound on restart requests

ASSUME BoundsAssumption == /\ MaxConn \in Nat
                           /\ MaxRestart \in Nat
                           /\ IsFiniteSet(Servers)
                           /\ IsFiniteSet(Clients)

VARIABLES m,           \* hin_master_t and its servers
          child,       \* the processes forked by hin_restart1
          restarts     \* restart requests so far

vars == <<m, child, restarts>>

(* accept[s]: the accept buffer of s is with the kernel, idle after a      *)
(* resource error, or gone (accept_buffer == NULL).  An outgoing           *)
(* connection is busy with a request, idle (kept for the next one) or      *)
(* closing; numConnection is the counter that hin_check_alive reads. *)
MasterType ==
  [flags : SUBSET {"QUIT", "FINISH", "RESTARTING"},
   serverList : SUBSET Servers,
   accept : [Servers -> {"armed", "idle", "none"}],
   clients : [Servers -> SUBSET Clients],
   numClient : Nat, numListen : Nat, numConnection : Nat,
   busy : Nat, idle : Nat, closing : Nat,
   done : {0, 1}, restartPid : BOOLEAN]

----------------------------------------------------------------------------
(* hin_server_close on every listed server: drop its accept buffer, and    *)
(* unlist and free it when it has no client. *)
Drained(st) == {s \in st.serverList : st.clients[s] = {}}

MutCloseAllUnlists(st) ==
  [st EXCEPT !.flags = @ \cup {"QUIT"},
             !.accept = [s \in Servers |-> IF s \in st.serverList THEN "none" ELSE @[s]],
             !.serverList = {},
             !.numListen = @ - Cardinality(st.serverList)]

MutCloseAllKeepsAccept(st) ==
  [st EXCEPT !.flags = @ \cup {"QUIT"},
             !.serverList = @ \ Drained(st),
             !.numListen = @ - Cardinality(Drained(st))]

CloseAll(st) ==
  [st EXCEPT !.flags = @ \cup {"QUIT"},
             !.accept = [s \in Servers |-> IF s \in st.serverList THEN "none" ELSE @[s]],
             !.serverList = @ \ Drained(st),
             !.numListen = @ - Cardinality(Drained(st))]

MutTryFinishIgnoresConn(st) ==
  IF "QUIT" \in st.flags /\ st.serverList = {}
  THEN [st EXCEPT !.flags = @ \cup {"FINISH"}] ELSE st

(* The second half of hin_check_alive. *)
TryFinish(st) ==
  IF "QUIT" \in st.flags /\ st.serverList = {} /\ st.numConnection = 0
  THEN [st EXCEPT !.flags = @ \cup {"FINISH"}] ELSE st

(* hin_check_alive: a finished restart stops this process. The hin_stop it *)
(* calls then finds RESTARTING clear, so its own check ends in TryFinish. *)
hin_check_alive(st) ==
  IF "RESTARTING" \in st.flags /\ st.done > 0
  THEN TryFinish(CloseAll([st EXCEPT !.done = 0, !.flags = @ \ {"RESTARTING"}]))
  ELSE TryFinish(st)

(* hin_stop: hin_check_alive runs from hin_server_close for each freed     *)
(* server, or once when nothing is listed. *)
hin_stop(st) ==
  IF Drained(st) # {} \/ st.serverList = {}
  THEN hin_check_alive(CloseAll(st)) ELSE CloseAll(st)

(* hin_stop1: http_connection_close_idle asks for the close of every       *)
(* connection that is idle at this moment.  hin_check_alive calls hin_stop *)
(* without it. *)
hin_stop1(st) ==
  hin_stop([st EXCEPT !.idle = 0, !.closing = @ + st.idle])

MutClientCloseNoServerClose(st, s, c) ==
  [st EXCEPT !.clients[s] = @ \ {c}, !.numClient = @ - 1]

MutClientCloseIgnoresAccept(st, s, c) ==
  LET q == [st EXCEPT !.clients[s] = @ \ {c}, !.numClient = @ - 1]
  IN IF q.clients[s] = {}
     THEN hin_check_alive([q EXCEPT !.serverList = @ \ {s}, !.numListen = @ - 1])
     ELSE q

(* hin_client_close: the last client of a server that no longer accepts    *)
(* closes the server too. *)
hin_client_close(st, s, c) ==
  LET q == [st EXCEPT !.clients[s] = @ \ {c}, !.numClient = @ - 1]
  IN IF q.clients[s] = {} /\ q.accept[s] = "none"
     THEN hin_check_alive([q EXCEPT !.serverList = @ \ {s}, !.numListen = @ - 1])
     ELSE q

(* hin_server_accept_callback with a new socket. *)
AcceptedClient(st, s, c) ==
  [st EXCEPT !.clients[s] = @ \cup {c}, !.numClient = @ + 1]

MutReacceptNothing(st) == st

(* hin_server_reaccept, from every timer tick. *)
hin_server_reaccept(st) ==
  [st EXCEPT !.accept = [s \in Servers |->
     IF s \in st.serverList /\ @[s] = "idle" THEN "armed" ELSE @[s]]]

(* hin_check_alive_timer, when the tick crosses a second. *)
hin_check_alive_timer(st) ==
  IF st.restartPid /\ st.done > 0
  THEN [hin_stop1(st) EXCEPT !.done = 0] ELSE st

(* hin_restart1 after the fork, and hin_restart_do_close. *)
hin_restart1(st) ==
  hin_stop1([st EXCEPT !.done = 0, !.restartPid = TRUE,
                       !.flags = @ \cup {"RESTARTING"}])

----------------------------------------------------------------------------
Init ==
  /\ m = [flags |-> {}, serverList |-> Servers,
          accept |-> [s \in Servers |-> "armed"],
          clients |-> [s \in Servers |-> {}],
          numClient |-> 0, numListen |-> Cardinality(Servers),
          numConnection |-> 0, busy |-> 0, idle |-> 0, closing |-> 0, done |-> 1, restartPid |-> FALSE]
  /\ child = [i \in 1 .. MaxRestart |-> "none"]
  /\ restarts = 0

(* One turn of the event loop hands a completion to the handler. *)
Running == "FINISH" \notin m.flags

Connected == UNION {m.clients[s] : s \in Servers}

Accept(s) ==
  /\ Running
  /\ LET q == hin_check_alive(m)
     IN /\ q.accept[s] = "armed"
        /\ \E c \in Clients \ Connected : m' = AcceptedClient(q, s, c)
  /\ UNCHANGED <<child, restarts>>

(* A failed accept: EAGAIN and its like re-arm the request, EMFILE and its *)
(* like leave it idle, any other error gives up the accept buffer. *)
AcceptError(s) ==
  /\ Running
  /\ LET q == hin_check_alive(m)
     IN /\ q.accept[s] = "armed"
        /\ \E a \in {"armed", "idle", "none"} : m' = [q EXCEPT !.accept[s] = a]
  /\ UNCHANGED <<child, restarts>>

ClientClose(s, c) ==
  /\ Running
  /\ c \in m.clients[s]
  /\ m' = hin_client_close(hin_check_alive(m), s, c)
  /\ UNCHANGED <<child, restarts>>

(* A request opens a connection to another server (hin_connect). *)
Connect ==
  /\ Running
  /\ Connected # {}
  /\ m.numConnection < MaxConn
  /\ m' = [hin_check_alive(m) EXCEPT !.numConnection = @ + 1, !.busy = @ + 1]
  /\ UNCHANGED <<child, restarts>>

(* The request on a connection is over and the connection is kept for the  *)
(* next one (http_connection_release, hin_fcgi_worker_reset), whether or   *)
(* not a stop was asked for. *)
Release ==
  /\ Running
  /\ m.busy > 0
  /\ m' = [hin_check_alive(m) EXCEPT !.busy = @ - 1, !.idle = @ + 1]
  /\ UNCHANGED <<child, restarts>>

(* A request takes an idle connection. *)
Reuse ==
  /\ Running
  /\ Connected # {}
  /\ m.idle > 0
  /\ m' = [hin_check_alive(m) EXCEPT !.idle = @ - 1, !.busy = @ + 1]
  /\ UNCHANGED <<child, restarts>>

(* hin_connect_release, then hin_check_alive (http_client_unlink). *)
Released(st) == hin_check_alive([st EXCEPT !.numConnection = @ - 1])

(* A busy connection ends with its request. *)
Disconnect ==
  /\ Running
  /\ m.busy > 0
  /\ m' = Released([hin_check_alive(m) EXCEPT !.busy = @ - 1])
  /\ UNCHANGED <<child, restarts>>

(* The close that hin_stop1 asked for completes. *)
CloseDone ==
  /\ Running
  /\ m.closing > 0
  /\ m' = Released([hin_check_alive(m) EXCEPT !.closing = @ - 1])
  /\ UNCHANGED <<child, restarts>>

(* The other end closes an idle connection; nothing in this process makes  *)
(* it do so. *)
IdleEnds ==
  /\ Running
  /\ m.idle > 0
  /\ m' = Released([hin_check_alive(m) EXCEPT !.idle = @ - 1])
  /\ UNCHANGED <<child, restarts>>

(* hin_timer_callback, with and without a new second. *)
TimerTick ==
  /\ Running
  /\ LET q == hin_server_reaccept(hin_check_alive(m))
     IN m' \in {q, hin_check_alive_timer(q)}
  /\ UNCHANGED <<child, restarts>>

(* The console command or the end of the console's input: hin_stop1. *)
Quit ==
  /\ Running
  /\ m' = hin_stop1(hin_check_alive(m))
  /\ UNCHANGED <<child, restarts>>

(* The restart signal or command, when fork works. *)
Restart ==
  /\ Running
  /\ restarts < MaxRestart
  /\ m' = hin_restart1(hin_check_alive(m))
  /\ child' = [child EXCEPT ![restarts + 1] = "starting"]
  /\ restarts' = restarts + 1

(* fork fails: only the shared word was reset. *)
RestartFails ==
  /\ Running
  /\ restarts < MaxRestart
  /\ m' = [hin_check_alive(m) EXCEPT !.done = 0]
  /\ UNCHANGED <<child, restarts>>

(* A child reaches its event loop and says so in the shared word. *)
ChildServes(i) ==
  /\ child[i] = "starting"
  /\ child' = [child EXCEPT ![i] = "serving"]
  /\ m' = [m EXCEPT !.done = 1]
  /\ UNCHANGED restarts

(* A child ends, after a failed start or later; SIGCHLD runs               *)
(* hin_restart_child_done in this process. *)
ChildExit(i) ==
  /\ child[i] \in {"starting", "serving"}
  /\ child' = [child EXCEPT ![i] = "exited"]
  /\ m' = [m EXCEPT !.done = IF Running THEN 1 ELSE @]
  /\ UNCHANGED restarts

Next == \/ \E s \in Servers : Accept(s) \/ AcceptError(s)
        \/ \E s \in Servers, c \in Clients : ClientClose(s, c)
        \/ Connect \/ Release \/ Reuse \/ Disconnect \/ CloseDone \/ IdleEnds
        \/ TimerTick \/ Quit \/ Restart \/ RestartFails
        \/ \E i \in 1 .. MaxRestart : ChildServes(i) \/ ChildExit(i)

(* Requests end (a pipe completes and the idle timeout closes the rest),   *)
(* so a busy connection becomes idle or ends; a close on the ring          *)
(* completes, and the timer completion always comes back.  Nothing is      *)
(* assumed of an idle connection. *)
Fairness == /\ \A s \in Servers, c \in Clients : WF_vars(ClientClose(s, c))
            /\ WF_vars(Release \/ Disconnect)
            /\ WF_vars(CloseDone)
            /\ WF_vars(TimerTick)

Spec == Init /\ [][Next]_vars

FairSpec == Spec /\ Fairness

----------------------------------------------------------------------------
(* Type invariant: no counter of hin_master_t falls below zero, and the    *)
(* accept buffers, clients and children are in states the code has. *)
TypeOK == /\ m \in MasterType
          /\ child \in [1 .. MaxRestart -> {"none", "starting", "serving", "exited"}]
          /\ restarts \in 0 .. MaxRestart

(* The loop ends only when every accepted client was closed, every server  *)
(* freed and every outgoing connection released: a graceful stop drops no  *)
(* request (hin_check_alive tests server_list and num_connection, never    *)
(* num_client). *)
FinishSafe ==
  "FINISH" \in m.flags => /\ "QUIT" \in m.flags
                          /\ m.serverList = {}
                          /\ Connected = {}
                          /\ m.numConnection = 0

(* After a stop, every server still listed waits for its own clients and   *)
(* has given up its accept buffer: hin_client_close will free it.  An      *)
(* unlisted server has neither. *)
DrainingServers ==
  \A s \in Servers :
    /\ s \in m.serverList /\ "QUIT" \in m.flags =>
         m.clients[s] # {} /\ m.accept[s] = "none"
    /\ s \notin m.serverList => m.clients[s] = {} /\ m.accept[s] = "none"

(* num_client and num_listen, which the log and the start-up test rely on, *)
(* and num_connection, which decides the end, agree with the clients,      *)
(* servers and outgoing connections that exist after any sequence of       *)
(* accepts, errors, reuses and stops. *)
CountersExact ==
  /\ m.numListen = Cardinality(m.serverList)
  /\ m.numClient = Cardinality(Connected)
  /\ m.numConnection = m.busy + m.idle + m.closing

(* Once asked to stop, the process accepts nobody, whatever accept         *)
(* completions, ticks and restarts still happen. *)
NoAcceptAfterQuit ==
  [][\A s \in Servers : "QUIT" \in m.flags => m'.clients[s] \subseteq m.clients[s]]_vars

(* A stop ends the process, or brings it to where every server, client and *)
(* busy connection is gone and it only waits for idle connections: one     *)
(* that goes idle after the stop is closed by nobody here                  *)
(* (http_connection_release does not look at HIN_FLAG_QUIT). *)
WaitsForIdle == m.serverList = {} /\ m.idle > 0 /\ m.numConnection = m.idle

StopEnds == "QUIT" \in m.flags ~> "FINISH" \in m.flags \/ WaitsForIdle

(* A server whose accept ran out of descriptors accepts again (or is       *)
(* stopped): hin_server_reaccept retries it. *)
AcceptResumes ==
  \A s \in Servers : m.accept[s] = "idle" ~> m.accept[s] # "idle"

(* What master.h says of the shared word: 1 means that the child finished  *)
(* starting. *)
DoneMeansStarted ==
  m.restartPid /\ m.done = 1 =>
    \E i \in 1 .. MaxRestart : child[i] = "serving"
=============================================================================
