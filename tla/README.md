# hin9 in TLA+

hin9 is a single-threaded web server on io_uring: HTTP/1.1 with pipelining and
keep-alive, files, CGI and FastCGI, a reverse proxy, a local cache of generated
responses, Lua configuration, graceful stop and graceful restart. Everything is
a callback of a completion on the ring, so its hard part is not threads but the
order of completions: a pipe, a request, a timer and a close all hold pointers
to the same objects, and only flags and counters say who may free what.

This directory models that part. Paths are given relative to the source
directory of the repository (`netcode/pipe.c` and so on). A definition keeps the name of the
function it models; `PROJECT.json` maps definitions to lines.

## Inventory

| component | state | operations | hard behaviour |
|---|---|---|---|
| pipe (`netcode/pipe.c`) | flags of both ends, `left`, `count`, `reading`, `writing`, `write_que` | start, read and write callbacks, advance, finish, close, FastCGI feed | short writes, merging of small buffers, back-pressure, errors on either side, close with operations in flight |
| server, stop, restart (`netcode/server.c`, `netcode/hin.c`, `system/restart.c`) | `server_list`, accept buffers, client lists, outgoing connections, counters, flags, the word shared with the restarted child | accept, accept errors, client close, connect, release, reuse, disconnect, tick, quit, restart, child start and exit | draining, running out of descriptors, a child that dies, an outgoing connection that goes idle after the stop |
| cache (`http/cache/cache.c`) | hash table, objects with reference count, queue, timer and fill, store size | check, save, finish, error, expire, clean | references held by five parties, expiry and errors during a fill |
| timers (`system/timing.c`) | sorted list, time of each timer | update, remove, check, flush | callbacks that change the list being walked |
| HTTP connection (`http/server/*.c`) | `HIN_REQ_*` flags, keep-alive, line buffer, operations in flight | read, the answer functions, their completions, upload, timeout, shutdown, close | pipelining, answer and upload ending in either order, close against completions |
| CGI (`http/cgi/httpd_cgi.c`, `cgi_parse.c`) | worker, output descriptor | start, head, end, failure | a program that dies at any point |
| FastCGI (`http/cgi/fcgi*.c`) | connections of a group, workers by request id, idle workers, waiting requests, busy flag | get, connect, run, upload, records, end, reset, close, clean | many requests on one connection, an upload that blocks the others, upload, answer and connection ending in any order, a connection that is never made |
| HTTP client and reverse proxy (`http/client/*.c`) | `io_state`, idle list, the parent request | get, start, send, head, body, upload, release, reuse, retry, shutdown, unlink | reuse of a connection the peer closes, a retry that must not answer twice, several operations that point at one connection, a parent that leaves in the middle of its answer |
| ring (`netcode/uring.c`, `timer.c`, `epoll.c`) | `HIN_ACTIVE`, submission ring, overflow list, polled descriptors, the tick | request, process, wait, poll | a full ring, one completion per turn, synchronous requests |
| line buffers (`netcode/buffer.c`) | bytes, count, `HIN_ACTIVE` | request, read, reread, eat | partial heads |
| filters (`http/utils/filters.c`) | chunk state, zlib stream | encode, decode | a chunk header split over reads |
| TLS, listen, daemon, signals, console, Lua, virtual hosts, formatting | | | mostly glue and text |

Interaction: a server accepts and creates an HTTP connection; the connection
parses a request and calls Lua, which calls one of the answer functions; these
start raw writes, pipes, workers or proxied requests; every one of them ends in
`httpd_client_finish_request`, which starts the next request or closes; the
close ends in `hin_client_close`, which ends the server, which ends the
program. The cache sits between a pipe and its requests, the timers call the
connections and the cache objects.

## Modules

| module | models | checked by |
|---|---|---|
| `ByteCopy` | what a pipe promises: bytes taken are delivered in order, then end or failure | refinement by `HinPipe` |
| `HinPipe`, `MCHinPipe` | one pipe, with the set-ups that the callers use | run `pipe` |
| `HinServer`, `MCHinServer` | accept, drain, stop, restart | runs `server`, `server_done` |
| `HinCache`, `MCHinCache` | the response cache with its requests | runs `cache`, `cache_expire` |
| `HinTimer`, `MCHinTimer` | the timer list with its owners | run `timer` |
| `HinHttpd`, `MCHinHttpd` | one HTTP connection | runs `httpd`, `httpd_post` |
| `HinFcgi`, `MCHinFcgi` | a FastCGI group with its requests | runs `fcgi`, `fcgi_close` |
| `HinProxy`, `MCHinProxy` | the HTTP client under the reverse proxy | run `proxy` |
| `HinUring`, `MCHinUring` | the event loop: ring, overflow list, tick, poll | run `uring` |
| `HinServerProofs`, `HinPipeProofs`, `HinCacheProofs`, `HinHttpdProofs`, `HinTimerProofs`, `HinUringProofs`, `HinProxyProofs`, `HinFcgiProofs` | theorems about the module each is named after | TLAPS |

Each callback is one action: the event loop runs one callback to its end before
the next. Where a callback calls back into the same data (the walk over the
timers) the walk is split at the calls. Functions that only change one record
are operators from record to record with the name of the C function; the action
applies them to the variable. Operators whose name begins with `Mut` are faulty
variants of the definition after them, used to test that a property can fail.

**HinPipe.** `pipe` is `hin_pipe_t`; a buffer is the range of output offsets
it holds. This is sound because the queue is gap-free, which `IntakeExact` says;
the length of what is queued, a sum in the code, is then a difference of two
offsets.
`ReadData`, `ReadEnd`, `WriteData` and `WriteError` are the completions the
kernel may produce, with every length; `Feed` and `Finish` are FastCGI records.
Filters (chunked, deflate) are not applied.

**HinServer.** `m` is `hin_master_t` with its servers. `hin_event_process` runs
`hin_check_alive` before each callback, so each action starts from its result.
The restarted child is a process of its own that can write `done` between any
two callbacks. An outgoing connection is `busy` with a request, `idle` or
`closing`: `Release` and `Reuse` move it between the first two, whether or not a
stop was asked for, `hin_stop1` (`http_connection_close_idle`) makes the idle ones
of that moment `closing`, and `IdleEnds` is the other end closing an idle one.
`numConnection` is the counter the program keeps beside them.

**HinCache.** `item` is `hin_cache_item_t`; a freed object keeps its record so
that a late reference is visible. `req` and `of` say where each request stands.

**HinTimer.** `list` and `time` are the list and the `time` fields; `owner` is
what a callback looks at. `Fire` is one turn of the loop of `hin_timer_check`.
`hin_timer_update` is a removal and an insertion at the place its walk ends at;
the walk starts at the timer's own place, so a timer that is not listed goes to
the end.

**HinHttpd.** `h` is `httpd_client_t` together with the operations that point
at it (`ops`), `peer` the other end. A request is its parse result, method,
keep-alive, the calls its handler makes, and where its body is. A pipe, a
worker, an upload and a proxied request are one operation each.

**HinFcgi.** `g` is `hin_fcgi_group_t` with its connections (`sock`), workers
(`work`) and the HTTP requests they serve (`req`); sockets and workers are
numbered as they are allocated, so a freed one stays visible. The functions of
the code are operators from group to group. The loop of
`hin_fcgi_socket_continue`, which `hin_fcgi_worker_run` can enter again, is a
function (`Loop`) of the group, the connection and the worker the code
remembers, built from one turn (`RunQueued`) by recursion on the number of turns;
a turn takes a worker off the waiting list or steps over one that already ran, so
as many turns as there are workers, and one more, are enough. `back` is what the
backend has been sent. A NULL or freed pointer that the code would follow, and a record that
would reach another client, is recorded in `bad` and ends the behaviour. A request
that makes a connection chooses what `hin_connect` does, whose result the code
ignores: start, return at once because the name does not resolve (nobody will
call back: `resolved` is false), or call back with an error before it returns,
because there is no socket (the connection is freed and then used). The
faults a behaviour had are in the variable `faults`; at most one that the code does not
survive happens per behaviour, and properties that hold only without it say so. An
unresolved name is no such fault: nothing is excused after it.

**HinProxy.** `p` holds every `http_client_t`, `master.connection_idle` and the
parents. Each operation with the kernel that points at a connection is a field
(`connecting`, `read`, `sending`, `pipe`, `post`, `closing`). The retry of
`http_client_restart` is a second `Ask` for the same parent. A connection leaves
the idle list by `basic_dlist_remove`; the loop of `http_connection_close_idle` is
a recursive function on the number of connections already shut down. A parent may
leave in the middle of its answer (`PipeFails`): the write to it fails, the pipe shuts
it down and tells the connection that the answer is over, although the pipe may still
have a read with the kernel and the rest of the answer is still to come. The connection goes
idle with it (`rest`) and is given to the next request. The read of the pipe may
take the rest (`RestTaken`); otherwise the next head fails to parse and the request
is asked again (`Garbled`), unless that read waits on and takes the next answer
(`AnswerTaken`). `bad` is as in `HinFcgi`; `faults` remembers a refused connection,
a failed send, an upload that had to be sent again, a parent that left during its
upload, and an answer that was taken. The code does not recover from the last four
(`Unrecovered`).

**HinUring.** One variable per structure: `active` (`HIN_ACTIVE`), `sq`,
`queue`, `kernel`, `cq`, `polled`. The rest of the program is the owner of the
buffers: between a turn and its return it may make any request on any buffer it
owns. `hin_event_wait` submits, `Complete` is the kernel, `hin_event_process`
and `hin_timer_callback` take one completion, since the loop of
`hin_event_process` overwrites its bound with the result of the callback.

How the modules fit: `HinUring` justifies the completions the others assume
(each request completes once, in any order); `HinPipe` is one `pipe` or
`upload` operation of `HinHttpd`, `HinFcgi` and `HinProxy`; the end of a request
in `HinFcgi` and `HinProxy` is `httpd_client_finish_request` of `HinHttpd`; the
connections of `HinProxy` are the counter that `HinServer` waits for.

## Runs, bounds and what they show

* `pipe`: `READ_SZ` = 3 and sources of up to 7 bytes (10 for the fill that
  reaches back-pressure), all set-ups of the callers. Three bytes are the
  smallest buffer that can be short written twice; 10 bytes exceed the two-buffer
  limit. A byte always lands at its offset, counted pipes leave the rest in the
  socket, the pipe tells its owner once, is freed
  with nothing in flight, ends, and implements `ByteCopy`.
* `server`: 2 servers, 3 clients, 2 outgoing connections, 2 restarts: one server
  can drain while another is freed and a client slot is used again, and one
  connection can be idle at the stop while another goes idle after it. The program
  ends only when all are gone, and nobody is accepted after a stop. It ends, or
  comes to where only idle connections are left (`WaitsForIdle`): the stop closes
  those that are idle, but one whose request ends later is kept
  (`http_connection_release` does not look for a stop) until its other end closes it.
* `server_done` (violation): `master.h` says that 1 in the shared word means
  "finished start"; the parent also writes 1 when the child dies.
* `cache`: 2 keys, 3 requests, 3 objects, room for 2: the cache can fill, two
  requests can miss together and a key can be generated again.
* `cache_expire` (violation): `max-age` passes in use and a count goes negative,
  which `hin_cache_unref` itself reports as an error.
* `timer`: 3 clients (interchangeable, so symmetric), 1 object, times up to 3,
  one or two different timeouts. The saved successor stays valid, every armed
  timer is listed once, a flush reaches every timer, and with one timeout the
  list is sorted.
* `httpd`: up to 3 requests, sent in any grouping, out of 96 kinds (15 handler
  behaviours, both methods, bodies complete or not, refused heads). Two suffice
  for "the next request", the third makes the second a middle one. Answers go
  out once and in order, no head is read while body bytes remain, buffered
  requests are not left waiting, nothing points at a freed client, and every
  connection ends.
* `httpd_post` (violation): a CGI program that dies during the upload makes
  the end of the request not wait for it, against the comment in `httpd.c`.
* `fcgi`: 3 requests of every mix of kinds (GET, body with the head, body still
  in the socket) on 2 connections: two requests share one connection, and the
  third takes an idle worker or waits behind an upload. All faults are on.
  Workers, slots, the idle list and the count that closes a connection agree
  (`GroupExact`, with uploads that never overlap); every request gets one
  answer; a request that waits has somebody who will wake it, or is on a
  connection whose name did not resolve (`StalledOnlyUnmade`): that one stays busy
  in the group for ever, since `hin_fcgi_get_socket` ignores the result of
  `hin_connect`, but holds up no other connection. (`docs/changes.md` line 142 lists
  a cleanup for a FastCGI socket that fails to connect; the code has it for a refused
  connection, which calls back, and not for this one.) Nothing
  undefined is reached unless a backend closed or ended early, a client left,
  the program stopped with a request in flight, or there was no socket for a new
  connection.
* `fcgi_close` (violation): the change log says that the server no longer
  crashes when the backend closes early; during an upload it still follows the
  NULL socket of the worker.
* `proxy`: 2 requests to one server, one an upload, and 2 events out of:
  connections refused or closed, and answers not taken by their parents
  (`MaxClose`). A reused connection can be closed, its retry find another idle one, one with
  the rest of an old answer, or a refusal. The parent is answered once, the idle
  list agrees with the connections, a closed connection is freed by whoever ends
  last, and every request ends. Four faults are excused, see the hazards: a failed
  send (the code tells the parent and may still retry), an upload cut in the
  middle, a parent that leaves during its own upload (its close frees it before the
  upload ends) and an answer taken by the read of a failed pipe. A parent that leaves in the
  middle of its answer with no upload running is not excused.
* `uring`: a ring of 2 entries, an accept that may never complete, 2 other
  buffers, the console and a file, 2 requests each: three requests and the tick
  overflow the ring. A buffer has exactly one request in one place while it is
  active, the tick is never on the overflow list, and every request completes.

Deadlock is checked in `httpd`, `fcgi`, `fcgi_close`, `proxy` and `uring`; a freed
client, and a process that is done, have an explicit `Done` step. The other systems really stop: a pipe is freed, the program ends, the requests of
the cache are used up, the clock of the timer model reaches its bound.

## Fairness

* Completions: the ring completes every operation (`HinPipe`, `HinCache`,
  `HinHttpd`). A FastCGI worker ends its request, a CGI program and a proxied
  server answer, and a peer that announced a body sends it or closes.
* The timer: `hin_timer_callback` submits its timeout again before anything
  else, so `TimerTick` and `Timeout` are weakly fair.
* `HinServer`: clients close (answers complete, idle ones time out), a busy
  outgoing connection is released or ends, and a close on the ring completes, each
  weakly fair. Nothing is assumed of an idle connection, which only its other end
  closes.
* `HinProxy`: some operation of some connection makes progress as long as one
  can. Weak fairness of each would be implied by the ring; this weaker form is
  all that `EveryRequestEnds` needs. It includes that a server answers or closes.
  That a parent leaves, and what the read of its pipe takes, is not part of it.
* `HinUring`: the process runs and the kernel completes what it was given, the
  tick included, except the requests in `Patient`. A polled descriptor is looked
  at in every tick and may or may not be ready, so its callback is strongly
  fair: input that keeps being there is found.
* `HinFcgi` states none. Instead of liveness, `StalledOnlyUnmade` says of each waiting
  request whose step it waits for, and where nobody takes one.

No fairness is put on the peer closing, on failures, on a stop or on a restart.

## Assumptions

* No connection arrives on an accept request whose server was closed
  (`buffer.c` notes that requests are not cancelled).
* A child started by a restart writes its word after `hin_restart1` returned.
* No request but the `openat` of a file completes synchronously (that is, no
  TLS) and no submission fails.
* `HinFcgi`: one record per read, a head within the first record, and the write
  of a request completes whole. The response cache is not consulted. That names
  resolve is not assumed.
* `HinProxy`: URLs name their port (`http_connection_get` reuses no other),
  names resolve and a socket can be made (`http_connection_start` ignores the
  result of `hin_connect` as FastCGI does), and a response head fits in one read.
  The rest of an answer is not itself a response head. A parent leaves by a failed write of its answer; one that is
  closed otherwise while it is answered (the idle timeout) is `Cut` of `HinHttpd`.
* `HinUring`: the program makes a bounded number of requests per buffer; a lasting
  overload would starve the oldest entry of the overflow list, which is last in,
  first out. Buffers are freed by the result of their callbacks; a buffer freed by
  `hin_buffer_stop_clean` with a request in flight is outside the model. An active
  buffer has one request; that whoever asked is answered is not stated.
* A request head and a CGI head fit in one buffer.
* Run `cache`: an object does not expire while it is filled or sent; no
  newer object of the same key is created while a failed fill drains; a range
  lies within the object. `Faults` lifts them one by one.
* Run `httpd`: answers do not fail and the idle timeout does not come while an
  upload or another operation of the same request runs (`Cut`), save for an
  upload without a count, which nothing else ends; the temporary file of an
  upload opens; only a POST has a body (the server looks for a length in no
  other request, so the body of a GET would be read as the next request); a proxied server can be reached (`HinProxy` has the refusal); a
  read woken by `SHUT_RD` completes before the close.

## Proofs

The theorems hold for every value of the constants that the named assumptions
allow. In each module one invariant `IInv` is inductive, TLC has evaluated it (of
`HinFcgi`: the properties that follow from it) on the run of the component, one lemma per function or action carries it, and the
theorems follow from it. An action property needs `IInv` before the step.

| module | theorems | hypotheses beyond the ASSUMEs of the model |
|---|---|---|
| `HinServerProofs` | `TypeOK`, `CountersExact`, `DrainingServers`, `FinishSafe`, `NoAcceptAfterQuit` (a step property) | none |
| `HinUringProofs` | `RequestsExact`, `TickNeverQueued` | none |
| `HinPipeProofs` | `TypeOK`, `FaithfulCopy`, `IntakeExact`, `FinishedComplete`, `SafeFree`, `OwnerNotifiedOnce` (a step property), the refinement `ImplementsCopy` | for `IntakeExact`: what a caller hands over before the start is less than three buffers |
| `HinCacheProofs` | `TypeOK`, `RefcountExact`, `NoDanglingItem`, `StoreExact` | no fault of the list under Assumptions (`Faults = {}`) |
| `HinHttpdProofs` | `TypeOK`, `NoUseAfterFree`, `AnswersInOrder`, `RequestBoundary`, `PipelineServed` | `Cut = FALSE`: no failed answer or timeout while another operation of the request runs |
| `HinTimerProofs` | `TypeOK`, `ListExact`, `SortedWhenUniform`, `FlushVisitsAll` (a step property) | none |
| `HinProxyProofs` | `TypeOK`, `ConnectionsExact`, `ParentAnsweredOnce` | none; the last two excuse a behaviour after one of the four faults of `Unrecovered` |
| `HinFcgiProofs` | `SafeWithoutFaults` | none; names may fail to resolve in all of them |
| | `AnsweredOnce`, `StalledOnlyUnmade` | connections are reused (`MaxSocket > 0`) |
| | `TypeOK`, `GroupExact` | `MaxSocket > 0`, and for the states up to the first fault (`NoFault`) |

The hypotheses are those of the runs: with the faults, and with `Cut`, the code
does break the properties, which is what `cache_expire`, `httpd_post` and the
hazards without a property are about. `IntakeExact` needs its hypothesis because
the back-pressure of `hin_pipe_advance` only stops reads: what the caller
appended before the start stays queued however much it is. The callers hand over
a response header, at most one buffer, and what came with the request head, at most
another. The assumption `Depth >= 2` of `HinUring` is
needed: on a ring of one entry the tick can find it taken.

**HinServer.** That the program finishes safely needs that a server that is not
listed has no clients (the code never looks at `num_client`); that counters are
exact needs that no client belongs to two servers, and of `num_connection` that every
connection is in one of its three states; that no step accepts needs
that after a stop no accept buffer is left. `Good` is their conjunction, stated of
a record: well typed, `Owned`, `Draining`, `Ended`, `Counted`.

**HinUring.** `RequestsExact` is nearly inductive: `Count` of a buffer on each
list, which the lemmas on `Count` follow through append, head and tail. What it
lacks is why the tick finds room on the ring: the loop sleeps only with an empty
submission ring, since `hin_event_wait` has given all of it to the kernel.

**HinPipe.** The invariant has two shapes. `Open`: the buffers of `write_que`
are a `Chain` from the first byte no write was submitted for to the last byte
taken; the write and the read in flight ask for the bytes at the offsets that
come next; `left` counts down with the source; and a `DONE` input has a reason
(`Exhausted`). `Closed`: the owner was told, the queues are empty, and only a read
that was outstanding when a write failed keeps the pipe. The loops (the merge in
`hin_pipe_write_next`, the pieces of `hin_pipe_append_raw`) are proved by taking
a least counterexample. Every step is then a step or a stutter of `ByteCopy`.

**HinCache.** A live object has as many references as the table, its queue and
the requests it is sent to account for (`LiveOK`); that no party drops one it does
not hold needs to know of each phase of the fill who waits and whether the table
still leads to it (`FillOK`, `QueueOK`), and that a freed object is referred to by
nobody (`FreedOK`). The size of the store is `ObjSize` times the number of complete
objects in the table (`StoreExact`).

**HinHttpd.** `Good` is stated of the client record: while it reads, it `Waits`
(nothing in flight, no request in the buffer, no body left); while operations are
in flight it is `Busy`, with one of nine possible sets of operations
(`Together`) and the flags that keep the end of the request from running early;
a close was requested exactly when `STOPPING` is set. A request is answered by a
sequence of handler calls and its end may parse the next buffered request in the
same callback, so `hin_server_callback` is recursive; it is defined as a function
on the number of buffered requests and its lemma is again a least
counterexample.

**HinTimer.** First what `RemoveAt` and `InsertAt` do to a list of distinct
timers, position by position; from there on only membership and order
(`Removed`, `Updated`, `OrderKept`). Besides the properties, the invariant says
that no timer is armed further ahead than `now` plus a timeout in use
(`TimeBound`), which is why with one timeout a timer armed now belongs at the
end, and `FlushOK`: during a flush the list is in order whatever the timeouts
are, because all times were set to 0 and a re-armed timer walks forward past all
that are due, and every waiting client is at or behind the saved successor. That
gives `FlushVisitsAll`, although the same walk may miss due timers when it is not
a flush and timeouts differ.

**HinProxy.** The two properties excuse a behaviour after one of the four faults the
code does not recover from, and neither is inductive, so the invariant has two
layers. `Base` holds whatever fails: the idle list holds exactly the connections
that are flagged `IDLE` and not `STOPPING`, once each (`Listed`), and the flags of a
connection allow for the operations on it (`Sound`). It is what
`basic_dlist_remove` needs: a connection is removed only if it is listed. `Sure`
holds until one of the four faults: nothing undefined was reached, every connection
is in one of five stages (`Connecting`, `Working`, `Idle`, `Over`, `Failed`, with the
operations each allows), at most one connection serves a request, and the counters
of the parent agree with whether that connection has been answered (`ServedBy`). The
last part is why a retry is safe: it happens only on a connection that was not
answered, whose parent therefore has begun and ended nothing; and why the rest of an
answer does no harm: the parent it was meant for ended its request when it left, and a
connection with a rest may be `Idle` or `Working` but gives no answer. The lemmas
`OneMoves` and `OneMovesAlone` reduce a step to what it does to one connection;
`Joined` and `Retried` are the two shapes of a step that touches two. The loop of
`http_connection_close_idle` is shown equal to its closed form (`Partly`: the first
`n` connections of the list are down and gone from it) by a least counterexample.
The assumption that `"none"` is not a request only keeps the name of a NULL parent
apart.

**HinFcgi.** The properties hold because three lists and one flag agree with what
the workers are doing. A worker is in one of five stages (`Idle`, `Gone`, `Queued`,
`Uploading`, `Serving`), a request has at most one worker and its flags are those
of the worker's stage (`Agrees`), or of nobody's (`Alone`); a worker is on the idle
list exactly when it is idle, on the waiting list of its connection exactly when it
is queued, and in its slots in any case, so that `num_worker` is their number
(`SocketOK`). `Held` is the protocol that no single function shows: `busy` is set
exactly while the connection is being made (or never will be) or one upload runs over it, and nobody
waits behind a connection that is not busy. `Held` is broken in the middle of
`hin_fcgi_socket_continue`, so the lemmas about the functions use the rest (`Most`)
and say when `Held` comes back. The loop is the hard one: a loop that is allowed
one turn more than there are waiting workers runs all of them, or all up to the first
with an upload, which keeps the connection busy, and touches nothing else (`Drains`,
`Works`). The loop that a turn enters again has a turn less and a list shorter by one,
so it has already run everybody, or found an upload, when the outer loop goes on with
the worker it remembers, and the `DATA` or the `busy` flag stops the outer loop. This is
proved by a
least counterexample on `n`. A refused connection is followed through the slots
of `hin_fcgi_socket_close`, one worker after the other; `hin_fcgi_clean` through
the idle list, counting the slots that are left (`Filled`, `Cleaned`). After the
stop of an idle group the invariant is `Resting`: all is closed and only error
responses are still written; `Whole` is either. `faults` only grows (`FaultsStay`),
so `NoFault => Whole` is inductive, and the properties that excuse a fault hold in
every state. `GroupExact` has two parts that do not (types and sequential uploads),
which the theorem states up to the first fault.

What stands where on a list after a removal, and that a set of natural numbers has
a least element, are lemmas of each module that needs them.

Only model-checked:

* all liveness properties: they need fairness, which is out of the prover's reach;
* the types and `UploadsSequential` of `HinFcgi` after a fault, where the code
  follows pointers that are no longer there (`fcgi_close`).

A group that opens a connection per request (`MaxSocket = 0`) is in the model; the
run has `MaxSocket = 2` and the theorems other than that on `SafeWithoutFaults`,
which says nothing about it, exclude it.

## Not modelled

* TLS (`netcode/ssl.c`): needs a model of OpenSSL memory BIOs.
* Listening and the retry of a busy port: start-up only.
* Header text, URI parsing and formatting: text, of which the models keep the
  outcomes.
* Lua configuration, virtual hosts and the file map: glue around Lua tables,
  without concurrent steps of its own.
* Options, daemonising, the pid file, signals: input and output.
* Content filters (chunked, deflate) and the chunk decoder.
* Downloads to a file (`http/client/download.c`).

## Plan

1. Done: `HinPipe` with `ByteCopy`, `HinServer` with proofs, `HinCache`,
   `HinTimer`, `HinHttpd`, `HinFcgi`, `HinProxy`, `HinUring`.
2. Done: proofs about `HinServer`, `HinUring`, `HinCache`, `HinPipe` with the
   refinement, `HinHttpd`, `HinTimer`, `HinProxy` and `HinFcgi`.
3. Chunk encoding and decoding as operators, checked against a reference over
   all splits of bounded inputs.
