---------------------------- MODULE HttpConnection ----------------------------
(***************************************************************************)
(* The class http_connection of src/http_connection.hpp and the accept     *)
(* loop of src/main.cpp.  Each connection has an asynchronous read, at     *)
(* most one asynchronous write, two deadline timers, and an image          *)
(* processor whose ready hook answers from a thread of the pool.           *)
(*                                                                         *)
(* One thread runs the io loop: its handlers exclude each other, over all  *)
(* connections.  The hook runs concurrently with them.  Between them every *)
(* call of respond_with_error or respond_ok is four steps.                 *)
(*                                                                         *)
(* A timer that expired has queued its handler, and cancel does not call   *)
(* it back.  A cancelled timer has queued a handler that does nothing.     *)
(* Every queued or waiting handler holds a shared_ptr to the connection;   *)
(* the processor holds a weak_ptr, and a plain reference to the body of    *)
(* the request.  The asio objects are not safe for use from two threads:   *)
(* each call is modelled as if it were.                                    *)
(***************************************************************************)
EXTENDS Naturals, Sequences, FiniteSets

CONSTANTS Conns,     \* the connections that may be made
          Requests,  \* what may be wrong with a request: sets of faults
          None

(***************************************************************************)
(* What process_request and process_upload_request look for, in this       *)
(* order.  Each is named for the error that is answered.                   *)
(***************************************************************************)
Checks == <<"payload_too_large", "bad_request", "url", "not_found",
            "method_not_allowed", "missing_filename", "unauthorized">>
Faults == {Checks[n] : n \in DOMAIN Checks}
Outcomes == {"ok", "invalid_image", "internal"}

ASSUME RequestsAssumption ==
  /\ Requests \subseteq SUBSET Faults /\ {"bad_request"} \in Requests
  /\ None \notin Faults \cup Outcomes \cup {"processing_timed_out"}

VARIABLES read,       \* the async_read of each connection
          kill, stop, \* socket_kill_deadline and processing_stop_deadline
          socket,
          responded,  \* the atomic flag
          write,      \* the async_write
          writes,     \* history: async_writes started
          step,       \* step[c][t]: what thread t executes next for c
          reply,      \* reply[c][t]: what it wants to answer
          status,     \* what was written to response
          request,    \* what is wrong with the request, once it was read
          proc,       \* the image processor of the upload, or its outcome
          resizing,   \* the uploads whose resize and save tasks may run
          dangling    \* history: a task read the body of a freed request

answer == <<reply, status>>
upload == <<request, proc, resizing, dangling>>
timers == <<kill, stop>>
vars == <<read, timers, socket, responded, write, writes, step, answer, upload>>

Threads == {"io", "hook"}
\* What a task that has read the body has made of it.
Reading == {"checked", "loaded", "unloadable"}
Responding == {"cancelKill", "cancelStop", "exchange", "write"}

Init ==
  /\ read = [c \in Conns |-> "none"]
  /\ kill = [c \in Conns |-> "unset"]
  /\ stop = [c \in Conns |-> "unset"]
  /\ socket = [c \in Conns |-> "none"]
  /\ responded = [c \in Conns |-> FALSE]
  /\ write = [c \in Conns |-> "none"]
  /\ writes = [c \in Conns |-> 0]
  /\ step = [c \in Conns |-> [t \in Threads |-> "idle"]]
  /\ reply = [c \in Conns |-> [t \in Threads |-> None]]
  /\ status = [c \in Conns |-> None]
  /\ request = [c \in Conns |-> {}]
  /\ proc = [c \in Conns |-> "none"]
  /\ resizing = {}
  /\ dangling = FALSE

-----------------------------------------------------------------------------
(* Who keeps the connection.                                                *)

Waiting == {"armed", "due", "aborted"}
Alive(c) ==
  \/ read[c] = "pending" \/ write[c] = "pending"
  \/ kill[c] \in Waiting \/ stop[c] \in Waiting
  \/ \E t \in Threads : step[c][t] \in Responding

\* The io thread is between two handlers.
IoIdle == \A c \in Conns : step[c]["io"] = "idle"

Goto(c, t, from, to) ==
  /\ step[c][t] = from
  /\ step' = [step EXCEPT ![c][t] = to]

Respond(c, t, what) ==
  /\ Goto(c, t, "idle", "cancelKill")
  /\ reply' = [reply EXCEPT ![c][t] = what]

-----------------------------------------------------------------------------
(* respond_with_error and respond_ok, with start_response and               *)
(* send_response, lines 47-94.                                              *)

Cancelled(timer) == IF timer = "armed" THEN "aborted" ELSE timer

CancelKill(c, t) ==
  /\ Goto(c, t, "cancelKill", "cancelStop")
  /\ kill' = [kill EXCEPT ![c] = Cancelled(@)]
  /\ UNCHANGED <<read, stop, socket, responded, write, writes, answer, upload>>

CancelStop(c, t) ==
  /\ Goto(c, t, "cancelStop", "exchange")
  /\ stop' = [stop EXCEPT ![c] = Cancelled(@)]
  /\ UNCHANGED <<read, kill, socket, responded, write, writes, answer, upload>>

ExchangeUnchecked(c, t) ==
  /\ Goto(c, t, "exchange", "write")
  /\ responded' = [responded EXCEPT ![c] = TRUE]
  /\ UNCHANGED <<read, timers, socket, write, writes, answer, upload>>
Exchange(c, t) ==
  /\ Goto(c, t, "exchange", IF responded[c] THEN "idle" ELSE "write")
  /\ responded' = [responded EXCEPT ![c] = TRUE]
  /\ reply' = IF responded[c] THEN [reply EXCEPT ![c][t] = None] ELSE reply
  /\ UNCHANGED <<read, timers, socket, write, writes, status, upload>>

StartWrite(c, t) ==
  /\ Goto(c, t, "write", "idle")
  /\ status' = [status EXCEPT ![c] = reply[c][t]]
  /\ reply' = [reply EXCEPT ![c][t] = None]
  /\ write' = [write EXCEPT ![c] = "pending"]
  /\ writes' = [writes EXCEPT ![c] = @ + 1]
  /\ UNCHANGED <<read, timers, socket, responded, upload>>

RespondStep(c, t) ==
  CancelKill(c, t) \/ CancelStop(c, t) \/ Exchange(c, t) \/ StartWrite(c, t)

-----------------------------------------------------------------------------
(* Handlers of the io loop.                                                 *)

\* http_server and start: the read and the kill deadline begin.
Accept(c) ==
  /\ IoIdle
  /\ read[c] = "none"
  /\ read' = [read EXCEPT ![c] = "pending"]
  /\ kill' = [kill EXCEPT ![c] = "armed"]
  /\ socket' = [socket EXCEPT ![c] = "open"]
  /\ UNCHANGED <<stop, responded, write, writes, step, answer, upload>>

\* process_request answers at once: it finds a fault, and looks no further.
\* The read of a closed socket fails.
FirstFault(r, fault) ==
  \E n \in DOMAIN Checks : /\ fault = Checks[n] /\ fault \in r
                           /\ \A m \in 1..n - 1 : Checks[m] \notin r

RejectAndProcess(c) ==
  /\ IoIdle
  /\ read[c] = "pending"
  /\ read' = [read EXCEPT ![c] = "over"]
  /\ \E r \in Requests, fault \in Faults :
       /\ FirstFault(r, fault)
       /\ request' = [request EXCEPT ![c] = r]
       /\ Respond(c, "io", fault)
  /\ proc' = [proc EXCEPT ![c] = "queued"]
  /\ UNCHANGED <<timers, socket, responded, write, writes, status, resizing, dangling>>
RejectRequest(c) ==
  /\ IoIdle
  /\ read[c] = "pending"
  /\ read' = [read EXCEPT ![c] = "over"]
  /\ \E r \in Requests, fault \in Faults :
       /\ FirstFault(r, fault)
       /\ request' = [request EXCEPT ![c] = r]
       /\ Respond(c, "io", fault)
  /\ UNCHANGED <<timers, socket, responded, write, writes, status, proc, resizing, dangling>>

\* process_upload_request: the second deadline begins and the processor runs.
\* (The socket may be closed: the request was complete before, but its handler
\* waited behind that of the deadline.)
ProcessWithoutDeadline(c) ==
  /\ IoIdle
  /\ read[c] = "pending" /\ {} \in Requests
  /\ read' = [read EXCEPT ![c] = "over"]
  /\ proc' = [proc EXCEPT ![c] = "queued"]
  /\ UNCHANGED <<timers, socket, responded, write, writes, step, answer, request, resizing,
                 dangling>>
ProcessUpload(c) ==
  /\ IoIdle
  /\ read[c] = "pending" /\ {} \in Requests
  /\ read' = [read EXCEPT ![c] = "over"]
  /\ stop' = [stop EXCEPT ![c] = "armed"]
  /\ proc' = [proc EXCEPT ![c] = "queued"]
  /\ UNCHANGED <<kill, socket, responded, write, writes, step, answer, request, resizing,
                 dangling>>

\* The whole response is written, or the write failed.
WriteEndsLeavesOpen(c) ==
  /\ IoIdle
  /\ write[c] = "pending"
  /\ write' = [write EXCEPT ![c] = "over"]
  /\ UNCHANGED <<read, timers, socket, responded, writes, step, answer, upload>>
WriteEnds(c) ==
  /\ IoIdle
  /\ write[c] = "pending"
  /\ write' = [write EXCEPT ![c] = "over"]
  /\ socket' = [socket EXCEPT ![c] = "closed"]
  /\ UNCHANGED <<read, timers, responded, writes, step, answer, upload>>

\* Closing the socket makes a pending read or write fail: the handler comes.
KillHandler(c) ==
  /\ IoIdle
  /\ kill[c] \in {"due", "aborted"}
  /\ kill' = [kill EXCEPT ![c] = "over"]
  /\ socket' = IF kill[c] = "due" THEN [socket EXCEPT ![c] = "closed"] ELSE socket
  /\ UNCHANGED <<read, stop, responded, write, writes, step, answer, upload>>

StopHandler(c) ==
  /\ IoIdle
  /\ stop[c] = "due"
  /\ stop' = [stop EXCEPT ![c] = "over"]
  /\ Respond(c, "io", "processing_timed_out")
  /\ UNCHANGED <<read, kill, socket, responded, write, writes, status, upload>>

StopAborted(c) ==
  /\ IoIdle
  /\ stop[c] = "aborted"
  /\ stop' = [stop EXCEPT ![c] = "over"]
  /\ UNCHANGED <<read, kill, socket, responded, write, writes, step, answer, upload>>

-----------------------------------------------------------------------------
(* Time.                                                                    *)

KillExpires(c) ==
  /\ kill[c] = "armed"
  /\ kill' = [kill EXCEPT ![c] = "due"]
  /\ UNCHANGED <<read, stop, socket, responded, write, writes, step, answer, upload>>

StopExpires(c) ==
  /\ stop[c] = "armed"
  /\ stop' = [stop EXCEPT ![c] = "due"]
  /\ UNCHANGED <<read, kill, socket, responded, write, writes, step, answer, upload>>

-----------------------------------------------------------------------------
(* The processor: check_existence hashes the body; load_image writes it to  *)
(* a file and reads the header of the image, whose pixels are decoded from  *)
(* the body only when resize and save_to_format need them.  Any task may    *)
(* fail, and after one has, others of its group may still run.              *)

ReadBody(c, from, to) ==
  /\ proc[c] = from
  /\ proc' = [proc EXCEPT ![c] = to]
  /\ dangling' = (dangling \/ ~Alive(c))
  /\ UNCHANGED <<read, timers, socket, responded, write, writes, step, answer, request>>

ReadsBody(c) ==
  \/ ReadBody(c, "queued", "checked") /\ UNCHANGED resizing
  \/ ReadBody(c, "checked", "unloadable") /\ UNCHANGED resizing
  \/ ReadBody(c, "checked", "loaded") /\ resizing' = resizing \cup {c}
  \/ c \in resizing /\ ReadBody(c, proc[c], proc[c]) /\ UNCHANGED resizing

\* The group is over.  Only load_image, and nothing after it, finds that the
\* body is no image.  With success all tasks have returned.
Ends(c) ==
  /\ proc[c] \in Reading
  /\ \E outcome \in Outcomes :
       /\ outcome = "invalid_image" <=> proc[c] = "unloadable"
       /\ proc' = [proc EXCEPT ![c] = outcome]
       /\ resizing' = IF outcome = "ok" THEN resizing \ {c} ELSE resizing

\* The ready hook locks the weak_ptr, and answers if there is someone left.
HookAnswers(c) ==
  /\ Ends(c)
  /\ Alive(c)
  /\ Respond(c, "hook", proc'[c])
  /\ UNCHANGED <<read, timers, socket, responded, write, writes, status, request, dangling>>

HookFindsNobody(c) ==
  /\ Ends(c)
  /\ ~Alive(c)
  /\ UNCHANGED <<read, timers, socket, responded, write, writes, step, answer, request, dangling>>

-----------------------------------------------------------------------------
IoStep(c) ==
  \/ RespondStep(c, "io")
  \/ KillHandler(c) \/ StopHandler(c) \/ StopAborted(c)

ProcessorStep(c) == ReadsBody(c) \/ HookAnswers(c) \/ HookFindsNobody(c)

Time(c) == KillExpires(c) \/ StopExpires(c)

Next == \E c \in Conns :
  \/ Accept(c) \/ RejectRequest(c) \/ ProcessUpload(c) \/ WriteEnds(c)
  \/ IoStep(c) \/ RespondStep(c, "hook")
  \/ ProcessorStep(c)
  \/ Time(c)

Spec == Init /\ [][Next]_vars

(***************************************************************************)
(* The io loop runs what is queued, an answering hook runs on, time        *)
(* passes, and an operation on a closed socket fails.  A client need not   *)
(* send its request, and a processor need never end.  A connection takes   *)
(* finitely many steps, so it is enough that some connection proceeds.     *)
(***************************************************************************)
OperationFails(c) == socket[c] = "closed" /\ (RejectRequest(c) \/ WriteEnds(c))
Fairness ==
  /\ WF_vars(\E c \in Conns : IoStep(c))
  /\ WF_vars(\E c \in Conns : RespondStep(c, "hook"))
  /\ WF_vars(\E c \in Conns : Time(c))
  /\ WF_vars(\E c \in Conns : OperationFails(c))

FairSpec == Spec /\ Fairness

\* In addition, the client reads what is written to it.
ReadingClientSpec == FairSpec /\ WF_vars(\E c \in Conns : WriteEnds(c))

-----------------------------------------------------------------------------
(* Properties.                                                              *)

\* Every variable has its type.
TypeOK ==
  /\ read \in [Conns -> {"none", "pending", "over"}]
  /\ kill \in [Conns -> {"unset", "over"} \cup Waiting]
  /\ stop \in [Conns -> {"unset", "over"} \cup Waiting]
  /\ socket \in [Conns -> {"none", "open", "closed"}]
  /\ responded \in [Conns -> BOOLEAN]
  /\ write \in [Conns -> {"none", "pending", "over"}]
  /\ writes \in [Conns -> Nat]
  /\ step \in [Conns -> [Threads -> {"idle"} \cup Responding]]
  /\ reply \in [Conns -> [Threads -> Faults \cup Outcomes \cup {"processing_timed_out", None}]]
  /\ status \in [Conns -> Faults \cup Outcomes \cup {"processing_timed_out", None}]
  /\ request \in [Conns -> Requests \cup {{}}]
  /\ proc \in [Conns -> {"none", "queued"} \cup Reading \cup Outcomes]
  /\ resizing \in SUBSET Conns
  /\ dangling \in BOOLEAN

\* However the deadline, the hook and the handlers interleave, a connection
\* is written to once: the object response is never shared by two writes.
OneResponse ==
  \A c \in Conns :
    Cardinality({t \in Threads : step[c][t] = "write"}) + writes[c] <= 1

\* What is answered is true: a request with a fault is told of it and never
\* processed, and without one the answer is the outcome of its processing, or
\* that the deadline has passed.
AnswerFits ==
  \A c \in Conns :
    /\ request[c] # {} => proc[c] = "none" /\ status[c] \in request[c] \cup {None}
    /\ request[c] = {} => status[c] \in {None, proc[c], "processing_timed_out"}
    /\ status[c] = "processing_timed_out" => stop[c] = "over"

\* While an upload has no answer its connection is kept: the body that the
\* tasks read is there, and the hook finds somebody to answer.
KeptUntilAnswered ==
  \A c \in Conns : proc[c] \in {"queued"} \cup Reading /\ ~responded[c] => Alive(c)

\* The tasks never read the body of a request that is freed.
BodyOutlivesTasks == ~dangling

\* "If the timer finishes earlier than the processing, the server will respond
\* with error.processing_timed_out": every request is answered, even if its
\* processing never ends.
EveryRequestAnswered == \A c \in Conns : read[c] = "over" ~> responded[c]

\* Every connection is closed and freed, if the client reads its answer.
ConnectionsEnd ==
  \A c \in Conns : read[c] # "none" ~> socket[c] = "closed" /\ ~Alive(c)
=============================================================================
