------------------------- MODULE HttpConnectionProofs -------------------------
(***************************************************************************)
(* Proofs about HttpConnection, for any connections and requests: however  *)
(* handlers of the io thread, deadlines and ready hooks interleave, each   *)
(* connection answers once, the answer is true, and it is kept until then  *)
(* and freed only after.                                                   *)
(***************************************************************************)
EXTENDS HttpConnection, FiniteSetTheorems, TLAPS

-----------------------------------------------------------------------------
(* The inductive invariant, for each connection.                            *)

\* Nothing happens to a connection before its request was read.
ReadInv(c) ==
  read[c] # "over" =>
    /\ stop[c] = "unset" /\ proc[c] = "none" /\ request[c] = {}
    /\ responded[c] = FALSE /\ writes[c] = 0
    /\ status[c] = None
    /\ step[c]["io"] = "idle" /\ step[c]["hook"] = "idle"

\* The flag lets one thread through to the write.
WriteInv(c) ==
  /\ writes[c] \in {0, 1}
  /\ ~responded[c] => writes[c] = 0 /\ step[c]["io"] # "write" /\ step[c]["hook"] # "write"
  /\ writes[c] = 1 => step[c]["io"] # "write" /\ step[c]["hook"] # "write"
  /\ step[c]["io"] # "write" \/ step[c]["hook"] # "write"

\* A thread that answers has a true answer in mind: the io thread a fault of
\* the request or the deadline, the hook the outcome of the processing.
ReplyInv(c) ==
  /\ step[c]["io"] \in Responding =>
       \/ reply[c]["io"] \in request[c]
       \/ reply[c]["io"] = "processing_timed_out" /\ request[c] = {} /\ stop[c] = "over"
  /\ step[c]["hook"] \in Responding =>
       reply[c]["hook"] = proc[c] /\ proc[c] \in Outcomes

\* A request with a fault is not processed, and has no second deadline.
FaultInv(c) ==
  /\ request[c] # {} => proc[c] = "none"
  /\ proc[c] = "none" <=> stop[c] = "unset"

\* The answer that was given.
StatusInv(c) ==
  \/ status[c] = None
  \/ status[c] \in request[c]
  \/ request[c] = {} /\ status[c] = proc[c] /\ proc[c] \in Outcomes
  \/ request[c] = {} /\ status[c] = "processing_timed_out" /\ stop[c] = "over"

\* From the start of the processing until the answer somebody is about to
\* answer: the deadline, or a thread that does.
KeptInv(c) ==
  proc[c] # "none" =>
    \/ stop[c] \in {"armed", "due"}
    \/ responded[c]
    \/ step[c]["io"] \in Responding \/ step[c]["hook"] \in Responding

ConnInv(c) ==
  ReadInv(c) /\ WriteInv(c) /\ ReplyInv(c) /\ FaultInv(c) /\ StatusInv(c) /\ KeptInv(c)

IInv == TypeOK /\ \A c \in Conns : ConnInv(c)

-----------------------------------------------------------------------------
(* Steps.                                                                   *)

\* The connection is left alone.
Same(c) ==
  /\ read'[c] = read[c] /\ stop'[c] = stop[c] /\ responded'[c] = responded[c]
  /\ writes'[c] = writes[c] /\ step'[c] = step[c] /\ reply'[c] = reply[c]
  /\ status'[c] = status[c] /\ request'[c] = request[c] /\ proc'[c] = proc[c]

\* What is said of a connection stays true when it is left alone.
LEMMA SameInv ==
  ASSUME IInv, NEW c \in Conns, Same(c)
  PROVE  ConnInv(c)'
BY DEF IInv, ConnInv, ReadInv, WriteInv, ReplyInv, FaultInv, StatusInv, KeptInv, Same

\* A connection is made.
LEMMA AcceptStep ==
  ASSUME IInv, NEW c \in Conns, Accept(c)
  PROVE  IInv'
<1> USE DEF Threads
<1>1. TypeOK'
      BY DEF IInv, TypeOK, Accept, answer, upload, Waiting
<1>2. ConnInv(c)'
  <2>1. ReadInv(c)'
        BY DEF IInv, Accept, answer, upload, ConnInv, ReadInv
  <2>2. WriteInv(c)'
        BY DEF IInv, Accept, ConnInv, WriteInv
  <2>3. ReplyInv(c)'
        BY DEF IInv, Accept, answer, upload, ConnInv, ReplyInv
  <2>4. FaultInv(c)'
        BY DEF IInv, Accept, upload, ConnInv, FaultInv
  <2>5. StatusInv(c)'
        BY DEF IInv, Accept, answer, upload, ConnInv, StatusInv
  <2>6. KeptInv(c)'
        BY DEF IInv, Accept, upload, ConnInv, KeptInv
  <2> QED BY <2>1, <2>2, <2>3, <2>4, <2>5, <2>6 DEF ConnInv
<1>3. ASSUME NEW d \in Conns, d # c PROVE ConnInv(d)'
  <2>1. Same(d)
        BY <1>3 DEF Accept, answer, upload, Same
  <2> QED BY <2>1, SameInv
<1> QED BY <1>1, <1>2, <1>3 DEF IInv

\* A request with faults is answered at once.
LEMMA RejectRequestStep ==
  ASSUME IInv, NEW c \in Conns, RejectRequest(c)
  PROVE  IInv'
<1> USE DEF Threads
<1>1. TypeOK'
      BY DEF IInv, TypeOK, RejectRequest, Respond, Goto, timers, Responding
<1>2. ConnInv(c)'
  <2>1. ReadInv(c)'
        BY DEF IInv, TypeOK, RejectRequest, ReadInv
  <2>2. WriteInv(c)'
        BY DEF IInv, RejectRequest, Respond, Goto, ConnInv, WriteInv
  <2>3. ReplyInv(c)'
        BY DEF IInv, TypeOK, RejectRequest, Respond, Goto, FirstFault, ConnInv, ReplyInv
  <2>4. FaultInv(c)'
        BY DEF IInv, RejectRequest, timers, ConnInv, ReadInv, FaultInv
  <2>5. StatusInv(c)'
        BY DEF IInv, RejectRequest, ConnInv, ReadInv, StatusInv
  <2>6. KeptInv(c)'
        BY DEF IInv, TypeOK, RejectRequest, Respond, Goto, timers, ConnInv, KeptInv
  <2> QED BY <2>1, <2>2, <2>3, <2>4, <2>5, <2>6 DEF ConnInv
<1>3. ASSUME NEW d \in Conns, d # c PROVE ConnInv(d)'
  <2>1. Same(d)
        BY <1>3 DEF RejectRequest, Respond, Goto, timers, Same
  <2> QED BY <2>1, SameInv
<1> QED BY <1>1, <1>2, <1>3 DEF IInv

\* An upload begins, and with it the second deadline.
LEMMA ProcessUploadStep ==
  ASSUME IInv, NEW c \in Conns, ProcessUpload(c)
  PROVE  IInv'
<1> USE DEF Threads
<1>1. TypeOK'
      BY DEF IInv, TypeOK, ProcessUpload, answer, Waiting
<1>2. ConnInv(c)'
  <2>1. ReadInv(c)'
        BY DEF IInv, TypeOK, ProcessUpload, ReadInv
  <2>2. WriteInv(c)'
        BY DEF IInv, ProcessUpload, ConnInv, WriteInv
  <2>3. ReplyInv(c)'
        BY DEF IInv, ProcessUpload, ConnInv, ReadInv, ReplyInv
  <2>4. FaultInv(c)'
        BY DEF IInv, TypeOK, ProcessUpload, answer, ConnInv, ReadInv, FaultInv
  <2>5. StatusInv(c)'
        BY DEF IInv, ProcessUpload, answer, ConnInv, ReadInv, StatusInv
  <2>6. KeptInv(c)'
        BY DEF IInv, TypeOK, ProcessUpload, KeptInv
  <2> QED BY <2>1, <2>2, <2>3, <2>4, <2>5, <2>6 DEF ConnInv
<1>3. ASSUME NEW d \in Conns, d # c PROVE ConnInv(d)'
  <2>1. Same(d)
        BY <1>3 DEF ProcessUpload, answer, Same
  <2> QED BY <2>1, SameInv
<1> QED BY <1>1, <1>2, <1>3 DEF IInv

\* The write is over.
LEMMA WriteEndsStep ==
  ASSUME IInv, NEW c \in Conns, WriteEnds(c)
  PROVE  IInv'
<1> USE DEF Threads
<1>1. TypeOK'
      BY DEF IInv, TypeOK, WriteEnds, timers, answer, upload
<1>2. ConnInv(c)'
  <2>1. ReadInv(c)'
        BY DEF IInv, WriteEnds, timers, answer, upload, ConnInv, ReadInv
  <2>2. WriteInv(c)'
        BY DEF IInv, WriteEnds, ConnInv, WriteInv
  <2>3. ReplyInv(c)'
        BY DEF IInv, WriteEnds, timers, answer, upload, ConnInv, ReplyInv
  <2>4. FaultInv(c)'
        BY DEF IInv, WriteEnds, timers, upload, ConnInv, FaultInv
  <2>5. StatusInv(c)'
        BY DEF IInv, WriteEnds, timers, answer, upload, ConnInv, StatusInv
  <2>6. KeptInv(c)'
        BY DEF IInv, WriteEnds, timers, upload, ConnInv, KeptInv
  <2> QED BY <2>1, <2>2, <2>3, <2>4, <2>5, <2>6 DEF ConnInv
<1>3. ASSUME NEW d \in Conns, d # c PROVE ConnInv(d)'
  <2>1. Same(d)
        BY <1>3 DEF WriteEnds, timers, answer, upload, Same
  <2> QED BY <2>1, SameInv
<1> QED BY <1>1, <1>2, <1>3 DEF IInv

\* The first deadline closes the socket.
LEMMA KillHandlerStep ==
  ASSUME IInv, NEW c \in Conns, KillHandler(c)
  PROVE  IInv'
<1> USE DEF Threads
<1>1. TypeOK'
      BY DEF IInv, TypeOK, KillHandler, answer, upload
<1>2. ConnInv(c)'
  <2>1. ReadInv(c)'
        BY DEF IInv, KillHandler, answer, upload, ConnInv, ReadInv
  <2>2. WriteInv(c)'
        BY DEF IInv, KillHandler, ConnInv, WriteInv
  <2>3. ReplyInv(c)'
        BY DEF IInv, KillHandler, answer, upload, ConnInv, ReplyInv
  <2>4. FaultInv(c)'
        BY DEF IInv, KillHandler, upload, ConnInv, FaultInv
  <2>5. StatusInv(c)'
        BY DEF IInv, KillHandler, answer, upload, ConnInv, StatusInv
  <2>6. KeptInv(c)'
        BY DEF IInv, KillHandler, upload, ConnInv, KeptInv
  <2> QED BY <2>1, <2>2, <2>3, <2>4, <2>5, <2>6 DEF ConnInv
<1>3. ASSUME NEW d \in Conns, d # c PROVE ConnInv(d)'
  <2>1. Same(d)
        BY <1>3 DEF KillHandler, answer, upload, Same
  <2> QED BY <2>1, SameInv
<1> QED BY <1>1, <1>2, <1>3 DEF IInv

\* The second deadline answers.
LEMMA StopHandlerStep ==
  ASSUME IInv, NEW c \in Conns, StopHandler(c)
  PROVE  IInv'
<1> USE DEF Threads
<1>1. TypeOK'
      BY DEF IInv, TypeOK, StopHandler, Respond, Goto, upload, Responding
<1>2. ConnInv(c)'
  <2>1. ReadInv(c)'
        BY DEF IInv, StopHandler, ConnInv, ReadInv
  <2>2. WriteInv(c)'
        BY DEF IInv, StopHandler, Respond, Goto, ConnInv, WriteInv
  <2>3. ReplyInv(c)'
    <3>1. stop[c] = "due" /\ step[c]["io"] = "idle" /\ stop'[c] = "over"
          BY DEF IInv, TypeOK, StopHandler, Respond, Goto
    <3>2. request[c] = {}
          BY <3>1 DEF IInv, ConnInv, FaultInv
    <3>3. reply'[c]["io"] = "processing_timed_out" /\ reply'[c]["hook"] = reply[c]["hook"]
          BY DEF IInv, TypeOK, StopHandler, Respond
    <3>4. step'[c]["hook"] = step[c]["hook"]
          BY DEF StopHandler, Respond, Goto
    <3> QED BY <3>1, <3>2, <3>3, <3>4 DEF IInv, ConnInv, ReplyInv, StopHandler, upload
  <2>4. FaultInv(c)'
        BY DEF IInv, StopHandler, upload, ConnInv, FaultInv
  <2>5. StatusInv(c)'
        BY DEF IInv, StopHandler, upload, ConnInv, StatusInv
  <2>6. KeptInv(c)'
        BY DEF IInv, TypeOK, StopHandler, Respond, Goto, KeptInv, Responding
  <2> QED BY <2>1, <2>2, <2>3, <2>4, <2>5, <2>6 DEF ConnInv
<1>3. ASSUME NEW d \in Conns, d # c PROVE ConnInv(d)'
  <2>1. Same(d)
        BY <1>3 DEF StopHandler, Respond, Goto, upload, Same
  <2> QED BY <2>1, SameInv
<1> QED BY <1>1, <1>2, <1>3 DEF IInv

\* A cancelled deadline does nothing.
LEMMA StopAbortedStep ==
  ASSUME IInv, NEW c \in Conns, StopAborted(c)
  PROVE  IInv'
<1> USE DEF Threads
<1>1. TypeOK'
      BY DEF IInv, TypeOK, StopAborted, answer, upload
<1>2. ConnInv(c)'
  <2>1. ReadInv(c)'
        BY DEF IInv, StopAborted, ConnInv, ReadInv
  <2>2. WriteInv(c)'
        BY DEF IInv, StopAborted, ConnInv, WriteInv
  <2>3. ReplyInv(c)'
        BY DEF IInv, StopAborted, answer, upload, ConnInv, ReplyInv
  <2>4. FaultInv(c)'
        BY DEF IInv, StopAborted, upload, ConnInv, FaultInv
  <2>5. StatusInv(c)'
        BY DEF IInv, StopAborted, answer, upload, ConnInv, StatusInv
  <2>6. KeptInv(c)'
        BY DEF IInv, StopAborted, upload, ConnInv, KeptInv
  <2> QED BY <2>1, <2>2, <2>3, <2>4, <2>5, <2>6 DEF ConnInv
<1>3. ASSUME NEW d \in Conns, d # c PROVE ConnInv(d)'
  <2>1. Same(d)
        BY <1>3 DEF StopAborted, answer, upload, Same
  <2> QED BY <2>1, SameInv
<1> QED BY <1>1, <1>2, <1>3 DEF IInv

\* The first deadline expires.
LEMMA KillExpiresStep ==
  ASSUME IInv, NEW c \in Conns, KillExpires(c)
  PROVE  IInv'
<1> USE DEF Threads
<1>1. TypeOK'
      BY DEF IInv, TypeOK, KillExpires, answer, upload, Waiting
<1>2. ConnInv(c)'
  <2>1. ReadInv(c)'
        BY DEF IInv, KillExpires, answer, upload, ConnInv, ReadInv
  <2>2. WriteInv(c)'
        BY DEF IInv, KillExpires, ConnInv, WriteInv
  <2>3. ReplyInv(c)'
        BY DEF IInv, KillExpires, answer, upload, ConnInv, ReplyInv
  <2>4. FaultInv(c)'
        BY DEF IInv, KillExpires, upload, ConnInv, FaultInv
  <2>5. StatusInv(c)'
        BY DEF IInv, KillExpires, answer, upload, ConnInv, StatusInv
  <2>6. KeptInv(c)'
        BY DEF IInv, KillExpires, upload, ConnInv, KeptInv
  <2> QED BY <2>1, <2>2, <2>3, <2>4, <2>5, <2>6 DEF ConnInv
<1>3. ASSUME NEW d \in Conns, d # c PROVE ConnInv(d)'
  <2>1. Same(d)
        BY <1>3 DEF KillExpires, answer, upload, Same
  <2> QED BY <2>1, SameInv
<1> QED BY <1>1, <1>2, <1>3 DEF IInv

\* The second deadline expires.
LEMMA StopExpiresStep ==
  ASSUME IInv, NEW c \in Conns, StopExpires(c)
  PROVE  IInv'
<1> USE DEF Threads
<1>1. TypeOK'
      BY DEF IInv, TypeOK, StopExpires, answer, upload, Waiting
<1>2. ConnInv(c)'
  <2>1. ReadInv(c)'
        BY DEF IInv, StopExpires, ConnInv, ReadInv
  <2>2. WriteInv(c)'
        BY DEF IInv, StopExpires, ConnInv, WriteInv
  <2>3. ReplyInv(c)'
        BY DEF IInv, StopExpires, answer, upload, ConnInv, ReplyInv
  <2>4. FaultInv(c)'
        BY DEF IInv, StopExpires, upload, ConnInv, FaultInv
  <2>5. StatusInv(c)'
        BY DEF IInv, StopExpires, answer, upload, ConnInv, StatusInv
  <2>6. KeptInv(c)'
        BY DEF StopExpires, KeptInv
  <2> QED BY <2>1, <2>2, <2>3, <2>4, <2>5, <2>6 DEF ConnInv
<1>3. ASSUME NEW d \in Conns, d # c PROVE ConnInv(d)'
  <2>1. Same(d)
        BY <1>3 DEF StopExpires, answer, upload, Same
  <2> QED BY <2>1, SameInv
<1> QED BY <1>1, <1>2, <1>3 DEF IInv

\* A task reads the body.
LEMMA ReadsBodyStep ==
  ASSUME IInv, NEW c \in Conns, ReadsBody(c)
  PROVE  IInv'
<1> USE DEF Threads
<1>0. /\ UNCHANGED <<read, timers, socket, responded, write, writes, step, answer, request>>
      /\ dangling' \in BOOLEAN /\ resizing' \in SUBSET Conns
      /\ proc' \in [Conns -> {"none", "queued"} \cup Reading \cup Outcomes]
      /\ \A d \in Conns \ {c} : proc'[d] = proc[d]
      /\ proc'[c] = proc[c] \/ (proc[c] \in {"queued", "checked"} /\ proc'[c] \in Reading)
  <2>1. ASSUME NEW from, NEW to \in {"none", "queued"} \cup Reading \cup Outcomes,
               ReadBody(c, from, to)
        PROVE  /\ UNCHANGED <<read, timers, socket, responded, write, writes, step, answer, request>>
               /\ dangling' \in BOOLEAN
               /\ proc[c] = from /\ proc' = [proc EXCEPT ![c] = to]
               /\ proc' \in [Conns -> {"none", "queued"} \cup Reading \cup Outcomes]
               /\ \A d \in Conns \ {c} : proc'[d] = proc[d]
               /\ proc'[c] = to
        BY <2>1 DEF ReadBody, IInv, TypeOK
  <2>2. /\ "checked" \in Reading /\ "loaded" \in Reading /\ "unloadable" \in Reading
        /\ proc[c] \in {"none", "queued"} \cup Reading \cup Outcomes
        /\ resizing' = resizing \/ resizing' = resizing \cup {c}
        /\ resizing \in SUBSET Conns
        BY DEF Reading, IInv, TypeOK, ReadsBody
  <2>3. CASE ReadBody(c, "queued", "checked")
        BY <2>1, <2>2, <2>3
  <2>4. CASE ReadBody(c, "checked", "unloadable")
        BY <2>1, <2>2, <2>4
  <2>5. CASE ReadBody(c, "checked", "loaded")
        BY <2>1, <2>2, <2>5
  <2>6. CASE ReadBody(c, proc[c], proc[c])
    <3>1. /\ UNCHANGED <<read, timers, socket, responded, write, writes, step, answer, request>>
          /\ dangling' \in BOOLEAN
          BY <2>6 DEF ReadBody
    <3>2. proc' = proc
          BY <2>6 DEF ReadBody, IInv, TypeOK
    <3>3. proc \in [Conns -> {"none", "queued"} \cup Reading \cup Outcomes]
          BY DEF IInv, TypeOK
    <3> QED BY <2>2, <3>1, <3>2, <3>3
  <2> QED BY <2>3, <2>4, <2>5, <2>6 DEF ReadsBody
<1>1. TypeOK'
      BY <1>0 DEF IInv, TypeOK, timers, answer
<1>2. ConnInv(c)'
  <2> USE <1>0 DEF IInv, ConnInv, Outcomes, Reading, timers, answer
  <2>1. ReadInv(c)'
        BY DEF ReadInv
  <2>2. WriteInv(c)'
        BY DEF WriteInv
  <2>3. ReplyInv(c)'
        BY DEF ReplyInv
  <2>4. FaultInv(c)'
        BY DEF FaultInv
  <2>5. StatusInv(c)'
        BY DEF StatusInv
  <2>6. KeptInv(c)'
        BY DEF KeptInv
  <2> QED BY <2>1, <2>2, <2>3, <2>4, <2>5, <2>6
<1>3. ASSUME NEW d \in Conns, d # c PROVE ConnInv(d)'
  <2>1. Same(d)
        BY <1>0, <1>3 DEF timers, answer, Same
  <2> QED BY <2>1, SameInv
<1> QED BY <1>1, <1>2, <1>3 DEF IInv

\* The hook has somebody to answer.
LEMMA HookAnswersStep ==
  ASSUME IInv, NEW c \in Conns, HookAnswers(c)
  PROVE  IInv'
<1> USE DEF Threads
<1>1. TypeOK'
      BY DEF IInv, TypeOK, HookAnswers, Ends, Reading, Respond, Goto, timers, Responding
<1>2. ConnInv(c)'
  <2>1. ReadInv(c)'
        BY DEF IInv, HookAnswers, Ends, Reading, ConnInv, ReadInv
  <2>2. WriteInv(c)'
        BY DEF IInv, HookAnswers, Respond, Goto, ConnInv, WriteInv
  <2>3. ReplyInv(c)'
        BY DEF IInv, TypeOK, HookAnswers, Ends, Reading, Respond, Goto, timers, ConnInv, ReplyInv
  <2>4. FaultInv(c)'
        BY DEF IInv, HookAnswers, Ends, Reading, Outcomes, timers, ConnInv, FaultInv
  <2>5. StatusInv(c)'
        BY DEF IInv, HookAnswers, Ends, Reading, Outcomes, timers, ConnInv, StatusInv
  <2>6. KeptInv(c)'
        BY DEF IInv, TypeOK, HookAnswers, Ends, Reading, Respond, Goto, timers, ConnInv, KeptInv
  <2> QED BY <2>1, <2>2, <2>3, <2>4, <2>5, <2>6 DEF ConnInv
<1>3. ASSUME NEW d \in Conns, d # c PROVE ConnInv(d)'
  <2>1. Same(d)
        BY <1>3 DEF HookAnswers, Ends, Reading, Respond, Goto, timers, Same
  <2> QED BY <2>1, SameInv
<1> QED BY <1>1, <1>2, <1>3 DEF IInv

\* The hook has nobody to answer.
LEMMA HookFindsNobodyStep ==
  ASSUME IInv, NEW c \in Conns, HookFindsNobody(c)
  PROVE  IInv'
<1> USE DEF Threads
<1>1. TypeOK'
      BY DEF IInv, TypeOK, HookFindsNobody, Ends, Reading, timers, answer
<1>2. ConnInv(c)'
  <2>1. ReadInv(c)'
        BY DEF IInv, HookFindsNobody, Ends, Reading, ConnInv, ReadInv
  <2>2. WriteInv(c)'
        BY DEF IInv, HookFindsNobody, ConnInv, WriteInv
  <2>3. ReplyInv(c)'
        BY DEF IInv, HookFindsNobody, Ends, Reading, Outcomes, timers, answer, ConnInv, ReplyInv
  <2>4. FaultInv(c)'
        BY DEF IInv, HookFindsNobody, Ends, Reading, Outcomes, timers, ConnInv, FaultInv
  <2>5. StatusInv(c)'
        BY DEF IInv, HookFindsNobody, Ends, Reading, Outcomes, timers, answer, ConnInv, StatusInv
  <2>6. KeptInv(c)'
        BY DEF IInv, HookFindsNobody, Ends, Reading, timers, ConnInv, KeptInv
  <2> QED BY <2>1, <2>2, <2>3, <2>4, <2>5, <2>6 DEF ConnInv
<1>3. ASSUME NEW d \in Conns, d # c PROVE ConnInv(d)'
  <2>1. Same(d)
        BY <1>3 DEF HookFindsNobody, Ends, Reading, timers, answer, Same
  <2> QED BY <2>1, SameInv
<1> QED BY <1>1, <1>2, <1>3 DEF IInv

\* The first deadline is cancelled.
LEMMA CancelKillStep ==
  ASSUME IInv, NEW c \in Conns, NEW t \in Threads, CancelKill(c, t)
  PROVE  IInv'
<1> USE DEF Threads
<1>1. TypeOK'
      BY DEF IInv, TypeOK, CancelKill, Goto, Cancelled, answer, upload, Waiting,
             Responding
<1>2. ConnInv(c)'
  <2>1. ReadInv(c)'
        BY DEF IInv, CancelKill, Goto, ConnInv, ReadInv
  <2>2. WriteInv(c)'
        BY DEF IInv, CancelKill, Goto, ConnInv, WriteInv
  <2>3. ReplyInv(c)'
        BY DEF IInv, TypeOK, CancelKill, Goto, answer, upload, ConnInv, ReplyInv
  <2>4. FaultInv(c)'
        BY DEF IInv, CancelKill, upload, ConnInv, FaultInv
  <2>5. StatusInv(c)'
        BY DEF IInv, CancelKill, answer, upload, ConnInv, StatusInv
  <2>6. KeptInv(c)'
        BY DEF CancelKill, Goto, KeptInv, Responding
  <2> QED BY <2>1, <2>2, <2>3, <2>4, <2>5, <2>6 DEF ConnInv
<1>3. ASSUME NEW d \in Conns, d # c PROVE ConnInv(d)'
  <2>1. Same(d)
        BY <1>3 DEF CancelKill, Goto, answer, upload, Same
  <2> QED BY <2>1, SameInv
<1> QED BY <1>1, <1>2, <1>3 DEF IInv

\* The second deadline is cancelled.
LEMMA CancelStopStep ==
  ASSUME IInv, NEW c \in Conns, NEW t \in Threads, CancelStop(c, t)
  PROVE  IInv'
<1> USE DEF Threads
<1>1. TypeOK'
      BY DEF IInv, TypeOK, CancelStop, Goto, Cancelled, answer, upload, Waiting,
             Responding
<1>2. ConnInv(c)'
  <2>1. ReadInv(c)'
        BY DEF IInv, CancelStop, Goto, ConnInv, ReadInv
  <2>2. WriteInv(c)'
        BY DEF IInv, CancelStop, Goto, ConnInv, WriteInv
  <2>3. ReplyInv(c)'
        BY DEF IInv, TypeOK, CancelStop, Goto, Cancelled, answer, upload, ConnInv,
               ReplyInv
  <2>4. FaultInv(c)'
        BY DEF IInv, CancelStop, Cancelled, upload, ConnInv, FaultInv
  <2>5. StatusInv(c)'
        BY DEF IInv, CancelStop, Cancelled, answer, upload, ConnInv, StatusInv
  <2>6. KeptInv(c)'
        BY DEF CancelStop, Goto, KeptInv, Responding
  <2> QED BY <2>1, <2>2, <2>3, <2>4, <2>5, <2>6 DEF ConnInv
<1>3. ASSUME NEW d \in Conns, d # c PROVE ConnInv(d)'
  <2>1. Same(d)
        BY <1>3 DEF CancelStop, Goto, answer, upload, Same
  <2> QED BY <2>1, SameInv
<1> QED BY <1>1, <1>2, <1>3 DEF IInv

\* The flag is taken, or was.
LEMMA ExchangeStep ==
  ASSUME IInv, NEW c \in Conns, NEW t \in Threads, Exchange(c, t)
  PROVE  IInv'
<1> USE DEF Threads
<1>1. TypeOK'
      BY DEF IInv, TypeOK, Exchange, Goto, timers, upload, Responding
<1>2. ConnInv(c)'
  <2>1. ReadInv(c)'
        BY DEF IInv, Exchange, Goto, ConnInv, ReadInv
  <2>2. WriteInv(c)'
        BY DEF IInv, TypeOK, Exchange, Goto, ConnInv, WriteInv
  <2>3. ReplyInv(c)'
        BY DEF IInv, TypeOK, Exchange, Goto, timers, upload, ConnInv, ReplyInv, Responding
  <2>4. FaultInv(c)'
        BY DEF IInv, Exchange, timers, upload, ConnInv, FaultInv
  <2>5. StatusInv(c)'
        BY DEF IInv, Exchange, timers, upload, ConnInv, StatusInv
  <2>6. KeptInv(c)'
        BY DEF IInv, TypeOK, Exchange, KeptInv
  <2> QED BY <2>1, <2>2, <2>3, <2>4, <2>5, <2>6 DEF ConnInv
<1>3. ASSUME NEW d \in Conns, d # c PROVE ConnInv(d)'
  <2>1. Same(d)
        BY <1>3 DEF Exchange, Goto, timers, upload, Same
  <2> QED BY <2>1, SameInv
<1> QED BY <1>1, <1>2, <1>3 DEF IInv

\* The response is built, and its write begins.
LEMMA StartWriteStep ==
  ASSUME IInv, NEW c \in Conns, NEW t \in Threads, StartWrite(c, t)
  PROVE  IInv'
<1> USE DEF Threads
<1>1. TypeOK'
      BY DEF IInv, TypeOK, StartWrite, Goto, timers, upload
<1>2. ConnInv(c)'
  <2>1. ReadInv(c)'
        BY DEF IInv, StartWrite, Goto, ConnInv, ReadInv
  <2>2. WriteInv(c)'
        BY DEF IInv, TypeOK, StartWrite, Goto, ConnInv, WriteInv
  <2>3. ReplyInv(c)'
        BY DEF IInv, TypeOK, StartWrite, Goto, timers, upload, ConnInv, ReplyInv,
               Responding
  <2>4. FaultInv(c)'
        BY DEF IInv, StartWrite, timers, upload, ConnInv, FaultInv
  <2>5. StatusInv(c)'
    <3>1. step[c][t] \in Responding /\ status'[c] = reply[c][t]
          BY DEF IInv, TypeOK, StartWrite, Goto
    <3>2. t = "io" \/ t = "hook"
          OBVIOUS
    <3>3. read[c] = "over" /\ (proc[c] \in Outcomes => request[c] = {})
          BY <3>1, <3>2 DEF IInv, ConnInv, ReadInv, FaultInv, Responding, Outcomes
    <3> QED BY <3>1, <3>2, <3>3 DEF IInv, ConnInv, ReplyInv, StatusInv, StartWrite,
                                    timers, upload
  <2>6. KeptInv(c)'
        BY DEF IInv, StartWrite, Goto, ConnInv, KeptInv, WriteInv
  <2> QED BY <2>1, <2>2, <2>3, <2>4, <2>5, <2>6 DEF ConnInv
<1>3. ASSUME NEW d \in Conns, d # c PROVE ConnInv(d)'
  <2>1. Same(d)
        BY <1>3 DEF StartWrite, Goto, timers, upload, Same
  <2> QED BY <2>1, SameInv
<1> QED BY <1>1, <1>2, <1>3 DEF IInv

-----------------------------------------------------------------------------
(* Every step.                                                              *)

\* The first state satisfies the invariant.
LEMMA InitInv == Init => IInv
<1> SUFFICES ASSUME Init PROVE IInv
    OBVIOUS
<1>1. TypeOK
      BY DEF Init, TypeOK
<1>2. ASSUME NEW c \in Conns PROVE ConnInv(c)
      BY DEF Init, Threads, Responding, ConnInv, ReadInv, WriteInv, ReplyInv, FaultInv,
             StatusInv, KeptInv
<1> QED BY <1>1, <1>2 DEF IInv

\* The invariant is inductive.
LEMMA StepInv == IInv /\ [Next]_vars => IInv'
<1> SUFFICES ASSUME IInv, [Next]_vars PROVE IInv'
    OBVIOUS
<1>1. ASSUME NEW c \in Conns,
             Accept(c) \/ RejectRequest(c) \/ ProcessUpload(c) \/ WriteEnds(c)
      PROVE  IInv'
      BY <1>1, AcceptStep, RejectRequestStep, ProcessUploadStep, WriteEndsStep
<1>2. ASSUME NEW c \in Conns, NEW t \in Threads, RespondStep(c, t) PROVE IInv'
      BY <1>2, CancelKillStep, CancelStopStep, ExchangeStep,
         StartWriteStep DEF RespondStep
<1>3. ASSUME NEW c \in Conns, IoStep(c) PROVE IInv'
      BY <1>3, <1>2, KillHandlerStep, StopHandlerStep, StopAbortedStep DEF IoStep, Threads
<1>4. ASSUME NEW c \in Conns, ProcessorStep(c) \/ Time(c) PROVE IInv'
      BY <1>4, ReadsBodyStep, HookAnswersStep, HookFindsNobodyStep, KillExpiresStep,
         StopExpiresStep DEF ProcessorStep, Time
<1>5. CASE UNCHANGED vars
  <2>1. TypeOK'
        BY <1>5 DEF IInv, TypeOK, vars, timers, answer, upload
  <2>2. ASSUME NEW c \in Conns PROVE Same(c)
        BY <1>5 DEF Same, vars, timers, answer, upload
  <2> QED BY <2>1, <2>2, SameInv DEF IInv
<1> QED BY <1>1, <1>2, <1>3, <1>4, <1>5 DEF Next, Threads

\* The invariant always holds.
THEOREM Invariance == Spec => []IInv
<1> QED BY InitInv, StepInv, PTL DEF Spec

-----------------------------------------------------------------------------
(* What follows from it.                                                    *)

\* Every variable keeps its type.
THEOREM TypeCorrect == Spec => []TypeOK
<1>1. IInv => TypeOK
      BY DEF IInv
<1> QED BY <1>1, Invariance, PTL

\* However deadline, hook and handlers interleave, a connection is written to
\* once.
THEOREM Once == Spec => []OneResponse
<1>1. ASSUME IInv, NEW c \in Conns
      PROVE  Cardinality({t \in Threads : step[c][t] = "write"}) + writes[c] <= 1
  <2> DEFINE W == {t \in Threads : step[c][t] = "write"}
  <2>1. WriteInv(c)
        BY <1>1 DEF IInv, ConnInv
  <2>2. CASE W = {}
        BY <2>1, <2>2, FS_EmptySet DEF WriteInv
  <2>3. CASE W # {}
    <3>1. writes[c] = 0
          BY <2>1, <2>3 DEF WriteInv, Threads
    <3>2. PICK t \in Threads : W = {t}
          BY <2>1, <2>3 DEF WriteInv, Threads
    <3>3. Cardinality(W) = 1
          BY <3>2, FS_Singleton
    <3> QED BY <3>1, <3>3
  <2> QED BY <2>2, <2>3
<1>2. IInv => OneResponse
      BY <1>1 DEF OneResponse
<1> QED BY <1>2, Invariance, PTL

\* What is answered is true, whatever is wrong with the request.
THEOREM Truth == Spec => []AnswerFits
<1>1. ASSUME IInv, NEW c \in Conns
      PROVE  /\ request[c] # {} => proc[c] = "none" /\ status[c] \in request[c] \cup {None}
             /\ request[c] = {} => status[c] \in {None, proc[c], "processing_timed_out"}
             /\ status[c] = "processing_timed_out" => stop[c] = "over"
  <2>1. FaultInv(c) /\ StatusInv(c)
        BY <1>1 DEF IInv, ConnInv
  <2>2. None # "processing_timed_out"
        BY RequestsAssumption
  <2>3. "processing_timed_out" \notin Faults \cup Outcomes
        BY DEF Faults, Checks, Outcomes
  <2>4. request[c] \subseteq Faults
        BY <1>1, RequestsAssumption DEF IInv, TypeOK
  <2> QED BY <2>1, <2>2, <2>3, <2>4 DEF FaultInv, StatusInv
<1>2. IInv => AnswerFits
      BY <1>1 DEF AnswerFits
<1> QED BY <1>2, Invariance, PTL

\* While an upload has no answer, its connection is kept.
THEOREM Kept == Spec => []KeptUntilAnswered
<1>1. IInv => KeptUntilAnswered
      BY DEF IInv, ConnInv, KeptInv, KeptUntilAnswered, Alive, Threads, Waiting, Reading
<1> QED BY <1>1, Invariance, PTL

-----------------------------------------------------------------------------
(* Nobody is abandoned: what EveryRequestAnswered and ConnectionsEnd need of *)
(* each state, whatever is scheduled.                                        *)

\* Who will answer, and who will write; what is written, and closed.
EndInv(c) ==
  /\ read[c] = "over" /\ ~responded[c] =>
       \/ stop[c] \in {"armed", "due"}
       \/ step[c]["io"] \in Responding \/ step[c]["hook"] \in Responding
  /\ responded[c] => write[c] # "none" \/ step[c]["io"] = "write" \/ step[c]["hook"] = "write"
  /\ write[c] # "none" => writes[c] = 1 /\ status[c] # None
  /\ write[c] = "over" => socket[c] = "closed"

\* The connection is left alone.
SameEnd(c) == Same(c) /\ write'[c] = write[c] /\ socket'[c] = socket[c]

\* What is said of it stays true when it is left alone.
LEMMA SameEndInv ==
  ASSUME NEW c \in Conns, EndInv(c), SameEnd(c)
  PROVE  EndInv(c)'
BY DEF EndInv, SameEnd, Same

\* Nothing is answered without a reason.
LEMMA ReplyIsSome ==
  ASSUME IInv, NEW c \in Conns, NEW t \in Threads, step[c][t] \in Responding
  PROVE  reply[c][t] # None
<1>1. ReplyInv(c) /\ request[c] \subseteq Faults
      BY RequestsAssumption DEF IInv, TypeOK, ConnInv
<1> QED BY <1>1, RequestsAssumption DEF ReplyInv, Threads

\* What a handler of the io loop does, or time.
LEMMA EndLoop ==
  ASSUME IInv, NEW c \in Conns, EndInv(c),
         \/ Accept(c) \/ RejectRequest(c) \/ ProcessUpload(c) \/ WriteEnds(c)
         \/ KillHandler(c) \/ StopHandler(c) \/ StopAborted(c) \/ Time(c)
  PROVE  EndInv(c)'
<1> USE DEF Threads
<1>1. CASE Accept(c)
      BY <1>1 DEF IInv, TypeOK, ConnInv, ReadInv, WriteInv, EndInv, Accept, answer, upload
<1>2. CASE RejectRequest(c)
  <2>1. step'[c]["io"] = "cancelKill" /\ responded' = responded /\ responded[c] = FALSE
        BY <1>2 DEF IInv, TypeOK, ConnInv, ReadInv, RejectRequest, Respond, Goto
  <2>2. write' = write /\ writes' = writes /\ status' = status /\ socket' = socket
        BY <1>2 DEF RejectRequest
  <2> QED BY <2>1, <2>2 DEF EndInv, Responding
<1>3. CASE ProcessUpload(c)
      BY <1>3 DEF IInv, TypeOK, EndInv, ProcessUpload, answer
<1>4. CASE WriteEnds(c)
      BY <1>4 DEF IInv, TypeOK, EndInv, WriteEnds, timers, answer, upload
<1>5. CASE KillHandler(c)
  <2>1. socket'[c] \in {socket[c], "closed"}
        BY <1>5 DEF IInv, TypeOK, KillHandler
  <2> QED BY <1>5, <2>1 DEF EndInv, KillHandler, answer, upload
<1>6. CASE StopHandler(c)
  <2>1. step'[c]["io"] = "cancelKill" /\ step'[c]["hook"] = step[c]["hook"] /\ step[c]["io"] = "idle"
        BY <1>6 DEF IInv, TypeOK, StopHandler, Respond, Goto
  <2>2. /\ write' = write /\ writes' = writes /\ status' = status /\ socket' = socket
        /\ responded' = responded
        BY <1>6 DEF StopHandler
  <2> QED BY <2>1, <2>2 DEF EndInv, Responding
<1>7. CASE StopAborted(c)
      BY <1>7 DEF IInv, TypeOK, EndInv, StopAborted, answer, upload
<1>8. CASE Time(c)
      BY <1>8 DEF IInv, TypeOK, EndInv, Time, KillExpires, StopExpires, answer, upload
<1> QED BY <1>1, <1>2, <1>3, <1>4, <1>5, <1>6, <1>7, <1>8

\* What the processor does.
LEMMA EndProcessor ==
  ASSUME IInv, NEW c \in Conns, EndInv(c), ProcessorStep(c)
  PROVE  EndInv(c)'
<1> USE DEF Threads
<1>1. CASE ReadsBody(c)
      BY <1>1 DEF EndInv, ReadsBody, ReadBody, timers, answer
<1>2. CASE HookAnswers(c)
  <2>1. step'[c]["hook"] = "cancelKill" /\ step'[c]["io"] = step[c]["io"] /\ step[c]["hook"] = "idle"
        BY <1>2 DEF IInv, TypeOK, HookAnswers, Respond, Goto
  <2> QED BY <1>2, <2>1 DEF EndInv, HookAnswers, timers, Responding
<1>3. CASE HookFindsNobody(c)
      BY <1>3 DEF EndInv, HookFindsNobody, timers, answer
<1> QED BY <1>1, <1>2, <1>3 DEF ProcessorStep

\* What a thread that answers does: it goes on until somebody has the flag,
\* and who has it writes.
LEMMA EndRespond ==
  ASSUME IInv, NEW c \in Conns, NEW t \in Threads, EndInv(c), RespondStep(c, t)
  PROVE  EndInv(c)'
<1> USE DEF Threads
<1>1. t = "io" \/ t = "hook"
      OBVIOUS
<1>2. CASE CancelKill(c, t)
  <2>1. step'[c][t] = "cancelStop" /\ step[c][t] = "cancelKill"
        /\ \A s \in Threads \ {t} : step'[c][s] = step[c][s]
        BY <1>2 DEF IInv, TypeOK, CancelKill, Goto
  <2> QED BY <1>1, <1>2, <2>1 DEF EndInv, CancelKill, answer, Responding
<1>3. CASE CancelStop(c, t)
  <2>1. step'[c][t] = "exchange" /\ step[c][t] = "cancelStop"
        /\ \A s \in Threads \ {t} : step'[c][s] = step[c][s]
        BY <1>3 DEF IInv, TypeOK, CancelStop, Goto
  <2> QED BY <1>1, <1>3, <2>1 DEF EndInv, CancelStop, answer, Responding
<1>4. CASE Exchange(c, t)
  <2>1. /\ step'[c][t] = (IF responded[c] THEN "idle" ELSE "write") /\ step[c][t] = "exchange"
        /\ \A s \in Threads \ {t} : step'[c][s] = step[c][s]
        /\ responded'[c] = TRUE
        BY <1>4 DEF IInv, TypeOK, Exchange, Goto
  <2> QED BY <1>1, <1>4, <2>1 DEF EndInv, Exchange, timers
<1>5. CASE StartWrite(c, t)
  <2>1. step[c][t] = "write" /\ reply[c][t] # None
        BY <1>5, ReplyIsSome DEF StartWrite, Goto, Responding
  <2>2. writes[c] = 0 /\ responded[c]
        BY <1>1, <2>1 DEF IInv, ConnInv, WriteInv
  <2>3. write'[c] = "pending" /\ writes'[c] = 1 /\ status'[c] # None /\ responded' = responded
        BY <1>5, <2>1, <2>2 DEF IInv, TypeOK, StartWrite
  <2> QED BY <2>2, <2>3 DEF EndInv
<1> QED BY <1>2, <1>3, <1>4, <1>5 DEF RespondStep

\* Every step keeps it, for its own connection and the others.
LEMMA EndStep ==
  ASSUME IInv, [Next]_vars, \A c \in Conns : EndInv(c)
  PROVE  \A c \in Conns : EndInv(c)'
<1> SUFFICES ASSUME NEW d \in Conns PROVE EndInv(d)'
    OBVIOUS
<1>1. CASE UNCHANGED vars
      BY <1>1 DEF EndInv, vars, timers, answer, upload
<1>2. CASE Next
  <2>1. PICK c \in Conns :
          \/ Accept(c) \/ RejectRequest(c) \/ ProcessUpload(c) \/ WriteEnds(c)
          \/ KillHandler(c) \/ StopHandler(c) \/ StopAborted(c) \/ Time(c)
          \/ ProcessorStep(c) \/ \E t \in Threads : RespondStep(c, t)
        BY <1>2 DEF Next, IoStep, Threads
  <2>2. CASE c = d
        BY <2>1, <2>2, EndLoop, EndProcessor, EndRespond
  <2>3. CASE c # d
    <3>1. CASE Accept(c)
          BY <2>3, <3>1, SameEndInv DEF Accept, answer, upload, Same, SameEnd
    <3>2. CASE RejectRequest(c)
          BY <2>3, <3>2, SameEndInv DEF RejectRequest, Respond, Goto, timers, Same, SameEnd
    <3>3. CASE ProcessUpload(c)
          BY <2>3, <3>3, SameEndInv DEF ProcessUpload, answer, Same, SameEnd
    <3>4. CASE WriteEnds(c)
          BY <2>3, <3>4, SameEndInv DEF WriteEnds, timers, answer, upload, Same, SameEnd
    <3>5. CASE KillHandler(c)
          BY <2>3, <3>5, SameEndInv DEF KillHandler, answer, upload, Same, SameEnd
    <3>6. CASE StopHandler(c)
          BY <2>3, <3>6, SameEndInv DEF StopHandler, Respond, Goto, upload, Same, SameEnd
    <3>7. CASE StopAborted(c)
          BY <2>3, <3>7, SameEndInv DEF StopAborted, answer, upload, Same, SameEnd
    <3>8. CASE KillExpires(c)
          BY <2>3, <3>8, SameEndInv DEF KillExpires, answer, upload, Same, SameEnd
    <3>9. CASE StopExpires(c)
          BY <2>3, <3>9, SameEndInv DEF StopExpires, answer, upload, Same, SameEnd
    <3>10. CASE ReadsBody(c)
          BY <2>3, <3>10, SameEndInv DEF IInv, TypeOK, ReadsBody, ReadBody, timers, answer, Same, SameEnd
    <3>11. CASE HookAnswers(c)
          BY <2>3, <3>11, SameEndInv DEF HookAnswers, Ends, Respond, Goto, timers, Same, SameEnd
    <3>12. CASE HookFindsNobody(c)
          BY <2>3, <3>12, SameEndInv DEF HookFindsNobody, Ends, timers, answer, Same, SameEnd
    <3>13. ASSUME NEW t \in Threads, RespondStep(c, t) PROVE EndInv(d)'
      <4>1. CASE CancelKill(c, t)
            BY <2>3, <4>1, SameEndInv DEF CancelKill, Goto, answer, upload, Same, SameEnd
      <4>2. CASE CancelStop(c, t)
            BY <2>3, <4>2, SameEndInv DEF CancelStop, Goto, answer, upload, Same, SameEnd
      <4>3. CASE Exchange(c, t)
        <5>1. step'[d] = step[d] /\ reply'[d] = reply[d]
              BY <2>3, <4>3 DEF Exchange, Goto
        <5>2. responded'[d] = responded[d]
              BY <2>3, <4>3 DEF IInv, TypeOK, Exchange
        <5> QED BY <4>3, <5>1, <5>2, SameEndInv DEF Exchange, timers, upload, Same, SameEnd
      <4>4. CASE StartWrite(c, t)
            BY <2>3, <4>4, SameEndInv DEF StartWrite, Goto, timers, upload, Same, SameEnd
      <4> QED BY <3>13, <4>1, <4>2, <4>3, <4>4 DEF RespondStep
    <3> QED BY <2>1, <3>1, <3>2, <3>3, <3>4, <3>5, <3>6, <3>7, <3>8, <3>9, <3>10, <3>11, <3>12, <3>13
            DEF Time, ProcessorStep
  <2> QED BY <2>2, <2>3
<1> QED BY <1>1, <1>2

\* A connection that was made is freed only when its request has an answer,
\* the answer was written, and the socket is closed: no handler, deadline or
\* hook that lets go of it is the last one too early.
AnsweredBeforeFreed ==
  \A c \in Conns : read[c] # "none" /\ ~Alive(c) =>
    /\ responded[c] /\ writes[c] = 1 /\ status[c] # None
    /\ socket[c] = "closed"

\* The part of EveryRequestAnswered and ConnectionsEnd that needs no fairness.
THEOREM Unabandoned == Spec => []AnsweredBeforeFreed
<1> DEFINE E == \A c \in Conns : EndInv(c)
<1>1. Init => E
      BY DEF Init, EndInv
<1>2. IInv /\ [Next]_vars /\ E => E'
      BY EndStep
<1>3. IInv /\ E => AnsweredBeforeFreed
  <2> SUFFICES ASSUME IInv, E, NEW c \in Conns, read[c] # "none", ~Alive(c)
               PROVE  /\ responded[c] /\ writes[c] = 1 /\ status[c] # None
                      /\ socket[c] = "closed"
      BY DEF AnsweredBeforeFreed
  <2>1. /\ read[c] = "over" /\ write[c] # "pending" /\ stop[c] \notin Waiting
        /\ step[c]["io"] \notin Responding /\ step[c]["hook"] \notin Responding
        BY DEF IInv, TypeOK, Alive, Threads
  <2>2. write[c] = "over"
        BY <2>1 DEF IInv, TypeOK, EndInv, Waiting, Responding
  <2> QED BY <2>1, <2>2 DEF EndInv, Waiting
<1> HIDE DEF E
<1> QED BY <1>1, <1>2, <1>3, Invariance, PTL DEF Spec
=============================================================================
