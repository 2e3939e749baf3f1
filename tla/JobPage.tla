-------------------------------- MODULE JobPage --------------------------------
(***************************************************************************)
(* How a browser learns what a job of server/main.py is doing. The job's   *)
(* thread writes a new state and pushes it to every subscriber: through    *)
(* the event loop into the subscriber's bounded queue, whose handler sends *)
(* it over the WebSocket. The page asks for the state once over HTTP,      *)
(* subscribes, and subscribes again whenever the connection is lost; what  *)
(* arrives last is what it shows, and what its player plays.               *)
(*                                                                         *)
(* A state of the job is the number of the _set that made it; the last is  *)
(* the end of the job. batch_ws and the page of a batch are the same.      *)
(***************************************************************************)
EXTENDS Naturals, Sequences

CONSTANTS
  LastState,     \* the end of the job
  Streaming,     \* the state from which on there is a stream
  QueueSize,     \* asyncio.Queue(maxsize=64)
  MaxConns       \* bound: connections of the page

ASSUME JobPageAssumption ==
  /\ LastState \in Nat \ {0} /\ Streaming \in 1 .. LastState
  /\ QueueSize \in Nat \ {0} /\ MaxConns \in Nat \ {0}

Conns == 1 .. MaxConns
States == 0 .. LastState
Nothing == LastState + 1     \* the page has been told nothing
NoRequest == [at |-> "over", says |-> 0]

VARIABLES
  state, pushed, known,      \* the job, the state last pushed, whether _jobs still has it
  handler, slot,             \* the WebSocket handlers, and the subscribers in _job_ws
  scheduled, queue, wire,    \* put_nowait calls, queues and messages under way
  conn, up,                  \* the page's connection, and whether it is open
  request,                   \* the page's HTTP request, or its answer
  shown, player,             \* the state the page shows, and what its player plays
  full, overtaken, missed    \* auxiliary: a message was dropped; an old answer came last;
                             \* the job was forgotten before it answered

jobVars  == <<state, pushed, known>>
wsVars   == <<handler, slot, scheduled, queue, wire>>
connVars == <<conn, up>>
pageVars == <<shown, player>>
auxVars  == <<full, overtaken, missed>>
vars == <<jobVars, wsVars, connVars, request, pageVars, auxVars>>

Init ==
  /\ state = 0 /\ pushed = 0 /\ known = TRUE
  /\ handler = [c \in Conns |-> "off"] /\ slot = {}
  /\ scheduled = [c \in Conns |-> <<>>] /\ queue = [c \in Conns |-> <<>>]
  /\ wire = [c \in Conns |-> <<>>]
  /\ conn = 1 /\ up = FALSE
  /\ request = [at |-> "asked", says |-> 0]
  /\ shown = Nothing /\ player = "none"
  /\ full = FALSE /\ overtaken = FALSE /\ missed = FALSE

-------------------------------------------------------------------------------
(* The job's thread *)

\* _set changes the job and calls on_change.
SetState ==
  /\ state = pushed /\ state < LastState
  /\ state' = state + 1
  /\ UNCHANGED <<pushed, known, wsVars, connVars, request, pageVars, auxVars>>

\* on_change serialises the job for everybody in the slot.
PushToWs ==
  /\ state # pushed
  /\ pushed' = state
  /\ scheduled' = [c \in Conns |-> IF c \in slot THEN Append(scheduled[c], state) ELSE scheduled[c]]
  /\ UNCHANGED <<state, known, handler, slot, queue, wire, connVars, request, pageVars, auxVars>>

\* Another upload makes the registry forget a job that has ended.
JobForgotten ==
  /\ known /\ pushed = LastState
  /\ known' = FALSE
  /\ UNCHANGED <<state, pushed, wsVars, connVars, request, pageVars, auxVars>>

-------------------------------------------------------------------------------
(* The WebSocket handler, on the event loop *)

Connected(c) == conn = c /\ up

\* A message to a connection that is gone is lost.
Delivers(c, s) ==
  wire' = IF Connected(c) THEN [wire EXCEPT ![c] = Append(@, s)] ELSE wire

\* The registration and the first state are one piece of the loop's work: other threads
\* run in between, put_nowait and other handlers do not.
LoopIsFree == \A c \in Conns : handler[c] # "registered"

\* accept, and the registration before the first state is read.
Subscribes(c) ==
  /\ handler[c] = "accept" /\ LoopIsFree
  /\ slot' = slot \cup {c}
  /\ handler' = [handler EXCEPT ![c] = "registered"]
  /\ UNCHANGED <<jobVars, scheduled, queue, wire, connVars, request, pageVars, auxVars>>

Greets(c) ==
  /\ handler[c] = "registered"
  /\ handler' = [handler EXCEPT ![c] = "pump"]
  /\ IF known THEN Delivers(c, state) ELSE UNCHANGED wire
  /\ missed' = (missed \/ ~known)
  /\ UNCHANGED <<jobVars, slot, scheduled, queue, connVars, request, pageVars, full, overtaken>>

\* The first send is outside the try: when it fails the subscriber stays in the slot.
GreetFails(c) ==
  /\ handler[c] = "registered" /\ known /\ ~Connected(c)
  /\ handler' = [handler EXCEPT ![c] = "end"]
  /\ UNCHANGED <<jobVars, slot, scheduled, queue, wire, connVars, request, pageVars, auxVars>>

\* put_nowait runs on the loop; a full queue drops the newest message.
Room(q) == Len(q) < QueueSize

QueuePuts(c) ==
  /\ scheduled[c] # <<>> /\ LoopIsFree
  /\ scheduled' = [scheduled EXCEPT ![c] = Tail(@)]
  /\ IF Room(queue[c])
     THEN queue' = [queue EXCEPT ![c] = Append(@, Head(scheduled[c]))] /\ UNCHANGED full
     ELSE full' = TRUE /\ UNCHANGED queue
  /\ UNCHANGED <<jobVars, handler, slot, wire, connVars, request, pageVars, overtaken, missed>>

Sends(c) ==
  /\ handler[c] = "pump" /\ queue[c] # <<>> /\ LoopIsFree
  /\ queue' = [queue EXCEPT ![c] = Tail(@)]
  /\ Delivers(c, Head(queue[c]))
  /\ UNCHANGED <<jobVars, handler, slot, scheduled, connVars, request, pageVars, auxVars>>

\* Only a send notices that nobody is there any more; the handler then leaves the slot.
NoticesDisconnect(c) ==
  /\ handler[c] = "pump" /\ queue[c] # <<>> /\ LoopIsFree
  /\ ~Connected(c)
  /\ handler' = [handler EXCEPT ![c] = "end"]
  /\ slot' = slot \ {c}
  /\ queue' = [queue EXCEPT ![c] = <<>>]
  /\ UNCHANGED <<jobVars, scheduled, wire, connVars, request, pageVars, auxVars>>

-------------------------------------------------------------------------------
(* The page *)

\* open, at first and a second after every close.
Opens ==
  /\ ~up /\ handler[conn] = "off"
  /\ up' = TRUE
  /\ handler' = [handler EXCEPT ![conn] = "accept"]
  /\ UNCHANGED <<jobVars, slot, scheduled, queue, wire, conn, request, pageVars, auxVars>>

ReconnectsNever == UNCHANGED conn
Reconnects == conn' = conn + 1

\* What is on the wire is lost with the connection.
ConnectionLost ==
  /\ up /\ conn < MaxConns
  /\ up' = FALSE
  /\ Reconnects
  /\ wire' = [wire EXCEPT ![conn] = <<>>]
  /\ UNCHANGED <<jobVars, handler, slot, scheduled, queue, request, pageVars, auxVars>>

Receives ==
  /\ up /\ wire[conn] # <<>>
  /\ shown' = Head(wire[conn])
  /\ wire' = [wire EXCEPT ![conn] = Tail(@)]
  /\ overtaken' = FALSE
  /\ UNCHANGED <<jobVars, handler, slot, scheduled, queue, connVars, request, player, full, missed>>

\* GET /api/jobs/<id>/status: the state at the time of the answer, or 404.
StatusAnswers ==
  /\ request.at = "asked"
  /\ request' = IF known THEN [at |-> "answered", says |-> state] ELSE NoRequest
  /\ UNCHANGED <<jobVars, wsVars, connVars, pageVars, auxVars>>

\* The answer may arrive after later states have come over the WebSocket.
StatusArrives ==
  /\ request.at = "answered"
  /\ request' = NoRequest
  /\ shown' = request.says
  /\ overtaken' = (shown # Nothing /\ request.says < shown)
  /\ UNCHANGED <<jobVars, wsVars, connVars, player, full, missed>>

StatusFails ==
  /\ request # NoRequest
  /\ request' = NoRequest
  /\ UNCHANGED <<jobVars, wsVars, connVars, pageVars, auxVars>>

\* The effect of the player: its cleanup destroys the Hls instance, and the end of the
\* job replaces the stream by the MP4.
PlayerFor(s) == CASE s = LastState -> "mp4"
                  [] s \in Streaming .. LastState - 1 -> "hls"
                  [] OTHER -> "none"

PlayerEffect ==
  /\ player # PlayerFor(shown)
  /\ player' = PlayerFor(shown)
  /\ UNCHANGED <<jobVars, wsVars, connVars, request, shown, auxVars>>

-------------------------------------------------------------------------------
Server(c) == Subscribes(c) \/ Greets(c) \/ GreetFails(c) \/ QueuePuts(c) \/ Sends(c) \/ NoticesDisconnect(c)
Status == StatusAnswers \/ StatusArrives \/ StatusFails

Next == \/ SetState \/ PushToWs \/ JobForgotten
        \/ \E c \in Conns : Server(c)
        \/ Opens \/ ConnectionLost \/ Receives \/ Status \/ PlayerEffect

Spec == Init /\ [][Next]_vars

\* The thread, the event loop and the browser run what is due; the page's last connection
\* holds.
FairSpec ==
  /\ Spec
  /\ WF_vars(SetState) /\ WF_vars(PushToWs)
  /\ \A c \in Conns : WF_vars(Subscribes(c)) /\ WF_vars(Greets(c)) /\ WF_vars(QueuePuts(c))
                      /\ WF_vars(Sends(c))
  /\ WF_vars(Opens) /\ WF_vars(Receives) /\ WF_vars(Status) /\ WF_vars(PlayerEffect)

-------------------------------------------------------------------------------
(* Properties *)

\* "The WebSocket layer reliably sees every state transition" (worker.py:199-200): the
\* page shows the end of the job in the end, and plays its MP4, however often it has to
\* reconnect and in whatever order pushes, snapshots and the HTTP answer fall. The three
\* ways in which it may not: a full queue dropped the news (main.py:182), the answer of
\* an earlier GET came after it (page.tsx:35), the job was forgotten before a connection
\* was greeted (main.py:383).
PageShowsTheEnd ==
  <>[](full \/ overtaken \/ missed \/ (shown = LastState /\ player = "mp4"))
================================================================================
