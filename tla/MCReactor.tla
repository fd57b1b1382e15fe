------------------------------ MODULE MCReactor ------------------------------
(***************************************************************************)
(* The parts of the reactor, and the body of a chunked response, for TLC.  *)
(* They share no state here: a behaviour is one of them, as which says,    *)
(* and the variables of the others stay as they are.                       *)
(***************************************************************************)
EXTENDS EventLoop, TimerQueue, TcpClient, TcpConnection, AsyncLogging

CONSTANTS Base, BuffSize   \* HttpConnection
\* HttpConnection: one to three chunks, with a size line of one digit or two
Bodies == {<<1>>, <<2>>, <<1, 2>>, <<2, 1>>, <<1, 1, 1>>}

VARIABLE which
VARIABLES h_sent, h_net, h_data, h_len, h_begin, h_content_len, h_left, h_body, h_pc, h_fresh,
          h_split, h_stale

H == INSTANCE HttpConnection WITH sent <- h_sent, net <- h_net, data <- h_data, len <- h_len,
     begin <- h_begin, content_len <- h_content_len, left <- h_left, body <- h_body, pc <- h_pc,
     fresh <- h_fresh, split <- h_split, stale <- h_stale

hvars == <<h_sent, h_net, h_data, h_len, h_begin, h_content_len, h_left, h_body, h_pc, h_fresh,
            h_split, h_stale>>
allVars == <<which, vars, queueVars, clientVars, connVars, hvars, logVars>>
-----------------------------------------------------------------------------
\* A is a step of the part w, and rest the variables of the others.
Only(w, A, rest) == which = w /\ A /\ UNCHANGED which /\ UNCHANGED rest
notE == <<queueVars, clientVars, connVars, hvars, logVars>>
notT == <<vars, clientVars, connVars, hvars, logVars>>
notL == <<vars, queueVars, connVars, hvars, logVars>>
notC == <<vars, queueVars, clientVars, hvars, logVars>>
notH == <<vars, queueVars, clientVars, connVars, logVars>>
notG == <<vars, queueVars, clientVars, connVars, hvars>>

ReactorInit ==
  /\ which \in {"loop", "timer", "client", "connection", "body", "log"}
  /\ Init /\ QueueInit /\ ClientInit /\ ConnInit /\ H!Init /\ LogInit
  \* a choice that is another part's is made once
  /\ (which # "client" => ~retry_) /\ (which # "connection" => ~shared)
  /\ (which # "body" => h_sent = <<1>> /\ h_len = 0)
ReactorNext ==
  \/ Only("loop", Next, notE) \/ Only("timer", QueueNext, notT) \/ Only("client", ClientNext, notL)
  \/ Only("connection", ConnNext, notC) \/ Only("body", H!Next, notH) \/ Only("log", LogNext, notG)
\* The fairness of each part's own specification, in behaviours of that part.
ReactorFairness ==
  /\ WF_vars(which = "loop" /\ LoopRuns)
  /\ \A u \in Others : WF_vars(which = "loop" /\ wakeup(u))
  /\ WF_clientVars(which = "client" /\ ClientLoop)
  /\ WF_clientVars(which = "client" /\ CallGoesOn)
  /\ WF_connVars(which = "connection" /\ IoLoop)
  /\ WF_connVars(which = "connection" /\ removeConnectionInLoop)
  /\ WF_connVars(which = "connection" /\ ConnCallGoesOn)
  /\ SF_connVars(which = "connection" /\ pollConn(TRUE) /\ "out" \in received')
ReactorSpec == ReactorInit /\ [][ReactorNext]_allVars /\ ReactorFairness
-----------------------------------------------------------------------------
\* HttpConnection: the body of a chunked response is what was sent, unless a read cut a size line
\* or used bytes were parsed again.
BodyIsContent == H!BodyIsContent
=============================================================================
