--------------------------- MODULE WebServerProof ---------------------------
(* Invariants of the web server, for any number of workers, clients,       *)
(* requests and descriptors.                                               *)
EXTENDS WebServer, FiniteSetTheorems, SequenceTheorems, TLAPS

\* The values the steps assign belong to the sets of TypeOK.
LEMMA Values ==
    /\ {"running", "done", "failed", "crashed", "killed"} \subseteq ProcStates
    /\ {"create", "wait", "shutdown", "close", "join", "done"} \subseteq MPC
    /\ {"none", "top", "accept", "lock", "getid", "incid", "recv", "logtime",
        "command", "fopen", "status", "header", "close", "body", "fclose",
        "shutdown", "newline", "exited"} \subseteq WPC
    /\ {"idle", "connected", "sent", "closed", "aborted", "done", "refused"}
          \subseteq CPC
    /\ {"free", "resv", "listen", "file"} \subseteq FdUses
    /\ Clients \subseteq FdUses
    /\ {"200", "400", "404", "501"} \subseteq Codes
    /\ Codes \subseteq Pieces /\ "body" \in Pieces
    /\ serverd \in Fd
    /\ \A i \in 0 .. NWORKERS : i < NWORKERS => i \in Workers /\ i + 1 \in 0 .. NWORKERS
    /\ 0 \in 0 .. NWORKERS
  BY ServerAssumption
  DEF ProcStates, MPC, WPC, CPC, FdUses, Codes, Pieces, serverd, Fd, Workers

\* Type correctness of the main thread's steps.
LEMMA MainType == TypeOK /\ (MainStep \/ ReadExit) => TypeOK'
<1> SUFFICES ASSUME TypeOK, MainStep \/ ReadExit PROVE TypeOK'
  OBVIOUS
<1> USE Values DEF TypeOK, mainVars, localVars, idVars, netVars, logVars,
            clientVars, sockVars, Running
<1>1. CASE CreateWorker
  BY <1>1 DEF CreateWorker, Goto
<1>2. CASE CreateFails
  BY <1>2 DEF CreateFails
<1>3. CASE ReadExit
  BY <1>3 DEF ReadExit
<1>4. CASE ShutdownListener
  BY <1>4 DEF ShutdownListener
<1>5. CASE CloseListener
  <2>1. CASE /\ mpc' = "join" /\ mi' = 0 /\ UNCHANGED proc
             /\ fdTab' = [fdTab EXCEPT ![serverd] = "free"]
    BY <1>5, <2>1 DEF CloseListener
  <2>2. CASE proc' = "failed" /\ UNCHANGED <<mainVars, fdTab>>
    BY <1>5, <2>2 DEF CloseListener
  <2> QED
    BY <1>5, <2>1, <2>2 DEF CloseListener
<1>6. CASE JoinWorker
  BY <1>6 DEF JoinWorker
<1>7. CASE CloseLog
  BY <1>7 DEF CloseLog
<1> QED
  BY <1>1, <1>2, <1>3, <1>4, <1>5, <1>6, <1>7 DEF MainStep

\* Type correctness of the clients' steps.
LEMMA ClientType ==
    ASSUME TypeOK, NEW c \in Clients, ClientStep(c) PROVE TypeOK'
<1> USE Values DEF TypeOK, mainVars, localVars, idVars, netVars, logVars,
            clientVars, sockVars, Running
<1>1. CASE Connect(c)
  <2>1. CASE backlog' = Append(backlog, c) /\ cpc' = [cpc EXCEPT ![c] = "connected"]
    <3>1. backlog' \in Seq(Clients)
      BY <2>1
    <3> QED
      BY <1>1, <2>1, <3>1 DEF Connect
  <2>2. CASE cpc' = [cpc EXCEPT ![c] = "refused"] /\ UNCHANGED backlog
    BY <1>1, <2>2 DEF Connect
  <2> QED
    BY <1>1, <2>1, <2>2 DEF Connect
<1>2. CASE ClientSend(c)
  BY <1>2 DEF ClientSend
<1>3. CASE ClientClose(c)
  BY <1>3 DEF ClientClose
<1>4. CASE ClientAbort(c)
  BY <1>4 DEF ClientAbort
<1>5. CASE ClientDone(c)
  BY <1>5 DEF ClientDone
<1> QED
  BY <1>1, <1>2, <1>3, <1>4, <1>5 DEF ClientStep

\* send() only ever appends a piece of an answer to what a client received.
LEMMA SendType ==
    ASSUME TypeOK, NEW w \in Workers,
           NEW p \in Pieces, SendOn(w, p)
    PROVE  proc' \in ProcStates /\ out' \in [Clients -> Seq(Pieces)]
<1> DEFINE c == fdTab[clientd[w]]
<1>1. CASE out' = out
  BY <1>1, Values DEF SendOn, TypeOK
<1>2. CASE /\ c \in Clients
           /\ out' = [out EXCEPT ![c] = Append(@, p)]
  <2>1. Append(out[c], p) \in Seq(Pieces)
    BY <1>2 DEF TypeOK
  <2> QED
    BY <1>2, <2>1, Values DEF SendOn, TypeOK
<1> QED
  BY <1>1, <1>2 DEF SendOn

\* A worker's log line carries its id and its connection.
LEMMA LineType ==
    ASSUME TypeOK, NEW w \in Workers PROVE Line(w) \in LogLines
  BY DEF TypeOK, Line, LogLines

\* Type correctness of the workers' steps.
LEMMA WorkerType ==
    ASSUME TypeOK, NEW w \in Workers, WorkerStep(w) PROVE TypeOK'
<1> USE Values DEF TypeOK, mainVars, localVars, idVars, netVars, logVars,
            clientVars, sockVars, Running, Goto
<1>1. CASE EnterAccept(w)
  <2>1. CASE Goto(w, "exited") /\ UNCHANGED <<clientd, fdTab>>
    BY <1>1, <2>1 DEF EnterAccept
  <2>2. CASE /\ \E f \in Fd : /\ clientd' = [clientd EXCEPT ![w] = f]
                              /\ fdTab' = [fdTab EXCEPT ![f] = "resv"]
             /\ Goto(w, "accept")
    <3>1. PICK f \in Fd : /\ clientd' = [clientd EXCEPT ![w] = f]
                          /\ fdTab' = [fdTab EXCEPT ![f] = "resv"]
      BY <2>2
    <3> QED
      BY <1>1, <2>2, <3>1 DEF EnterAccept
  <2> QED
    BY <1>1, <2>1, <2>2 DEF EnterAccept
<1>2. CASE Accept(w)
  <2>1. Head(backlog) \in Clients /\ Tail(backlog) \in Seq(Clients)
    BY <1>2 DEF Accept
  <2> QED
    BY <1>2, <2>1 DEF Accept
<1>3. CASE AcceptShut(w)
  BY <1>3 DEF AcceptShut
<1>4. CASE Lock(w)
  BY <1>4 DEF Lock
<1>5. CASE GetId(w)
  BY <1>5 DEF GetId
<1>6. CASE IncId(w)
  BY <1>6 DEF IncId
<1>7. CASE Recv(w)
  <2>1. CASE /\ fdTab[clientd[w]] \in Clients
             /\ buff' = [buff EXCEPT ![w] = fdTab[clientd[w]]]
             /\ Goto(w, "logtime") /\ UNCHANGED <<code, conn>>
    BY <1>7, <2>1 DEF Recv
  <2>2. CASE Again(w)
    BY <1>7, <2>2 DEF Recv, Again
  <2> QED
    BY <1>7, <2>1, <2>2 DEF Recv
<1>8. CASE LogTime(w)
  <2>1. CASE LogLine(w) /\ Goto(w, "command") /\ UNCHANGED <<buff, conn, code>>
    BY <1>8, <2>1, LineType DEF LogTime, LogLine
  <2>2. CASE Again(w) /\ UNCHANGED logVars
    BY <1>8, <2>2 DEF LogTime, Again
  <2> QED
    BY <1>8, <2>1, <2>2 DEF LogTime
<1>9. CASE ReadCommand(w)
  <2>1. log' \subseteq LogLines
    BY <1>9, LineType DEF ReadCommand, LogLine
  <2>2. /\ wpc' \in [Workers -> WPC] /\ code' \in [Workers -> Codes]
        /\ proc' \in ProcStates
    <3> DEFINE r == creq[buff[w]]
    <3> HIDE DEF r
    <3>1. CASE proc' = "crashed" /\ UNCHANGED <<wpc, code>>
      BY <3>1
    <3>2. CASE /\ code' = [code EXCEPT ![w] = "400"]
               /\ Goto(w, "status") /\ UNCHANGED proc
      BY <3>2
    <3>3. CASE /\ code' = [code EXCEPT ![w] = IF r.verb = "other"
                                              THEN "501" ELSE "200"]
               /\ Goto(w, IF r.verb \in {"GET", "HEAD"}
                          THEN "fopen" ELSE "status")
               /\ UNCHANGED proc
      BY <3>3
    <3> QED
      BY <1>9, <3>1, <3>2, <3>3 DEF ReadCommand, r
  <2> QED
    BY <1>9, <2>1, <2>2 DEF ReadCommand, LogLine
<1>10. CASE FOpen(w)
  <2>1. CASE /\ \E f \in Fd : /\ inFile' = [inFile EXCEPT ![w] = f]
                              /\ fdTab' = [fdTab EXCEPT ![f] = "file"]
             /\ UNCHANGED code
    <3>1. PICK f \in Fd : /\ inFile' = [inFile EXCEPT ![w] = f]
                          /\ fdTab' = [fdTab EXCEPT ![f] = "file"]
      BY <2>1
    <3> QED
      BY <1>10, <2>1, <3>1 DEF FOpen
  <2>2. CASE /\ code' = [code EXCEPT ![w] = "404"]
             /\ UNCHANGED <<inFile, fdTab>>
    BY <1>10, <2>2 DEF FOpen
  <2> QED
    BY <1>10, <2>1, <2>2 DEF FOpen
<1>11. CASE LogStatus(w)
  <2>1. AfterHeader(w) \in WPC
    BY DEF AfterHeader
  <2> QED
    <3>1. CASE log' = log \cup {Line(w)} /\ Goto(w, "header")
      BY <1>11, <3>1, LineType DEF LogStatus
    <3>2. CASE log' = log /\ Goto(w, IF code[w] = "200" /\ Verb(w) = "OPTIONS"
                                     THEN "header" ELSE AfterHeader(w))
      <4>1. wpc' \in [Workers -> WPC]
        BY <2>1, <3>2
      <4> QED
        BY <1>11, <3>2, <4>1 DEF LogStatus
    <3> QED
      BY <1>11, <3>1, <3>2 DEF LogStatus
<1>12. CASE SendHeader(w)
  <2>1. AfterHeader(w) \in WPC
    BY DEF AfterHeader
  <2> QED
    BY <1>12, <2>1, SendType DEF SendHeader
<1>13. CASE CloseClient(w)
  BY <1>13 DEF CloseClient
<1>14. CASE SendBody(w)
  BY <1>14, SendType DEF SendBody
<1>15. CASE FClose(w)
  BY <1>15 DEF FClose
<1>16. CASE ShutdownClient(w)
  BY <1>16 DEF ShutdownClient, Again
<1>17. CASE LogNewline(w)
  BY <1>17 DEF LogNewline, Again
<1> QED
  BY <1>1, <1>2, <1>3, <1>4, <1>5, <1>6, <1>7, <1>8, <1>9, <1>10, <1>11,
     <1>12, <1>13, <1>14, <1>15, <1>16, <1>17 DEF WorkerStep

\* The type invariant of the server holds in every reachable state.
THEOREM TypeCorrect == Spec => []TypeOK
<1>1. Init => TypeOK
  <2> SUFFICES ASSUME Init PROVE TypeOK
    OBVIOUS
  <2>1. /\ out \in [Clients -> Seq(Pieces)] /\ backlog \in Seq(Clients)
        /\ log \subseteq LogLines /\ fdTab \in [Fd -> FdUses]
    BY Values DEF Init
  <2> QED
    BY <2>1, Values DEF Init, TypeOK
<1>2. TypeOK /\ [Next]_vars => TypeOK'
  <2>1. TypeOK /\ Next => TypeOK'
    BY MainType, ClientType, WorkerType DEF Next
  <2>2. TypeOK /\ UNCHANGED vars => TypeOK'
    BY DEF TypeOK, vars, mainVars, localVars, idVars, netVars, logVars,
           clientVars, sockVars
  <2> QED
    BY <2>1, <2>2
<1> QED
  BY <1>1, <1>2, PTL DEF Spec

-----------------------------------------------------------------------------
(* Request ids: every id names one connection in the log. *)

\* The part of the inductive invariant that is about request ids.
IdAll == CreateInv /\ MutexInv /\ IdInv /\ LogAttribution

\* Steps outside the critical section: worker w may write one log line and
\* move on, keeping its id, as long as it already held it.
LEMMA IdFrame ==
    ASSUME TypeOK, IdAll, NEW w \in Workers, wpc' \in [Workers -> WPC],
           UNCHANGED <<gLock, next_request_id, request_id, mpc, mi>>,
           \A v \in Workers \ {w} : wpc'[v] = wpc[v] /\ conn'[v] = conn[v],
           wpc[w] \notin {"none", "getid", "incid"},
           wpc'[w] \notin {"getid", "incid"},
           wpc'[w] \in LivePCs => wpc[w] \in LivePCs /\ conn'[w] = conn[w],
           \/ log' = log
           \/ wpc[w] \in LivePCs /\ log' = log \cup {Line(w)}
    PROVE  IdAll'
<1>1. CreateInv'
  BY DEF IdAll, CreateInv
<1>2. MutexInv'
  BY DEF IdAll, MutexInv
<1>3. IdInv'
  <2>1. \A e \in log' : e.id < next_request_id'
    BY DEF IdAll, IdInv, Line, TypeOK
  <2>2. ASSUME NEW v \in Workers, wpc'[v] = "incid"
        PROVE  request_id'[v] = next_request_id'
    BY <2>2 DEF IdAll, IdInv
  <2>3. ASSUME NEW v \in Workers, wpc'[v] \in LivePCs
        PROVE  /\ request_id'[v] < next_request_id'
               /\ \A u \in Workers \ {v} :
                     wpc'[u] \in LivePCs => request_id'[u] # request_id'[v]
    BY <2>3 DEF IdAll, IdInv
  <2>4. ASSUME NEW v \in Workers, wpc'[v] \in LivePCs, NEW e \in log',
               e.id = request_id'[v]
        PROVE  e.who = conn'[v]
    BY <2>4 DEF IdAll, IdInv, Line
  <2> QED
    BY <2>1, <2>2, <2>3, <2>4 DEF IdInv
<1>4. LogAttribution'
  BY DEF IdAll, IdInv, LogAttribution, Line
<1> QED
  BY <1>1, <1>2, <1>3, <1>4 DEF IdAll

\* Steps of main() and of the clients leave ids, log and connections alone.
LEMMA IdOthers ==
    ASSUME TypeOK, IdAll,
           UNCHANGED <<gLock, next_request_id, request_id, log, conn, wpc>>,
           mpc' = "create" => mpc = "create" /\ mi' = mi
    PROVE  IdAll'
  BY DEF IdAll, CreateInv, MutexInv, IdInv, LogAttribution

\* pthread_create starts a worker that held nothing.
LEMMA IdCreate ==
    ASSUME TypeOK, IdAll, CreateWorker PROVE IdAll'
<1> USE DEF mainVars, localVars, idVars, logVars
<1>1. CASE mi < NWORKERS
  <2>1. /\ mi \in Workers /\ wpc[mi] = "none" /\ mi \in Nat
        /\ mpc = "create" /\ mpc' = mpc /\ mi' = mi + 1
        /\ wpc' = [wpc EXCEPT ![mi] = "top"]
        /\ UNCHANGED <<gLock, next_request_id, request_id, log, conn>>
    BY <1>1, ServerAssumption
    DEF CreateWorker, Goto, IdAll, CreateInv, TypeOK, Workers
  <2>2. CreateInv'
    BY <2>1 DEF IdAll, CreateInv, TypeOK, Workers
  <2>3. MutexInv' /\ LogAttribution'
    BY <2>1 DEF IdAll, MutexInv, TypeOK, LogAttribution
  <2>4. IdInv'
    BY <2>1 DEF IdAll, IdInv, TypeOK, LivePCs
  <2> QED
    BY <2>2, <2>3, <2>4 DEF IdAll
<1>2. CASE ~(mi < NWORKERS)
  BY <1>2, IdOthers DEF CreateWorker
<1> QED
  BY <1>1, <1>2

\* Every step of main() and of the clients.
LEMMA IdMainClients ==
    ASSUME TypeOK, IdAll, MainStep \/ ReadExit \/ \E c \in Clients : ClientStep(c)
    PROVE  IdAll'
<1> USE DEF mainVars, localVars, idVars, logVars
<1>1. CASE CreateWorker
  BY <1>1, IdCreate
<1>2. CASE CreateFails
  BY <1>2, IdOthers DEF CreateFails
<1>3. CASE ReadExit
  BY <1>3, IdOthers DEF ReadExit
<1>4. CASE ShutdownListener
  BY <1>4, IdOthers DEF ShutdownListener
<1>5. CASE CloseListener
  BY <1>5, IdOthers DEF CloseListener
<1>6. CASE JoinWorker
  BY <1>6, IdOthers DEF JoinWorker
<1>7. CASE CloseLog
  BY <1>7, IdOthers DEF CloseLog
<1>8. ASSUME NEW c \in Clients, ClientStep(c) PROVE IdAll'
  BY <1>8, IdOthers
  DEF ClientStep, Connect, ClientSend, ClientClose, ClientAbort, ClientDone
<1> QED
  BY <1>1, <1>2, <1>3, <1>4, <1>5, <1>6, <1>7, <1>8 DEF MainStep

\* The critical section: the id is read and advanced by the lock's holder.
LEMMA IdLock ==
    ASSUME TypeOK, IdAll, NEW w \in Workers, Lock(w) PROVE IdAll'
<1>1. /\ wpc[w] = "lock" /\ gLock = None /\ gLock' = w
      /\ wpc' = [wpc EXCEPT ![w] = "getid"]
      /\ UNCHANGED <<next_request_id, request_id, log, conn, mpc, mi>>
  BY DEF Lock, Goto, mainVars, localVars, logVars
<1>2. CreateInv' /\ LogAttribution'
  BY <1>1 DEF IdAll, CreateInv, LogAttribution, TypeOK
<1>3. MutexInv'
  <2>1. \A v \in Workers : wpc[v] \notin {"getid", "incid"}
    BY <1>1, ServerAssumption DEF IdAll, MutexInv, Workers
  <2> QED
    BY <1>1, <2>1 DEF MutexInv, TypeOK
<1>4. IdInv'
  BY <1>1 DEF IdAll, IdInv, TypeOK, LivePCs
<1> QED
  BY <1>2, <1>3, <1>4 DEF IdAll

LEMMA IdGet ==
    ASSUME TypeOK, IdAll, NEW w \in Workers, GetId(w) PROVE IdAll'
<1>1. /\ wpc[w] = "getid"
      /\ wpc' = [wpc EXCEPT ![w] = "incid"]
      /\ request_id' = [request_id EXCEPT ![w] = next_request_id]
      /\ UNCHANGED <<gLock, next_request_id, log, conn, mpc, mi>>
  BY DEF GetId, Goto, mainVars, idVars, logVars
<1>2. CreateInv' /\ LogAttribution' /\ MutexInv'
  BY <1>1 DEF IdAll, CreateInv, LogAttribution, MutexInv, TypeOK
<1>3. IdInv'
  BY <1>1 DEF IdAll, IdInv, TypeOK, LivePCs
<1> QED
  BY <1>2, <1>3 DEF IdAll

LEMMA IdInc ==
    ASSUME TypeOK, IdAll, NEW w \in Workers, IncId(w) PROVE IdAll'
<1>1. /\ wpc[w] = "incid" /\ gLock = w /\ gLock' = None
      /\ wpc' = [wpc EXCEPT ![w] = "recv"]
      /\ next_request_id' = next_request_id + 1
      /\ UNCHANGED <<request_id, log, conn, mpc, mi>>
  BY DEF IncId, Goto, mainVars, localVars, logVars, IdAll, MutexInv
<1>2. CreateInv' /\ LogAttribution'
  BY <1>1 DEF IdAll, CreateInv, LogAttribution, TypeOK
<1>3. \A v \in Workers : v # w => wpc[v] \notin {"getid", "incid"}
  BY <1>1 DEF IdAll, MutexInv
<1>4. MutexInv'
  BY <1>1, <1>3, ServerAssumption DEF MutexInv, TypeOK, Workers
<1>5. IdInv'
  <2>1. \A e \in log : e.id \in Nat
    BY DEF TypeOK, LogLines
  <2>2. \A v \in Workers : request_id[v] \in Nat
    BY DEF TypeOK
  <2> QED
    BY <1>1, <1>3, <2>1, <2>2 DEF IdAll, IdInv, TypeOK, LivePCs
<1> QED
  BY <1>2, <1>4, <1>5 DEF IdAll

\* Every other step of a worker is an instance of IdFrame.
LEMMA IdWorker ==
    ASSUME TypeOK, TypeOK', IdAll, NEW w \in Workers, WorkerStep(w)
    PROVE  IdAll'
<1> USE DEF TypeOK, mainVars, localVars, idVars, logVars, Goto, LivePCs
<1>1. CASE EnterAccept(w)
  BY <1>1, IdFrame DEF EnterAccept
<1>2. CASE Accept(w)
  BY <1>2, IdFrame DEF Accept
<1>3. CASE AcceptShut(w)
  BY <1>3, IdFrame DEF AcceptShut
<1>4. CASE Lock(w) \/ GetId(w) \/ IncId(w)
  BY <1>4, IdLock, IdGet, IdInc
<1>7. CASE Recv(w)
  BY <1>7, IdFrame DEF Recv, Again
<1>8. CASE LogTime(w)
  BY <1>8, IdFrame DEF LogTime, LogLine, Again
<1>9. CASE ReadCommand(w)
  BY <1>9, IdFrame DEF ReadCommand, LogLine
<1>10. CASE FOpen(w)
  BY <1>10, IdFrame DEF FOpen
<1>11. CASE LogStatus(w)
  BY <1>11, IdFrame DEF LogStatus, AfterHeader
<1>12. CASE SendHeader(w)
  BY <1>12, IdFrame DEF SendHeader, AfterHeader
<1>13. CASE CloseClient(w)
  BY <1>13, IdFrame DEF CloseClient
<1>14. CASE SendBody(w)
  BY <1>14, IdFrame DEF SendBody
<1>15. CASE FClose(w)
  BY <1>15, IdFrame DEF FClose
<1>16. CASE ShutdownClient(w)
  <2>1. CASE Again(w)
    BY <1>16, <2>1, IdFrame DEF ShutdownClient, Again
  <2>2. CASE Goto(w, "newline") /\ UNCHANGED <<buff, conn, code>>
    BY <1>16, <2>2, IdFrame DEF ShutdownClient
  <2> QED
    BY <1>16, <2>1, <2>2 DEF ShutdownClient
<1>17. CASE LogNewline(w)
  BY <1>17, IdFrame DEF LogNewline, Again
<1> QED
  BY <1>1, <1>2, <1>3, <1>4, <1>7, <1>8, <1>9, <1>10, <1>11,
     <1>12, <1>13, <1>14, <1>15, <1>16, <1>17 DEF WorkerStep

\* The invariant about request ids holds of the server.
LEMMA IdHolds == Spec => []IdAll
<1>1. Init => IdAll
  BY ServerAssumption
  DEF Init, IdAll, CreateInv, MutexInv, IdInv, LogAttribution, LivePCs, Workers
<1>2. TypeOK /\ TypeOK' /\ IdAll /\ [Next]_vars => IdAll'
  <2> SUFFICES ASSUME TypeOK, TypeOK', IdAll, [Next]_vars PROVE IdAll'
    OBVIOUS
  <2>1. CASE Next
    BY <2>1, IdMainClients, IdWorker DEF Next
  <2>2. CASE UNCHANGED vars
    BY <2>2, IdOthers DEF vars, mainVars, localVars, idVars, logVars
  <2> QED
    BY <2>1, <2>2
<1> QED
  BY <1>1, <1>2, TypeCorrect, PTL DEF Spec

\* The log never mixes two connections under one request id, because the id
\* is read and advanced under gLock (process_requests).
THEOREM LogAttributionHolds == Spec => []LogAttribution
<1>1. IdAll => LogAttribution
  BY DEF IdAll
<1> QED
  BY <1>1, IdHolds, PTL

-----------------------------------------------------------------------------
(* Descriptors: the one a worker answers on is the one it accepted. *)

\* The part of the inductive invariant that is about descriptors.
FdAll == CreateInv /\ FdInv /\ OwnDescriptor

\* What a step of worker w leaves alone: the other workers and main().
OnlyWorker(w) ==
    /\ UNCHANGED <<mpc, mi, creq>>
    /\ \A v \in Workers \ {w} :
          /\ wpc'[v] = wpc[v] /\ code'[v] = code[v] /\ buff'[v] = buff[v]
          /\ conn'[v] = conn[v]
          /\ clientd'[v] = clientd[v] /\ inFile'[v] = inFile[v]

\* A worker that is not w keeps the status of its descriptors.
LEMMA OthersKeep ==
    ASSUME NEW w \in Workers, OnlyWorker(w), NEW v \in Workers, v # w
    PROVE  (HasConn(v)' <=> HasConn(v)) /\ (HasFile(v)' <=> HasFile(v))
  BY DEF OnlyWorker, HasConn, HasFile, Verb

\* Nobody else uses a descriptor that is free, that worker w has reserved or
\* accepted, or whose file w has open.
LEMMA NotOthers ==
    ASSUME TypeOK, FdAll, NEW w \in Workers, NEW f \in Fd,
           \/ fdTab[f] = "free"
           \/ HasConn(w) /\ f = clientd[w]
           \/ HasFile(w) /\ f = inFile[w]
    PROVE  /\ fdTab[f] = "listen" => FALSE
           /\ \A v \in Workers \ {w} :
                 (HasConn(v) => clientd[v] # f) /\ (HasFile(v) => inFile[v] # f)
<1> USE DEF FdAll, FdInv, OwnDescriptor
<1>1. ASSUME NEW v \in Workers, HasConn(v)
      PROVE  fdTab[clientd[v]] \in Clients \cup {"resv"}
  BY <1>1 DEF HasConn
<1>2. ASSUME NEW v \in Workers, HasFile(v)
      PROVE  fdTab[inFile[v]] = "file"
  BY <1>2
<1>3. /\ "free" \notin Clients /\ "resv" \notin Clients
      /\ "listen" \notin Clients /\ "file" \notin Clients
  BY ServerAssumption
<1> QED
  BY <1>1, <1>2, <1>3

\* A step of worker w that changes at most one entry of the descriptor table,
\* one that nobody else uses.
LEMMA FdFrame ==
    ASSUME TypeOK, FdAll, NEW w \in Workers, OnlyWorker(w),
           wpc[w] # "none", NEW f \in Fd,
           \A g \in Fd \ {f} : fdTab'[g] = fdTab[g],
           \/ fdTab'[f] = fdTab[f]
           \/ fdTab[f] = "free"
           \/ HasConn(w) /\ f = clientd[w]
           \/ HasFile(w) /\ f = inFile[w],
           wpc'[w] = "accept" => fdTab'[clientd'[w]] = "resv",
           wpc'[w] \in OwnPCs =>
               conn'[w] \in Clients /\ fdTab'[clientd'[w]] = conn'[w],
           wpc'[w] = "body" => code'[w] = "200",
           HasFile(w)' => fdTab'[inFile'[w]] = "file",
           HasConn(w)' => \/ HasConn(w) /\ clientd'[w] = clientd[w]
                          \/ fdTab[clientd'[w]] = "free",
           HasFile(w)' => \/ HasFile(w) /\ inFile'[w] = inFile[w]
                          \/ fdTab[inFile'[w]] = "free",
           clientd' \in [Workers -> Fd], inFile' \in [Workers -> Fd]
    PROVE  FdAll'
<1>1. CreateInv'
  BY DEF FdAll, CreateInv, OnlyWorker
<1>2. mpc' \in {"create", "wait", "shutdown", "close"} =>
         fdTab'[serverd] = "listen"
  BY NotOthers, Values DEF FdAll, FdInv, OnlyWorker
<1>3. \A v \in Workers \ {w} :
         /\ HasConn(v) => fdTab'[clientd[v]] = fdTab[clientd[v]]
         /\ HasFile(v) => fdTab'[inFile[v]] = fdTab[inFile[v]]
  BY NotOthers DEF TypeOK
<1>4. ASSUME NEW v \in Workers
      PROVE  /\ wpc'[v] = "accept" => fdTab'[clientd'[v]] = "resv"
             /\ wpc'[v] \in OwnPCs => conn'[v] \in Clients
             /\ wpc'[v] \in OwnPCs => fdTab'[clientd'[v]] = conn'[v]
             /\ wpc'[v] = "body" => code'[v] = "200"
             /\ HasFile(v)' => fdTab'[inFile'[v]] = "file"
  <2>1. CASE v = w
    BY <2>1
  <2>2. CASE v # w
    BY <2>2, <1>3, OthersKeep
    DEF FdAll, FdInv, OwnDescriptor, OnlyWorker, HasConn
  <2> QED
    BY <2>1, <2>2
<1>5. ASSUME NEW v \in Workers, v # w
      PROVE  /\ HasConn(v)' /\ HasConn(w)' => clientd'[v] # clientd'[w]
             /\ HasFile(v)' /\ HasFile(w)' => inFile'[v] # inFile'[w]
  <2>1. HasConn(v)' /\ HasConn(w)' => clientd'[v] # clientd'[w]
    BY <1>5, OthersKeep, NotOthers DEF OnlyWorker
  <2>2. HasFile(v)' /\ HasFile(w)' => inFile'[v] # inFile'[w]
    BY <1>5, OthersKeep, NotOthers DEF OnlyWorker
  <2> QED
    BY <2>1, <2>2
<1>6. ASSUME NEW v \in Workers, NEW u \in Workers, v # u
      PROVE  /\ HasConn(v)' /\ HasConn(u)' => clientd'[v] # clientd'[u]
             /\ HasFile(v)' /\ HasFile(u)' => inFile'[v] # inFile'[u]
  <2>1. CASE v = w \/ u = w
    BY <1>5, <1>6, <2>1
  <2>2. CASE v # w /\ u # w
    BY <1>6, <2>2, OthersKeep DEF OnlyWorker, FdAll, FdInv
  <2> QED
    BY <2>1, <2>2
<1>7. FdInv'
  BY <1>2, <1>4, <1>6 DEF FdInv
<1>8. OwnDescriptor'
  BY <1>4 DEF OwnDescriptor
<1> QED
  BY <1>1, <1>7, <1>8 DEF FdAll

\* Steps that leave workers and descriptors alone.
LEMMA FdOthers ==
    ASSUME FdAll, UNCHANGED <<wpc, clientd, inFile, code, buff, conn, creq>>,
           \/ fdTab' = fdTab
           \/ /\ mpc' = "join" /\ fdTab[serverd] = "listen"
              /\ \A g \in Fd \ {serverd} : fdTab'[g] = fdTab[g],
           TypeOK,
           mpc' = "create" => mpc = "create" /\ mi' = mi,
           mpc' \in {"create", "wait", "shutdown", "close"} =>
               mpc \in {"create", "wait", "shutdown", "close"}
    PROVE  FdAll'
<1>1. \A v \in Workers : (HasConn(v)' <=> HasConn(v)) /\ (HasFile(v)' <=> HasFile(v))
  BY DEF HasConn, HasFile, Verb
<1>2. \A v \in Workers :
         /\ HasConn(v) => fdTab[clientd[v]] # "listen"
         /\ HasFile(v) => fdTab[inFile[v]] # "listen"
  BY ServerAssumption DEF FdAll, FdInv, OwnDescriptor, HasConn
<1>3. \A v \in Workers :
         /\ HasConn(v) => fdTab'[clientd[v]] = fdTab[clientd[v]]
         /\ HasFile(v) => fdTab'[inFile[v]] = fdTab[inFile[v]]
  BY <1>2 DEF TypeOK
<1>4. CreateInv'
  BY DEF FdAll, CreateInv
<1>5. FdInv'
  BY <1>1, <1>3 DEF FdAll, FdInv, HasConn
<1>6. OwnDescriptor'
  BY <1>3 DEF FdAll, OwnDescriptor, HasConn
<1> QED
  BY <1>4, <1>5, <1>6 DEF FdAll

\* pthread_create starts a worker that has no descriptor.
LEMMA FdCreate ==
    ASSUME TypeOK, FdAll, CreateWorker PROVE FdAll'
<1> USE DEF mainVars, localVars, clientVars
<1>1. CASE mi < NWORKERS
  <2>1. /\ mi \in Workers /\ wpc[mi] = "none" /\ mi \in Nat
        /\ mpc = "create" /\ mpc' = mpc /\ mi' = mi + 1
        /\ wpc' = [wpc EXCEPT ![mi] = "top"]
        /\ UNCHANGED <<clientd, inFile, code, buff, conn, creq, fdTab>>
    BY <1>1, ServerAssumption
    DEF CreateWorker, Goto, FdAll, CreateInv, TypeOK, Workers
  <2>2. CreateInv'
    BY <2>1 DEF FdAll, CreateInv, TypeOK, Workers
  <2>3. \A v \in Workers : (HasConn(v)' => HasConn(v)) /\ (HasFile(v)' => HasFile(v))
    BY <2>1 DEF HasConn, HasFile, Verb, TypeOK, OwnPCs
  <2>4. FdInv'
    BY <2>1, <2>3 DEF FdAll, FdInv, TypeOK, OwnPCs
  <2>5. OwnDescriptor'
    BY <2>1 DEF FdAll, OwnDescriptor, OwnPCs, TypeOK
  <2> QED
    BY <2>2, <2>4, <2>5 DEF FdAll
<1>2. CASE ~(mi < NWORKERS)
  BY <1>2, FdOthers DEF CreateWorker
<1> QED
  BY <1>1, <1>2

\* Every step of main() and of the clients.
LEMMA FdMainClients ==
    ASSUME TypeOK, FdAll, MainStep \/ ReadExit \/ \E c \in Clients : ClientStep(c)
    PROVE  FdAll'
<1> USE DEF mainVars, localVars, clientVars
<1>1. CASE CreateWorker
  BY <1>1, FdCreate
<1>2. CASE CreateFails
  BY <1>2, FdOthers DEF CreateFails
<1>3. CASE ReadExit
  BY <1>3, FdOthers DEF ReadExit
<1>4. CASE ShutdownListener
  BY <1>4, FdOthers DEF ShutdownListener
<1>5. CASE CloseListener
  <2>1. fdTab[serverd] = "listen"
    BY <1>5 DEF CloseListener, FdAll, FdInv
  <2> QED
    BY <1>5, <2>1, FdOthers DEF CloseListener, TypeOK
<1>6. CASE JoinWorker
  BY <1>6, FdOthers DEF JoinWorker
<1>7. CASE CloseLog
  BY <1>7, FdOthers DEF CloseLog
<1>8. ASSUME NEW c \in Clients, ClientStep(c) PROVE FdAll'
  BY <1>8, FdOthers
  DEF ClientStep, Connect, ClientSend, ClientClose, ClientAbort, ClientDone
<1> QED
  BY <1>1, <1>2, <1>3, <1>4, <1>5, <1>6, <1>7, <1>8 DEF MainStep

\* A step of worker w that leaves the descriptor table and w's descriptors
\* alone, and gives w nothing it did not have.
LEMMA FdQuiet ==
    ASSUME TypeOK, TypeOK', FdAll, NEW w \in Workers, OnlyWorker(w),
           wpc[w] # "none",
           UNCHANGED <<fdTab, clientd, inFile>>,
           wpc'[w] # "accept",
           wpc'[w] \in OwnPCs => wpc[w] \in OwnPCs /\ conn'[w] = conn[w],
           wpc'[w] = "body" => code'[w] = "200",
           HasFile(w)' => HasFile(w)
    PROVE  FdAll'
<1>1. clientd[w] \in Fd
  BY DEF TypeOK
<1>2. wpc'[w] \in OwnPCs =>
         conn'[w] \in Clients /\ fdTab'[clientd'[w]] = conn'[w]
  BY DEF FdAll, FdInv, OwnDescriptor
<1>3. HasFile(w)' => fdTab'[inFile'[w]] = "file"
  BY DEF FdAll, FdInv
<1>4. HasConn(w)' => HasConn(w)
  BY DEF HasConn
<1>5. clientd' \in [Workers -> Fd] /\ inFile' \in [Workers -> Fd]
  BY DEF TypeOK
<1> QED
  BY <1>1, <1>2, <1>3, <1>4, <1>5, FdFrame

\* The steps of a worker that take or give back a descriptor.
LEMMA FdTable ==
    ASSUME TypeOK, TypeOK', FdAll, NEW w \in Workers,
           \/ EnterAccept(w) \/ Accept(w) \/ AcceptShut(w) \/ FOpen(w)
           \/ CloseClient(w) \/ FClose(w)
    PROVE  FdAll'
<1> USE DEF mainVars, localVars, clientVars, Goto
<1>0. OnlyWorker(w) /\ wpc[w] # "none"
  BY DEF EnterAccept, Accept, AcceptShut, FOpen, CloseClient, FClose,
         OnlyWorker, TypeOK
<1>1. CASE EnterAccept(w)
  <2>1. CASE Goto(w, "exited") /\ UNCHANGED <<clientd, fdTab>>
    BY <1>0, <1>1, <2>1, FdQuiet
    DEF EnterAccept, TypeOK, OwnPCs, HasFile
  <2>2. CASE \E f \in Fd : /\ LowestFree(f)
                           /\ clientd' = [clientd EXCEPT ![w] = f]
                           /\ fdTab' = [fdTab EXCEPT ![f] = "resv"]
                           /\ Goto(w, "accept")
    <3>1. PICK f \in Fd : /\ LowestFree(f)
                          /\ clientd' = [clientd EXCEPT ![w] = f]
                          /\ fdTab' = [fdTab EXCEPT ![f] = "resv"]
                          /\ Goto(w, "accept")
      BY <2>2
    <3>2. /\ fdTab[f] = "free" /\ clientd'[w] = f /\ fdTab'[f] = "resv"
          /\ wpc'[w] = "accept" /\ \A g \in Fd \ {f} : fdTab'[g] = fdTab[g]
      BY <3>1 DEF LowestFree, TypeOK
    <3>3. ~HasFile(w)' /\ wpc'[w] \notin OwnPCs
      BY <3>2 DEF HasFile, OwnPCs
    <3>4. clientd' \in [Workers -> Fd] /\ inFile' \in [Workers -> Fd]
      BY DEF TypeOK
    <3> QED
      BY <1>0, <3>2, <3>3, <3>4, FdFrame
  <2> QED
    BY <1>1, <2>1, <2>2 DEF EnterAccept
<1>2. CASE Accept(w)
  <2> DEFINE c == Head(backlog)
  <2>1. c \in Clients
    BY <1>2 DEF Accept, TypeOK
  <2>2. /\ wpc[w] = "accept" /\ wpc'[w] = "lock" /\ conn'[w] = c
        /\ clientd' = clientd /\ inFile' = inFile /\ clientd[w] \in Fd
        /\ fdTab'[clientd[w]] = c
        /\ \A g \in Fd \ {clientd[w]} : fdTab'[g] = fdTab[g]
    BY <1>2 DEF Accept, TypeOK
  <2>3. ~HasFile(w)' /\ HasConn(w)
    BY <2>2 DEF HasFile, HasConn
  <2>4. clientd' \in [Workers -> Fd] /\ inFile' \in [Workers -> Fd]
    BY DEF TypeOK
  <2> QED
    BY <1>0, <2>1, <2>2, <2>3, <2>4, FdFrame
<1>3. CASE AcceptShut(w) \/ CloseClient(w)
  <2>1. /\ HasConn(w) /\ wpc'[w] \in {"exited", "shutdown"}
        /\ clientd' = clientd /\ inFile' = inFile /\ clientd[w] \in Fd
        /\ \A g \in Fd \ {clientd[w]} : fdTab'[g] = fdTab[g]
    BY <1>3 DEF AcceptShut, CloseClient, TypeOK, HasConn, OwnPCs
  <2>2. ~HasFile(w)' /\ ~HasConn(w)' /\ wpc'[w] \notin OwnPCs
    BY <2>1 DEF HasFile, HasConn, OwnPCs
  <2>3. clientd' \in [Workers -> Fd] /\ inFile' \in [Workers -> Fd]
    BY DEF TypeOK
  <2> QED
    BY <1>0, <2>1, <2>2, <2>3, FdFrame DEF HasConn
<1>4. CASE FOpen(w)
  <2>0. wpc[w] = "fopen" /\ wpc'[w] = "status" /\ clientd' = clientd
        /\ conn' = conn
    BY <1>4 DEF FOpen, TypeOK
  <2>1. CASE \E f \in Fd : /\ LowestFree(f)
                           /\ inFile' = [inFile EXCEPT ![w] = f]
                           /\ fdTab' = [fdTab EXCEPT ![f] = "file"]
    <3>1. PICK f \in Fd : /\ LowestFree(f)
                          /\ inFile' = [inFile EXCEPT ![w] = f]
                          /\ fdTab' = [fdTab EXCEPT ![f] = "file"]
      BY <2>1
    <3>2. /\ fdTab[f] = "free" /\ inFile'[w] = f /\ fdTab'[f] = "file"
          /\ \A g \in Fd \ {f} : fdTab'[g] = fdTab[g]
      BY <3>1 DEF LowestFree, TypeOK
    <3>3. conn[w] \in Clients /\ fdTab[clientd[w]] = conn[w] /\ clientd[w] \in Fd
      BY <2>0 DEF FdAll, FdInv, OwnDescriptor, OwnPCs, TypeOK
    <3>4. clientd[w] # f
      BY <3>2, <3>3, ServerAssumption
    <3>5. clientd' \in [Workers -> Fd] /\ inFile' \in [Workers -> Fd]
      BY DEF TypeOK
    <3>6. HasConn(w)
      BY <2>0 DEF HasConn, OwnPCs
    <3> QED
      BY <1>0, <2>0, <3>2, <3>3, <3>4, <3>5, <3>6, FdFrame
  <2>2. CASE /\ code' = [code EXCEPT ![w] = "404"]
             /\ UNCHANGED <<inFile, fdTab>>
    <3>1. ~HasFile(w)' /\ wpc[w] \in OwnPCs
      BY <2>0, <2>2 DEF HasFile, OwnPCs, TypeOK
    <3> QED
      BY <1>0, <2>0, <2>2, <3>1, FdQuiet
  <2> QED
    BY <1>4, <2>1, <2>2 DEF FOpen
<1>5. CASE FClose(w)
  <2>1. /\ wpc[w] = "fclose" /\ HasFile(w) /\ wpc'[w] = "shutdown"
        /\ clientd' = clientd /\ inFile' = inFile /\ inFile[w] \in Fd
        /\ \A g \in Fd \ {inFile[w]} : fdTab'[g] = fdTab[g]
    BY <1>5 DEF FClose, TypeOK, HasFile
  <2>2. ~HasFile(w)' /\ ~HasConn(w)' /\ wpc'[w] \notin OwnPCs
    BY <2>1 DEF HasFile, HasConn, OwnPCs
  <2>3. clientd' \in [Workers -> Fd] /\ inFile' \in [Workers -> Fd]
    BY DEF TypeOK
  <2> QED
    BY <1>0, <2>1, <2>2, <2>3, FdFrame
<1> QED
  BY <1>1, <1>2, <1>3, <1>4, <1>5

\* The steps of a worker that leave its descriptors alone.
LEMMA FdPlain ==
    ASSUME TypeOK, TypeOK', FdAll, NEW w \in Workers,
           \/ Lock(w) \/ GetId(w) \/ IncId(w) \/ Recv(w) \/ LogTime(w)
           \/ ReadCommand(w) \/ LogStatus(w) \/ SendHeader(w)
           \/ SendBody(w) \/ ShutdownClient(w) \/ LogNewline(w)
    PROVE  FdAll'
<1> USE DEF mainVars, localVars, clientVars, Goto
<1>0. /\ OnlyWorker(w) /\ wpc[w] # "none"
      /\ UNCHANGED <<fdTab, clientd, inFile>>
  BY DEF Lock, GetId, IncId, Recv, LogTime, ReadCommand, LogStatus,
         SendHeader, SendBody, ShutdownClient, LogNewline, Again,
         OnlyWorker, TypeOK
<1>1. CASE Lock(w) \/ GetId(w) \/ IncId(w)
  BY <1>0, <1>1, FdQuiet DEF Lock, GetId, IncId, TypeOK, OwnPCs, HasFile
<1>2. CASE Recv(w) \/ LogTime(w)
  BY <1>0, <1>2, FdQuiet DEF Recv, LogTime, Again, TypeOK, OwnPCs, HasFile
<1>3. CASE ReadCommand(w)
  BY <1>0, <1>3, FdQuiet DEF ReadCommand, TypeOK, OwnPCs, HasFile, Verb
<1>4. CASE LogStatus(w)
  BY <1>0, <1>4, FdQuiet
  DEF LogStatus, AfterHeader, TypeOK, OwnPCs, HasFile, Verb
<1>5. CASE SendHeader(w)
  BY <1>0, <1>5, FdQuiet
  DEF SendHeader, AfterHeader, TypeOK, OwnPCs, HasFile, Verb
<1>6. CASE SendBody(w)
  BY <1>0, <1>6, FdQuiet
  DEF SendBody, TypeOK, OwnPCs, HasFile, Verb, FdAll, FdInv
<1>7. CASE ShutdownClient(w) \/ LogNewline(w)
  BY <1>0, <1>7, FdQuiet
  DEF ShutdownClient, LogNewline, Again, TypeOK, OwnPCs, HasFile
<1> QED
  BY <1>1, <1>2, <1>3, <1>4, <1>5, <1>6, <1>7

\* The invariant about descriptors holds of the server.
LEMMA FdHolds == Spec => []FdAll
<1>1. Init => FdAll
  BY ServerAssumption, Values
  DEF Init, FdAll, CreateInv, FdInv, OwnDescriptor, OwnPCs, HasConn, HasFile
<1>2. TypeOK /\ TypeOK' /\ FdAll /\ [Next]_vars => FdAll'
  <2> SUFFICES ASSUME TypeOK, TypeOK', FdAll, [Next]_vars PROVE FdAll'
    OBVIOUS
  <2>1. CASE MainStep \/ ReadExit \/ \E c \in Clients : ClientStep(c)
    BY <2>1, FdMainClients
  <2>2. ASSUME NEW w \in Workers, WorkerStep(w) PROVE FdAll'
    BY <2>2, FdTable, FdPlain DEF WorkerStep
  <2>3. CASE UNCHANGED vars
    BY <2>3, FdOthers DEF vars, mainVars, localVars, clientVars
  <2> QED
    BY <2>1, <2>2, <2>3 DEF Next
<1> QED
  BY <1>1, <1>2, TypeCorrect, PTL DEF Spec

\* From accept() to the end of the answer a worker's descriptor names the
\* connection it accepted, although numbers are reused at once.
THEOREM OwnDescriptorHolds == Spec => []OwnDescriptor
<1>1. FdAll => OwnDescriptor
  BY DEF FdAll
<1> QED
  BY <1>1, FdHolds, PTL

\* The invariant that the runs check: who holds the lock, which ids and which
\* descriptors are in use, and by whom.
THEOREM Inductive == Spec => []IInv
<1>1. TypeOK /\ IdAll /\ FdAll => IInv
  BY DEF IInv, IdAll, FdAll
<1> QED
  BY <1>1, TypeCorrect, IdHolds, FdHolds, PTL

-----------------------------------------------------------------------------
(* What the clients receive, and how the process ends: no foreign pieces,   *)
(* whole answers, nobody left at exit.                                      *)

\* What a step of worker w leaves to main(), to the clients and to the other
\* workers.
LEMMA WorkerMoves ==
    ASSUME TypeOK, NEW w \in Workers, WorkerStep(w)
    PROVE  /\ Running /\ wpc[w] \notin {"none", "exited"}
           /\ UNCHANGED <<mpc, mi, lsock, logOpen, cpc, creq>>
           /\ \A v \in Workers \ {w} :
                 /\ wpc'[v] = wpc[v] /\ code'[v] = code[v] /\ buff'[v] = buff[v]
                 /\ conn'[v] = conn[v] /\ clientd'[v] = clientd[v]
                 /\ inFile'[v] = inFile[v]
<1> USE DEF TypeOK, mainVars, localVars, logVars, netVars, clientVars, Goto, Again, LogLine
<1>1. CASE EnterAccept(w) \/ Accept(w) \/ AcceptShut(w)
  BY <1>1 DEF EnterAccept, Accept, AcceptShut
<1>2. CASE Lock(w) \/ GetId(w) \/ IncId(w)
  BY <1>2 DEF Lock, GetId, IncId
<1>3. CASE Recv(w) \/ LogTime(w)
  BY <1>3 DEF Recv, LogTime
<1>4. CASE ReadCommand(w)
  BY <1>4 DEF ReadCommand
<1>5. CASE FOpen(w)
  BY <1>5 DEF FOpen
<1>6. CASE LogStatus(w) \/ SendHeader(w) \/ CloseClient(w) \/ SendBody(w)
  BY <1>6 DEF LogStatus, SendHeader, CloseClient, SendBody
<1>7. CASE FClose(w) \/ ShutdownClient(w) \/ LogNewline(w)
  BY <1>7 DEF FClose, ShutdownClient, LogNewline
<1> QED
  BY <1>1, <1>2, <1>3, <1>4, <1>5, <1>6, <1>7 DEF WorkerStep

\* What a step of a client leaves alone.
LEMMA ClientMoves ==
    ASSUME NEW c \in Clients, ClientStep(c)
    PROVE  UNCHANGED <<proc, mainVars, wpc, localVars, idVars, fdTab, lsock,
                       logVars, creq, sockVars>>
  BY DEF ClientStep, Connect, ClientSend, ClientClose, ClientAbort, ClientDone,
         clientVars, netVars

-----------------------------------------------------------------------------
(* The end of the process. *)

\* main() closes the log after the last join, and a joined worker has exited.
JoinInv ==
    /\ mpc = "join" => \A w \in Workers : w < mi => wpc[w] = "exited"
    /\ mpc = "done" => \A w \in Workers : wpc[w] = "exited"
    /\ ~logOpen => mpc = "done"

LEMMA JoinHolds == Spec => []JoinInv
<1>1. Init => JoinInv
  BY DEF Init, JoinInv
<1>2. TypeOK /\ JoinInv /\ [Next]_vars => JoinInv'
  <2> SUFFICES ASSUME TypeOK, JoinInv, [Next]_vars PROVE JoinInv'
    OBVIOUS
  <2> USE DEF mainVars, logVars
  <2>1. CASE CreateWorker
    BY <2>1 DEF CreateWorker, JoinInv
  <2>2. CASE CreateFails \/ ReadExit \/ ShutdownListener
    BY <2>2 DEF CreateFails, ReadExit, ShutdownListener, JoinInv
  <2>3. CASE CloseListener
    BY <2>3 DEF CloseListener, JoinInv, Workers
  <2>4. CASE JoinWorker
    <3>1. mi \in Nat /\ \A w \in Workers : w \in Nat /\ (w < mi + 1 => w < mi \/ w = mi)
      BY ServerAssumption DEF TypeOK, Workers
    <3> QED
      BY <2>4, <3>1 DEF JoinWorker, JoinInv
  <2>5. CASE CloseLog
    BY <2>5, ServerAssumption DEF CloseLog, JoinInv, Workers
  <2>6. ASSUME NEW w \in Workers, WorkerStep(w) PROVE JoinInv'
    BY <2>6, WorkerMoves DEF JoinInv
  <2>7. ASSUME NEW c \in Clients, ClientStep(c) PROVE JoinInv'
    BY <2>7, ClientMoves DEF JoinInv
  <2>8. CASE UNCHANGED vars
    BY <2>8 DEF vars, JoinInv
  <2> QED
    BY <2>1, <2>2, <2>3, <2>4, <2>5, <2>6, <2>7, <2>8 DEF Next, MainStep
<1> QED
  BY <1>1, <1>2, TypeCorrect, PTL DEF Spec

\* No worker is about to use the log once main() has closed it: main() closes
\* it after joining all of them.
THEOREM LogOpenWhileUsedHolds == Spec => []LogOpenWhileUsed
<1>1. JoinInv => LogOpenWhileUsed
  BY DEF JoinInv, LogOpenWhileUsed
<1> QED
  BY <1>1, JoinHolds, PTL

-----------------------------------------------------------------------------
(* Connections: each is queued once, accepted once and named by one descriptor. *)

\* c waits in the listen queue; nobody has accepted c yet.
InQueue(c) == \E k \in DOMAIN backlog : backlog[k] = c
Fresh(c) == cpc[c] = "idle" \/ InQueue(c)

QueueInv ==
    /\ \A j, k \in DOMAIN backlog : backlog[j] = backlog[k] => j = k
    /\ \A c \in Clients : InQueue(c) => cpc[c] # "idle"
    /\ \A c \in Clients : Fresh(c) =>
          out[c] = << >> /\ c \notin shutSet /\ \A f \in Fd : fdTab[f] # c
    /\ \A f, g \in Fd : f # g /\ fdTab[f] \in Clients => fdTab[f] # fdTab[g]

\* A step that makes nobody fresh and sends, shuts down and names only
\* connections that are not fresh.
LEMMA QueueFrame ==
    ASSUME TypeOK, QueueInv,
           \A j, k \in DOMAIN backlog' : backlog'[j] = backlog'[k] => j = k,
           \A c \in Clients : InQueue(c)' => cpc'[c] # "idle",
           \A c \in Clients : Fresh(c)' =>
               Fresh(c) /\ out'[c] = out[c] /\ (c \in shutSet' => c \in shutSet),
           \A f \in Fd : \/ fdTab'[f] = fdTab[f]
                         \/ fdTab'[f] \notin Clients
                         \/ \E h \in Clients :
                               /\ fdTab'[f] = h /\ ~Fresh(h)'
                               /\ \A g \in Fd \ {f} : fdTab[g] # h /\ fdTab'[g] = fdTab[g]
    PROVE  QueueInv'
<1>1. ASSUME NEW c \in Clients, Fresh(c)'
      PROVE  out'[c] = << >> /\ c \notin shutSet' /\ \A f \in Fd : fdTab'[f] # c
  BY <1>1 DEF QueueInv
<1>2. ASSUME NEW f \in Fd, NEW g \in Fd, f # g, fdTab'[f] \in Clients
      PROVE  fdTab'[f] # fdTab'[g]
  <2>1. CASE fdTab'[f] = fdTab[f] /\ fdTab'[g] = fdTab[g]
    BY <1>2, <2>1 DEF QueueInv
  <2>2. CASE fdTab'[f] = fdTab[f] /\ fdTab'[g] # fdTab[g]
    BY <1>2, <2>2
  <2>3. CASE fdTab'[f] # fdTab[f]
    BY <1>2, <2>3
  <2> QED
    BY <2>1, <2>2, <2>3
<1> QED
  BY <1>1, <1>2 DEF QueueInv

\* A step of a worker that leaves the queue alone.
LEMMA QueueQuiet ==
    ASSUME TypeOK, QueueInv, UNCHANGED <<backlog, cpc>>,
           \A c \in Clients : out'[c] = out[c] \/ \E f \in Fd : fdTab[f] = c,
           \A c \in shutSet' \ shutSet : \E f \in Fd : fdTab[f] = c,
           \A f \in Fd : fdTab'[f] = fdTab[f] \/ fdTab'[f] \notin Clients
    PROVE  QueueInv'
<1>1. \A c : InQueue(c)' <=> InQueue(c)
  BY DEF InQueue
<1>2. \A c : Fresh(c)' <=> Fresh(c)
  BY <1>1 DEF Fresh
<1>3. \A c \in Clients : Fresh(c)' =>
         Fresh(c) /\ out'[c] = out[c] /\ (c \in shutSet' => c \in shutSet)
  BY <1>2 DEF QueueInv
<1> QED
  BY <1>1, <1>3, QueueFrame DEF QueueInv

\* Appending a client who was not there, and taking the first one away.
LEMMA QueueSeq ==
    ASSUME backlog \in Seq(Clients)
    PROVE  /\ \A c \in Clients :
                 /\ DOMAIN Append(backlog, c) = 1 .. Len(backlog) + 1
                 /\ \A k \in 1 .. Len(backlog) : Append(backlog, c)[k] = backlog[k]
                 /\ Append(backlog, c)[Len(backlog) + 1] = c
           /\ DOMAIN backlog = 1 .. Len(backlog) /\ Len(backlog) \in Nat
           /\ backlog # << >> =>
                 /\ Len(backlog) >= 1 /\ Head(backlog) = backlog[1]
                 /\ DOMAIN Tail(backlog) = 1 .. Len(backlog) - 1
                 /\ \A k \in 1 .. Len(backlog) - 1 : Tail(backlog)[k] = backlog[k + 1]
  OBVIOUS

LEMMA QueueAccept ==
    ASSUME TypeOK, QueueInv, NEW w \in Workers, Accept(w) PROVE QueueInv'
<1>0. PICK h \in Clients : h = Head(backlog)
  BY DEF Accept, TypeOK
<1>1. /\ backlog # << >> /\ backlog' = Tail(backlog) /\ UNCHANGED <<cpc, out, shutSet>>
      /\ fdTab' = [fdTab EXCEPT ![clientd[w]] = h] /\ clientd[w] \in Fd
  BY <1>0 DEF Accept, clientVars, sockVars, TypeOK
<1>2. backlog \in Seq(Clients)
  BY DEF TypeOK
<1>3. InQueue(h)
  <2>1. 1 \in DOMAIN backlog /\ h = backlog[1]
    BY <1>0, <1>1, <1>2, QueueSeq
  <2> QED
    BY <1>2, <2>1 DEF InQueue
<1>4. \A j, k \in DOMAIN backlog' : backlog'[j] = backlog'[k] => j = k
  BY <1>1, <1>2, QueueSeq DEF QueueInv
<1>5. \A c \in Clients : InQueue(c)' => InQueue(c) /\ c # h
  BY <1>0, <1>1, <1>2, QueueSeq DEF QueueInv, InQueue
<1>6. \A c \in Clients : Fresh(c)' => Fresh(c) /\ c # h
  BY <1>1, <1>3, <1>5 DEF Fresh, QueueInv
<1>7. \A f \in Fd : fdTab[f] # h
  BY <1>3 DEF QueueInv, Fresh
<1>8. \A f \in Fd : \/ fdTab'[f] = fdTab[f]
                    \/ \E d \in Clients :
                          /\ fdTab'[f] = d /\ ~Fresh(d)'
                          /\ \A g \in Fd \ {f} : fdTab[g] # d /\ fdTab'[g] = fdTab[g]
  <2> SUFFICES ASSUME NEW f \in Fd, f = clientd[w]
               PROVE  /\ fdTab'[f] = h /\ ~Fresh(h)'
                      /\ \A g \in Fd \ {f} : fdTab[g] # h /\ fdTab'[g] = fdTab[g]
    BY <1>1, <1>3 DEF TypeOK
  <2> QED
    BY <1>1, <1>3, <1>6, <1>7 DEF TypeOK
<1> QED
  BY <1>1, <1>4, <1>5, <1>6, <1>8, QueueFrame DEF QueueInv

LEMMA QueueClient ==
    ASSUME TypeOK, QueueInv, NEW c \in Clients, ClientStep(c) PROVE QueueInv'
<1> USE DEF clientVars, sockVars, netVars, TypeOK
<1>0. UNCHANGED <<fdTab, out, shutSet>>
  BY ClientMoves
<1>1. CASE backlog' = Append(backlog, c) /\ cpc[c] = "idle" /\ cpc' = [cpc EXCEPT ![c] = "connected"]
  <2>1. ~InQueue(c) /\ Fresh(c)
    BY <1>1 DEF QueueInv, Fresh
  <2>2. \A j, k \in DOMAIN backlog' : backlog'[j] = backlog'[k] => j = k
    BY <1>1, <2>1, QueueSeq DEF QueueInv, InQueue
  <2>3. \A d \in Clients : InQueue(d)' => InQueue(d) \/ d = c
    BY <1>1, QueueSeq DEF InQueue
  <2>4. \A d \in Clients : InQueue(d)' => cpc'[d] # "idle"
    BY <1>1, <2>3 DEF QueueInv
  <2>5. \A d \in Clients : Fresh(d)' => Fresh(d)
    BY <1>1, <2>1, <2>3 DEF Fresh
  <2> QED
    BY <1>0, <2>2, <2>4, <2>5, QueueFrame
<1>2. CASE backlog' = backlog /\ \E l \in CPC \ {"idle"} : cpc' = [cpc EXCEPT ![c] = l]
  <2>1. \A d \in Clients : InQueue(d)' <=> InQueue(d)
    BY <1>2 DEF InQueue
  <2>2. \A d \in Clients : cpc'[d] = "idle" => cpc[d] = "idle"
    BY <1>2
  <2>3. \A d \in Clients : InQueue(d)' => cpc'[d] # "idle"
    BY <1>2, <2>1 DEF QueueInv
  <2>4. \A d \in Clients : Fresh(d)' => Fresh(d)
    BY <2>1, <2>2 DEF Fresh
  <2>5. \A j, k \in DOMAIN backlog' : backlog'[j] = backlog'[k] => j = k
    BY <1>2 DEF QueueInv
  <2> QED
    BY <1>0, <2>3, <2>4, <2>5, QueueFrame
<1>3. CASE Connect(c)
  BY <1>1, <1>2, <1>3, Values DEF Connect
<1>4. CASE ClientSend(c) \/ ClientClose(c) \/ ClientAbort(c) \/ ClientDone(c)
  <2>1. \A l \in {"sent", "closed", "aborted", "done"} : l \in CPC \ {"idle"}
    BY Values
  <2> QED
    BY <1>2, <1>4, <2>1 DEF ClientSend, ClientClose, ClientAbort, ClientDone
<1> QED
  BY <1>3, <1>4 DEF ClientStep

LEMMA QueueWorker ==
    ASSUME TypeOK, QueueInv, NEW w \in Workers, WorkerStep(w) PROVE QueueInv'
<1> USE DEF clientVars, sockVars, netVars, TypeOK
<1>0. clientd[w] \in Fd /\ inFile[w] \in Fd /\ {"free", "resv", "file"} \cap Clients = {}
  BY ServerAssumption
<1>1. CASE EnterAccept(w) \/ FOpen(w)
  <2>1. \A f \in Fd : fdTab'[f] = fdTab[f] \/ fdTab'[f] \in {"resv", "file"}
    BY <1>1 DEF EnterAccept, FOpen
  <2> QED
    BY <1>0, <1>1, <2>1, QueueQuiet DEF EnterAccept, FOpen
<1>2. CASE AcceptShut(w) \/ FClose(w) \/ CloseClient(w)
  <2>1. \A f \in Fd : fdTab'[f] = fdTab[f] \/ fdTab'[f] = "free"
    BY <1>2 DEF AcceptShut, FClose, CloseClient
  <2> QED
    BY <1>0, <1>2, <2>1, QueueQuiet DEF AcceptShut, FClose, CloseClient
<1>3. CASE SendHeader(w) \/ SendBody(w)
  <2>1. \A c \in Clients : out'[c] = out[c] \/ c = fdTab[clientd[w]]
    BY <1>3 DEF SendHeader, SendBody, SendOn
  <2> QED
    BY <1>0, <1>3, <2>1, QueueQuiet DEF SendHeader, SendBody
<1>4. CASE ShutdownClient(w)
  BY <1>0, <1>4, QueueQuiet DEF ShutdownClient
<1>5. CASE \/ Lock(w) \/ GetId(w) \/ IncId(w) \/ Recv(w) \/ LogTime(w)
           \/ ReadCommand(w) \/ LogStatus(w) \/ LogNewline(w)
  <2>1. UNCHANGED <<backlog, cpc, out, shutSet, fdTab>>
    BY <1>5 DEF Lock, GetId, IncId, Recv, LogTime, ReadCommand, LogStatus, LogNewline
  <2> QED
    BY <2>1, QueueQuiet
<1> QED
  BY <1>1, <1>2, <1>3, <1>4, <1>5, QueueAccept DEF WorkerStep

LEMMA QueueMain ==
    ASSUME TypeOK, QueueInv, MainStep \/ ReadExit PROVE QueueInv'
<1> USE DEF clientVars, sockVars, netVars
<1>1. CASE ShutdownListener
  <2>1. /\ backlog' = << >> /\ UNCHANGED <<out, shutSet, fdTab>>
        /\ \A c \in Clients : cpc'[c] = "idle" => cpc[c] = "idle"
    BY <1>1 DEF ShutdownListener, TypeOK
  <2>2. \A c \in Clients : ~InQueue(c)'
    BY <2>1 DEF InQueue
  <2>3. \A c \in Clients : Fresh(c)' => Fresh(c)
    BY <2>1, <2>2 DEF Fresh
  <2> QED
    BY <2>1, <2>2, <2>3, QueueFrame
<1>2. CASE CloseListener
  <2>1. \A f \in Fd : fdTab'[f] = fdTab[f] \/ fdTab'[f] = "free"
    BY <1>2 DEF CloseListener, TypeOK
  <2> QED
    BY <1>2, <2>1, QueueQuiet, ServerAssumption DEF CloseListener
<1>3. CASE CreateWorker \/ CreateFails \/ ReadExit \/ JoinWorker \/ CloseLog
  <2>1. UNCHANGED <<backlog, cpc, out, shutSet, fdTab>>
    BY <1>3 DEF CreateWorker, CreateFails, ReadExit, JoinWorker, CloseLog
  <2> QED
    BY <2>1, QueueQuiet
<1> QED
  BY <1>1, <1>2, <1>3 DEF MainStep

\* A connection is queued once and accepted once, nothing is sent on it or
\* shut before that, and two descriptors never name it.
LEMMA QueueHolds == Spec => []QueueInv
<1>1. Init => QueueInv
  BY ServerAssumption DEF Init, QueueInv, InQueue, Fresh
<1>2. TypeOK /\ QueueInv /\ [Next]_vars => QueueInv'
  <2> SUFFICES ASSUME TypeOK, QueueInv, [Next]_vars PROVE QueueInv'
    OBVIOUS
  <2>1. CASE Next
    BY <2>1, QueueMain, QueueWorker, QueueClient DEF Next
  <2>2. CASE UNCHANGED vars
    BY <2>2, QueueQuiet DEF vars, clientVars, sockVars, netVars
  <2> QED
    BY <2>1, <2>2
<1> QED
  BY <1>1, <1>2, TypeCorrect, PTL DEF Spec

-----------------------------------------------------------------------------
(* Descriptors are not lost. *)

\* Worker w has descriptor f reserved, or open for the file it serves.
Owns(w, f) ==
    \/ wpc[w] = "accept" /\ clientd[w] = f
    \/ HasFile(w) /\ inFile[w] = f

OwnerInv ==
    /\ \A f \in Fd :
          /\ fdTab[f] = "listen" => f = serverd
          /\ fdTab[f] \in {"resv", "file"} => \E w \in Workers : Owns(w, f)
    /\ \A w \in Workers :
          /\ wpc[w] = "fopen" => code[w] = "200" /\ Verb(w) \in {"GET", "HEAD"}
          /\ wpc[w] = "body" => Verb(w) \in {"GET", "TRACE"}

\* A step that concerns worker w alone.
LEMMA OwnerFrame ==
    ASSUME OwnerInv, NEW w \in Workers, creq' = creq,
           \A v \in Workers \ {w} :
              /\ wpc'[v] = wpc[v] /\ code'[v] = code[v] /\ buff'[v] = buff[v]
              /\ clientd'[v] = clientd[v] /\ inFile'[v] = inFile[v],
           \A f \in Fd :
              /\ fdTab'[f] = "listen" => fdTab[f] = "listen"
              /\ fdTab'[f] \in {"resv", "file"} => fdTab[f] \in {"resv", "file"} \/ Owns(w, f)'
              /\ Owns(w, f) => Owns(w, f)' \/ fdTab'[f] \notin {"resv", "file"},
           wpc'[w] = "fopen" => code'[w] = "200" /\ Verb(w)' \in {"GET", "HEAD"},
           wpc'[w] = "body" => Verb(w)' \in {"GET", "TRACE"}
    PROVE  OwnerInv'
<1>1. \A v \in Workers \ {w} : Verb(v)' = Verb(v)
  BY DEF Verb
<1>2. \A v \in Workers \ {w}, f \in Fd : Owns(v, f)' <=> Owns(v, f)
  BY <1>1 DEF Owns, HasFile
<1>3. ASSUME NEW f \in Fd, fdTab'[f] \in {"resv", "file"} PROVE \E v \in Workers : Owns(v, f)'
  BY <1>2, <1>3 DEF OwnerInv
<1>4. ASSUME NEW v \in Workers
      PROVE  /\ wpc'[v] = "fopen" => code'[v] = "200" /\ Verb(v)' \in {"GET", "HEAD"}
             /\ wpc'[v] = "body" => Verb(v)' \in {"GET", "TRACE"}
  BY <1>1 DEF OwnerInv
<1> QED
  BY <1>3, <1>4 DEF OwnerInv

LEMMA OwnerWorker ==
    ASSUME TypeOK, FdAll, OwnerInv, NEW w \in Workers, WorkerStep(w)
    PROVE  OwnerInv'
<1> USE DEF mainVars, localVars, sockVars, clientVars, Goto, TypeOK, Owns, HasFile
<1>0. /\ creq' = creq /\ clientd[w] \in Fd /\ inFile[w] \in Fd
      /\ \A v \in Workers \ {w} :
            /\ wpc'[v] = wpc[v] /\ code'[v] = code[v] /\ buff'[v] = buff[v]
            /\ clientd'[v] = clientd[v] /\ inFile'[v] = inFile[v]
  BY WorkerMoves
<1>1. CASE EnterAccept(w)
  <2>1. /\ wpc[w] = "top"
        /\ \/ wpc'[w] = "exited" /\ fdTab' = fdTab
           \/ /\ wpc'[w] = "accept" /\ clientd'[w] \in Fd
              /\ \A f \in Fd : fdTab'[f] = IF f = clientd'[w] THEN "resv" ELSE fdTab[f]
    BY <1>1 DEF EnterAccept
  <2>2. \A f \in Fd :
           /\ fdTab'[f] = "listen" => fdTab[f] = "listen"
           /\ fdTab'[f] \in {"resv", "file"} => fdTab[f] \in {"resv", "file"} \/ Owns(w, f)'
           /\ ~Owns(w, f)
    BY <2>1
  <2> QED
    BY <1>0, <2>1, <2>2, OwnerFrame
<1>2. CASE Accept(w)
  <2>1. Head(backlog) \in Clients
    BY <1>2 DEF Accept
  <2>2. Head(backlog) \notin {"resv", "file", "listen"}
    BY <2>1, ServerAssumption
  <2>3. \A f \in Fd : fdTab'[f] = IF f = clientd[w] THEN Head(backlog) ELSE fdTab[f]
    BY <1>0, <1>2 DEF Accept
  <2>4. wpc[w] = "accept" /\ wpc'[w] = "lock"
    BY <1>2 DEF Accept
  <2>5. \A f \in Fd :
           /\ fdTab'[f] = "listen" => fdTab[f] = "listen"
           /\ fdTab'[f] \in {"resv", "file"} => fdTab[f] \in {"resv", "file"}
           /\ Owns(w, f) => fdTab'[f] \notin {"resv", "file"}
    BY <2>2, <2>3, <2>4
  <2> QED
    BY <1>0, <2>4, <2>5, OwnerFrame
<1>3. CASE AcceptShut(w) \/ CloseClient(w) \/ FClose(w)
  <2>1. /\ wpc'[w] \in {"exited", "shutdown"}
        /\ \A f \in Fd : /\ fdTab'[f] = fdTab[f] \/ fdTab'[f] = "free"
                         /\ Owns(w, f) => fdTab'[f] = "free"
    BY <1>0, <1>3 DEF AcceptShut, CloseClient, FClose
  <2>2. \A f \in Fd :
           /\ fdTab'[f] = "listen" => fdTab[f] = "listen"
           /\ fdTab'[f] \in {"resv", "file"} => fdTab[f] \in {"resv", "file"}
           /\ Owns(w, f) => fdTab'[f] \notin {"resv", "file"}
    BY <2>1
  <2> HIDE DEF Owns
  <2> QED
    BY <1>0, <2>1, <2>2, OwnerFrame
<1>4. CASE Lock(w) \/ GetId(w) \/ IncId(w) \/ Recv(w) \/ LogTime(w)
           \/ ShutdownClient(w) \/ LogNewline(w)
  <2>1. /\ fdTab' = fdTab
        /\ wpc[w] \notin {"accept", "status", "header", "body", "fclose"}
        /\ wpc'[w] \in {"getid", "incid", "recv", "logtime", "top", "command", "newline"}
    BY <1>4 DEF Lock, GetId, IncId, Recv, LogTime, ShutdownClient, LogNewline, Again
  <2> QED
    BY <1>0, <2>1, OwnerFrame
<1>5. CASE ReadCommand(w)
  <2>1. /\ fdTab' = fdTab /\ buff' = buff /\ wpc[w] = "command"
        /\ wpc'[w] \in {"command", "status", "fopen"}
        /\ wpc'[w] = "fopen" => code'[w] = "200" /\ Verb(w) \in {"GET", "HEAD"}
    BY <1>5 DEF ReadCommand, Verb
  <2>2. Verb(w)' = Verb(w)
    BY <1>0, <2>1 DEF Verb
  <2> QED
    BY <1>0, <2>1, <2>2, OwnerFrame
<1>6. CASE FOpen(w)
  <2>1. wpc[w] = "fopen" /\ wpc'[w] = "status" /\ buff' = buff
        /\ code[w] = "200" /\ Verb(w) \in {"GET", "HEAD"}
    BY <1>6 DEF FOpen, OwnerInv
  <2>2. Verb(w)' = Verb(w)
    BY <1>0, <2>1 DEF Verb
  <2>3. \/ fdTab' = fdTab
        \/ /\ code' = code /\ inFile'[w] \in Fd
           /\ \A f \in Fd : fdTab'[f] = IF f = inFile'[w] THEN "file" ELSE fdTab[f]
    BY <1>6 DEF FOpen
  <2>4. \A f \in Fd :
           /\ fdTab'[f] = "listen" => fdTab[f] = "listen"
           /\ fdTab'[f] \in {"resv", "file"} => fdTab[f] \in {"resv", "file"} \/ Owns(w, f)'
           /\ ~Owns(w, f)
    BY <2>1, <2>2, <2>3
  <2> QED
    BY <1>0, <2>1, <2>4, OwnerFrame
<1>7. CASE LogStatus(w) \/ SendHeader(w) \/ SendBody(w)
  <2>1. /\ fdTab' = fdTab /\ UNCHANGED <<buff, code, inFile>>
        /\ wpc[w] \in {"status", "header", "body"}
        /\ wpc'[w] \in {"header", "close", "body", "fclose", "shutdown"}
    BY <1>7 DEF LogStatus, SendHeader, SendBody, AfterHeader
  <2>2. Verb(w)' = Verb(w)
    BY <1>0, <2>1 DEF Verb
  <2>3. /\ wpc'[w] = "body" => Verb(w) \in {"GET", "TRACE"}
        /\ code[w] = "200" /\ Verb(w) \in {"GET", "HEAD"} =>
              wpc'[w] \in {"header", "body", "fclose"}
    BY <1>7 DEF LogStatus, SendHeader, SendBody, AfterHeader, OwnerInv
  <2> QED
    BY <1>0, <2>1, <2>2, <2>3, OwnerFrame
<1> QED
  BY <1>1, <1>2, <1>3, <1>4, <1>5, <1>6, <1>7 DEF WorkerStep

\* No descriptor is lost: what is reserved or open as a file belongs to a worker.
LEMMA OwnerHolds == Spec => []OwnerInv
<1>1. Init => OwnerInv
  BY ServerAssumption DEF Init, OwnerInv
<1>2. TypeOK /\ FdAll /\ OwnerInv /\ [Next]_vars => OwnerInv'
  <2> SUFFICES ASSUME TypeOK, FdAll, OwnerInv, [Next]_vars PROVE OwnerInv'
    OBVIOUS
  <2> USE DEF mainVars, localVars, clientVars
  <2>1. CASE CreateWorker
    <3>1. CASE mi < NWORKERS
      <4>1. mi \in Workers /\ wpc[mi] = "none"
        BY <2>1, <3>1, ServerAssumption DEF CreateWorker, FdAll, CreateInv, Workers, TypeOK
      <4>2. /\ UNCHANGED <<fdTab, code, buff, clientd, inFile, creq>> /\ wpc'[mi] = "top"
            /\ \A v \in Workers \ {mi} : wpc'[v] = wpc[v]
        BY <2>1, <3>1, <4>1 DEF CreateWorker, Goto, TypeOK
      <4> QED
        BY <4>1, <4>2, OwnerFrame DEF Owns, HasFile
    <3>2. CASE ~(mi < NWORKERS)
      BY <2>1, <3>2 DEF CreateWorker, OwnerInv, Owns, HasFile, Verb
    <3> QED
      BY <3>1, <3>2
  <2>2. CASE CloseListener
    <3>1. /\ UNCHANGED <<wpc, code, buff, clientd, inFile, creq>>
          /\ \A f \in Fd : fdTab'[f] = fdTab[f] \/ fdTab'[f] = "free"
      BY <2>2 DEF CloseListener, TypeOK
    <3> QED
      BY <3>1 DEF OwnerInv, Owns, HasFile, Verb
  <2>3. CASE CreateFails \/ ReadExit \/ ShutdownListener \/ JoinWorker \/ CloseLog
    <3>1. UNCHANGED <<wpc, code, buff, clientd, inFile, creq, fdTab>>
      BY <2>3 DEF CreateFails, ReadExit, ShutdownListener, JoinWorker, CloseLog
    <3> QED
      BY <3>1 DEF OwnerInv, Owns, HasFile, Verb
  <2>4. ASSUME NEW c \in Clients, ClientStep(c) PROVE OwnerInv'
    BY <2>4, ClientMoves DEF OwnerInv, Owns, HasFile, Verb
  <2>5. CASE UNCHANGED vars
    BY <2>5 DEF vars, OwnerInv, Owns, HasFile, Verb
  <2> QED
    BY <2>1, <2>2, <2>3, <2>4, <2>5, OwnerWorker DEF Next, MainStep
<1> QED
  BY <1>1, <1>2, TypeCorrect, FdHolds, PTL DEF Spec

\* When a worker that opens a file finds no descriptor, the clients that have
\* connected have filled the table: each has at most one descriptor, and the
\* other workers hold at most one each besides.
LEMMA TableFull ==
    ASSUME TypeOK, QueueInv, OwnerInv, NEW w \in Workers, wpc[w] = "fopen", NoFreeFd
    PROVE  Crowded
<1> DEFINE C == {c \in Clients : cpc[c] # "idle"}
           A == {f \in Fd : fdTab[f] \in Clients}
           B == {f \in Fd : fdTab[f] \in {"resv", "file"}}
           W == Workers \ {w}
<1>0. /\ NWORKERS \in Nat \ {0} /\ MaxFd \in Nat \ {0} /\ Fd = 0 .. MaxFd - 1
      /\ Workers = 0 .. NWORKERS - 1
  BY ServerAssumption DEF Fd, Workers
<1>1. Fd \subseteq A \cup B \cup {serverd}
  BY DEF NoFreeFd, TypeOK, FdUses, OwnerInv
<1>c. IsFiniteSet(C) /\ Cardinality(C) \in Nat
  BY ServerAssumption, FS_Subset, FS_CardinalityType
<1>2. IsFiniteSet(A) /\ Cardinality(A) <= Cardinality(C)
  <2> DEFINE g == [f \in A |-> fdTab[f]]
  <2>1. g \in Injection(A, C)
    <3>1. g \in [A -> C]
      BY DEF QueueInv, Fresh
    <3>2. \A x, y \in A : g[x] = g[y] => x = y
      BY DEF QueueInv
    <3> QED
      BY <3>1, <3>2 DEF Injection, IsInjective
  <2> QED
    BY <1>c, <2>1, FS_Injection
<1>3. IsFiniteSet(W) /\ Cardinality(W) = NWORKERS - 1
  <2>1. IsFiniteSet(Workers) /\ Cardinality(Workers) = NWORKERS
    BY <1>0, FS_Interval
  <2> QED
    BY <2>1, FS_RemoveElement
<1>4. IsFiniteSet(B) /\ Cardinality(B) <= Cardinality(W)
  <2> DEFINE g == [f \in B |-> CHOOSE v \in Workers : Owns(v, f)]
  <2>1. ASSUME NEW f \in B PROVE g[f] \in W /\ Owns(g[f], f)
    <3>1. \E v \in Workers : Owns(v, f)
      BY DEF OwnerInv
    <3>2. g[f] \in Workers /\ Owns(g[f], f)
      BY <3>1
    <3>3. ~Owns(w, f)
      BY DEF Owns, HasFile
    <3> QED
      BY <3>2, <3>3
  <2>2. \A x, y, v : Owns(v, x) /\ Owns(v, y) => x = y
    BY DEF Owns, HasFile
  <2>3. g \in Injection(B, W)
    <3>1. g \in [B -> W]
      BY <2>1
    <3>2. \A x, y \in B : g[x] = g[y] => x = y
      BY <2>1, <2>2
    <3> QED
      BY <3>1, <3>2 DEF Injection, IsInjective
  <2> QED
    BY <1>3, <2>3, FS_Injection
<1> HIDE DEF A, B, C, W
<1>5. IsFiniteSet(A \cup B) /\ Cardinality(A \cup B) <= Cardinality(A) + Cardinality(B)
  <2>1. /\ IsFiniteSet(A \cup B)
        /\ Cardinality(A \cup B) = Cardinality(A) + Cardinality(B) - Cardinality(A \cap B)
    BY <1>2, <1>4, FS_Union
  <2>2. Cardinality(A) \in Nat /\ Cardinality(B) \in Nat /\ Cardinality(A \cap B) \in Nat
    BY <1>2, <1>4, FS_Intersection, FS_CardinalityType
  <2> QED
    BY <2>1, <2>2
<1>6. IsFiniteSet(A \cup B \cup {serverd})
      /\ Cardinality(A \cup B \cup {serverd}) <= Cardinality(A \cup B) + 1
  <2> DEFINE U == A \cup B
  <2>1. IsFiniteSet(U) /\ Cardinality(U) \in Nat
    BY <1>5, FS_CardinalityType
  <2> HIDE DEF U
  <2>2. /\ IsFiniteSet(U \cup {serverd})
        /\ \/ Cardinality(U \cup {serverd}) = Cardinality(U)
           \/ Cardinality(U \cup {serverd}) = Cardinality(U) + 1
    BY <2>1, FS_AddElement
  <2>3. Cardinality(U \cup {serverd}) <= Cardinality(U) + 1
    BY <2>1, <2>2
  <2> QED
    BY <2>2, <2>3 DEF U
<1>7. Cardinality(Fd) = MaxFd
  BY <1>0, FS_Interval
<1>8. Cardinality(Fd) <= Cardinality(A \cup B \cup {serverd})
  BY <1>1, <1>6, FS_Subset
<1>9. /\ Cardinality(A) \in Nat /\ Cardinality(B) \in Nat
      /\ Cardinality(A \cup B) \in Nat /\ Cardinality(A \cup B \cup {serverd}) \in Nat
  BY <1>2, <1>4, <1>5, <1>6, FS_CardinalityType
<1>10. MaxFd <= Cardinality(C) + NWORKERS
  BY <1>0, <1>c, <1>2, <1>3, <1>4, <1>5, <1>6, <1>7, <1>8, <1>9
<1> QED
  BY <1>10 DEF Crowded, C

\* No client becomes one that has never connected.
LEMMA CrowdedStays ==
    ASSUME Crowded, \A c \in Clients : cpc[c] # "idle" => cpc'[c] # "idle" PROVE Crowded'
<1> DEFINE C == {c \in Clients : cpc[c] # "idle"}
           D == {c \in Clients : cpc'[c] # "idle"}
<1>1. C \subseteq D /\ IsFiniteSet(D) /\ NWORKERS \in Nat /\ MaxFd \in Nat
  BY ServerAssumption, FS_Subset
<1> HIDE DEF C, D
<1>2. IsFiniteSet(C) /\ Cardinality(C) <= Cardinality(D)
  BY <1>1, FS_Subset
<1>3. Cardinality(C) \in Nat /\ Cardinality(D) \in Nat
  BY <1>1, <1>2, FS_CardinalityType
<1>4. MaxFd <= Cardinality(C) + NWORKERS
  BY DEF Crowded, C
<1>5. MaxFd <= Cardinality(D) + NWORKERS
  BY <1>1, <1>2, <1>3, <1>4
<1> QED
  BY <1>5 DEF Crowded, D

-----------------------------------------------------------------------------
(* Answers. *)

\* The response code a worker has chosen suits the request it serves.
CodeFits(w) ==
    LET r == creq[conn[w]] IN
    \/ code[w] = "400" /\ BadRequest(r)
    \/ /\ code[w] = "404" /\ ~BadRequest(r) /\ r.verb \in {"GET", "HEAD"}
       /\ r.found => Crowded
    \/ code[w] = "501" /\ ~BadRequest(r) /\ r.verb = "other"
    \/ /\ code[w] = "200" /\ ~BadRequest(r) /\ r.verb # "other"
       /\ r.verb \in {"GET", "HEAD"} => r.found

\* Nothing is sent before the header, the buffer holds the message of the
\* connection, and the body follows a header that went out (or a peer that is
\* gone, or a log write that failed).
ServeInv(w) ==
    /\ wpc[w] \in OwnPCs \ {"close", "body", "fclose"} => out[conn[w]] = << >>
    /\ wpc[w] \in {"logtime", "command", "fopen", "status", "header", "close", "body", "fclose"} =>
          buff[w] = conn[w]
    /\ wpc[w] = "fopen" =>
          /\ code[w] = "200" /\ ~BadRequest(creq[conn[w]])
          /\ creq[conn[w]].verb \in {"GET", "HEAD"}
    /\ wpc[w] \in {"status", "header", "body"} => CodeFits(w)
    /\ wpc[w] = "body" =>
          /\ code[w] = "200" /\ creq[conn[w]].verb \in {"GET", "TRACE"}
          /\ \/ out[conn[w]] = <<"200">> \/ cpc[conn[w]] = "aborted" \/ ~Running
             \/ "fputs" \in Faults /\ out[conn[w]] = << >>

\* What OnlyOwnAnswer allows to be sent to c.
Fits(c, s) ==
    \/ PrefixOf(s, Answer(creq[c]))
    \/ /\ s = <<"404">> /\ Crowded
       /\ creq[c].verb \in {"GET", "HEAD"} /\ ~BadRequest(creq[c])
    \/ "fputs" \in Faults /\ PrefixOf(s, Tail(Answer(creq[c])))

AnswerInv == OnlyOwnAnswer /\ \A w \in Workers : ServeInv(w)

\* From accept() to the end of the answer a worker has its connection to itself.
LEMMA Held ==
    ASSUME TypeOK, FdAll, QueueInv, NEW w \in Workers, wpc[w] \in OwnPCs
    PROVE  /\ conn[w] \in Clients /\ clientd[w] \in Fd /\ fdTab[clientd[w]] = conn[w]
           /\ ~Fresh(conn[w])
           /\ \A v \in Workers \ {w} : wpc[v] \in OwnPCs => conn[v] # conn[w]
<1>1. \A v \in Workers : wpc[v] \in OwnPCs =>
         /\ conn[v] \in Clients /\ clientd[v] \in Fd /\ fdTab[clientd[v]] = conn[v]
         /\ HasConn(v)
  BY DEF FdAll, FdInv, OwnDescriptor, TypeOK, HasConn
<1>2. \A v \in Workers \ {w} : wpc[v] \in OwnPCs => clientd[v] # clientd[w]
  BY <1>1 DEF FdAll, FdInv
<1> QED
  BY <1>1, <1>2 DEF QueueInv

\* A step that leaves worker v alone, sends nothing on its connection, revives no
\* peer and no process.
LEMMA ServeFrame ==
    ASSUME NEW v \in Workers, ServeInv(v), creq' = creq, Running' => Running,
           Crowded => Crowded', wpc'[v] = wpc[v], code'[v] = code[v], buff'[v] = buff[v], conn'[v] = conn[v],
           wpc[v] \in OwnPCs =>
               /\ out'[conn[v]] = out[conn[v]]
               /\ cpc[conn[v]] = "aborted" => cpc'[conn[v]] = "aborted"
    PROVE  ServeInv(v)'
<1>1. {"logtime", "command", "fopen", "status", "header", "close", "body", "fclose"}
         \subseteq OwnPCs
  BY DEF OwnPCs
<1>2. CodeFits(v) => CodeFits(v)'
  BY DEF CodeFits, BadRequest
<1>3. BadRequest(creq[conn[v]])' <=> BadRequest(creq[conn[v]])
  BY DEF BadRequest
<1> QED
  BY <1>1, <1>2, <1>3 DEF ServeInv

\* The code that suits a request begins its answer, or is the 404 of a full table.
LEMMA FirstPiece ==
    ASSUME TypeOK, NEW w \in Workers, conn[w] \in Clients, CodeFits(w)
    PROVE  Fits(conn[w], <<code[w]>>)
<1> DEFINE r == creq[conn[w]]
<1>1. r.verb \in {"GET", "HEAD", "OPTIONS", "TRACE", "other"}
  BY ServerAssumption DEF TypeOK, RequestType
<1> HIDE DEF r
<1>2. CASE code[w] = "400" /\ BadRequest(r)
  BY <1>2 DEF Fits, Answer, PrefixOf, r
<1>5. CASE code[w] = "404" /\ ~BadRequest(r) /\ r.verb \in {"GET", "HEAD"} /\ ~r.found
  <2>1. Answer(r) = <<"404">>
    BY <1>5 DEF Answer
  <2> QED
    BY <1>5, <2>1 DEF Fits, PrefixOf, r
<1>6. CASE code[w] = "404" /\ ~BadRequest(r) /\ r.verb \in {"GET", "HEAD"} /\ Crowded
  BY <1>6 DEF Fits, r
<1>3. CASE code[w] = "501" /\ ~BadRequest(r) /\ r.verb = "other"
  <2>1. Answer(r) = <<"501">>
    BY <1>3 DEF Answer
  <2> QED
    BY <1>3, <2>1 DEF Fits, PrefixOf, r
<1>4. CASE /\ code[w] = "200" /\ ~BadRequest(r) /\ r.verb # "other"
           /\ r.verb \in {"GET", "HEAD"} => r.found
  <2>1. Answer(r) \in {<<"200">>, <<"200", "body">>}
    BY <1>1, <1>4 DEF Answer
  <2> QED
    BY <1>4, <2>1 DEF Fits, PrefixOf, r
<1> QED
  BY <1>2, <1>3, <1>4, <1>5, <1>6 DEF CodeFits, r

\* What send() does with the connection of the worker that calls it.
LEMMA Sent ==
    ASSUME TypeOK, FdAll, QueueInv, NEW w \in Workers, wpc[w] \in OwnPCs,
           NEW piece, SendOn(w, piece)
    PROVE  \/ /\ out' = [out EXCEPT ![conn[w]] = Append(@, piece)] /\ proc' = proc
              /\ conn[w] \notin shutSet /\ cpc[conn[w]] # "aborted"
           \/ out' = out /\ (cpc[conn[w]] = "aborted" \/ proc' = "killed")
  BY Held DEF SendOn

\* The invariant of the worker itself, for the steps that send nothing.
LEMMA ServeSelf ==
    ASSUME TypeOK, TypeOK', FdAll, QueueInv, OwnerInv, NEW w \in Workers, ServeInv(w),
           WorkerStep(w), ~SendHeader(w), ~SendBody(w)
    PROVE  ServeInv(w)' /\ out' = out
<1> USE DEF mainVars, localVars, sockVars, clientVars, Goto, TypeOK
<1>0. wpc[w] \in OwnPCs => conn[w] \in Clients /\ fdTab[clientd[w]] = conn[w]
  BY Held
<1>1. CASE EnterAccept(w) \/ AcceptShut(w) \/ CloseClient(w) \/ FClose(w)
  <2>1. wpc'[w] \in {"accept", "exited", "shutdown"} /\ out' = out
    BY <1>1 DEF EnterAccept, AcceptShut, CloseClient, FClose
  <2> QED
    BY <2>1 DEF ServeInv, OwnPCs
<1>2. CASE ShutdownClient(w) \/ LogNewline(w)
  <2>1. wpc'[w] \in {"top", "newline"} /\ out' = out
    BY <1>2 DEF ShutdownClient, LogNewline, Again
  <2> QED
    BY <2>1 DEF ServeInv, OwnPCs
<1>3. CASE Accept(w)
  <2>1. PICK h \in Clients : h = Head(backlog)
    BY <1>3 DEF Accept
  <2>2. InQueue(h)
    <3>1. 1 \in DOMAIN backlog /\ h = backlog[1]
      BY <1>3, <2>1, QueueSeq DEF Accept
    <3> QED
      BY <3>1 DEF InQueue
  <2>3. out[h] = << >>
    BY <2>2 DEF QueueInv, Fresh
  <2>4. wpc'[w] = "lock" /\ conn'[w] = h /\ out' = out
    BY <1>3, <2>1 DEF Accept
  <2> QED
    BY <2>3, <2>4 DEF ServeInv
<1>4. CASE Lock(w) \/ GetId(w) \/ IncId(w)
  <2>1. /\ wpc[w] \in {"lock", "getid", "incid"} /\ wpc'[w] \in {"getid", "incid", "recv"}
        /\ out' = out /\ conn' = conn
    BY <1>4 DEF Lock, GetId, IncId
  <2> QED
    BY <2>1 DEF ServeInv, OwnPCs
<1>5. CASE Recv(w)
  <2>1. \/ wpc'[w] = "logtime" /\ buff'[w] = conn[w] /\ conn' = conn
        \/ wpc'[w] = "top"
    BY <1>0, <1>5 DEF Recv, Again, OwnPCs
  <2>2. wpc[w] = "recv" /\ out' = out
    BY <1>5 DEF Recv
  <2> QED
    BY <2>1, <2>2 DEF ServeInv, OwnPCs
<1>6. CASE LogTime(w)
  <2>1. \/ wpc'[w] = "command" /\ UNCHANGED <<buff, conn>>
        \/ wpc'[w] = "top"
    BY <1>6 DEF LogTime, Again
  <2>2. wpc[w] = "logtime" /\ out' = out
    BY <1>6 DEF LogTime
  <2> QED
    BY <2>1, <2>2 DEF ServeInv, OwnPCs
<1>7. CASE ReadCommand(w)
  <2> DEFINE r == creq[buff[w]]
  <2>1. /\ wpc[w] = "command" /\ UNCHANGED <<buff, conn, out, creq>>
        /\ buff[w] = conn[w] /\ out[conn[w]] = << >>
    BY <1>7 DEF ReadCommand, ServeInv, OwnPCs
  <2>2. CASE UNCHANGED <<wpc, code>>
    BY <2>1, <2>2 DEF ServeInv
  <2>3. CASE BadRequest(r) /\ code'[w] = "400" /\ wpc'[w] = "status"
    BY <2>1, <2>3 DEF ServeInv, CodeFits, BadRequest
  <2>4. CASE /\ ~BadRequest(r)
             /\ code'[w] = IF r.verb = "other" THEN "501" ELSE "200"
             /\ wpc'[w] = IF r.verb \in {"GET", "HEAD"} THEN "fopen" ELSE "status"
    BY <2>1, <2>4 DEF ServeInv, CodeFits, BadRequest
  <2> QED
    BY <1>7, <2>1, <2>2, <2>3, <2>4 DEF ReadCommand
<1>8. CASE FOpen(w)
  <2>1. /\ wpc[w] = "fopen" /\ wpc'[w] = "status" /\ UNCHANGED <<buff, conn, out, creq>>
        /\ \/ code' = code /\ creq[buff[w]].found
           \/ code'[w] = "404" /\ (~creq[buff[w]].found \/ NoFreeFd)
        /\ cpc' = cpc
    BY <1>8 DEF FOpen
  <2>2. buff[w] = conn[w] /\ out[conn[w]] = << >>
        /\ code[w] = "200" /\ ~BadRequest(creq[conn[w]])
        /\ creq[conn[w]].verb \in {"GET", "HEAD"}
    BY <2>1 DEF ServeInv, OwnPCs
  <2>3. NoFreeFd => Crowded'
    BY <2>1, TableFull, CrowdedStays
  <2> QED
    BY <2>1, <2>2, <2>3 DEF ServeInv, CodeFits, BadRequest
<1>9. CASE LogStatus(w)
  <2>1. /\ wpc[w] = "status" /\ UNCHANGED <<buff, conn, code, out, creq, cpc>>
        /\ \/ wpc'[w] = "header"
           \/ "fputs" \in Faults /\ wpc'[w] = AfterHeader(w)
    BY <1>9 DEF LogStatus
  <2>2. buff[w] = conn[w] /\ out[conn[w]] = << >> /\ CodeFits(w)
    BY <2>1 DEF ServeInv, OwnPCs
  <2>3. CodeFits(w)'
    BY <2>1, <2>2, CrowdedStays DEF CodeFits, BadRequest
  <2>4. CASE wpc'[w] = "header"
    BY <2>1, <2>2, <2>3, <2>4 DEF ServeInv
  <2>5. CASE "fputs" \in Faults /\ wpc'[w] = AfterHeader(w)
    <3>1. /\ wpc'[w] \in {"body", "fclose", "shutdown"}
          /\ wpc'[w] = "body" => code[w] = "200" /\ creq[conn[w]].verb \in {"GET", "TRACE"}
      BY <2>2, <2>5 DEF AfterHeader, Verb
    <3> QED
      BY <2>1, <2>2, <2>3, <2>5, <3>1 DEF ServeInv, OwnPCs
  <2> QED
    BY <2>1, <2>4, <2>5
<1> QED
  BY <1>1, <1>2, <1>3, <1>4, <1>5, <1>6, <1>7, <1>8, <1>9 DEF WorkerStep

\* Header and body make up an answer of two pieces.
LEMMA AppendTwo ==
    ASSUME NEW S, NEW a \in S, NEW b \in S PROVE Append(<<a>>, b) = <<a, b>>
<1> DEFINE s == Append(<<a>>, b)
           t == <<a, b>>
<1>0. <<a>> \in Seq(S) /\ Len(<<a>>) = 1 /\ <<a>>[1] = a
  OBVIOUS
<1>1. s \in Seq(S) /\ Len(s) = 2 /\ s[1] = a /\ s[2] = b
  BY <1>0, AppendProperties
<1>2. t \in Seq(S) /\ Len(t) = 2 /\ t[1] = a /\ t[2] = b
  OBVIOUS
<1> HIDE DEF s, t
<1>3. s = t
  BY <1>1, <1>2
<1> QED
  BY <1>3 DEF s, t

\* The two steps that send: the header, and the body after it.
LEMMA ServeSend ==
    ASSUME TypeOK, TypeOK', FdAll, QueueInv, NEW w \in Workers, AnswerInv,
           SendHeader(w) \/ SendBody(w)
    PROVE  /\ ServeInv(w)'
           /\ \A c \in Clients : c # conn[w] => out'[c] = out[c]
           /\ out'[conn[w]] = out[conn[w]] \/ Fits(conn[w], out'[conn[w]])
<1> USE DEF localVars, clientVars, Goto, TypeOK
<1>0. /\ wpc[w] \in OwnPCs /\ conn[w] \in Clients /\ ServeInv(w) /\ CodeFits(w)
      /\ buff[w] = conn[w] /\ UNCHANGED <<buff, conn, code, creq, cpc>>
      /\ creq[conn[w]].verb \in {"GET", "HEAD", "OPTIONS", "TRACE", "other"}
  BY Held, ServerAssumption
  DEF SendHeader, SendBody, OwnPCs, AnswerInv, ServeInv, RequestType
<1>1. CodeFits(w)'
  BY <1>0, CrowdedStays DEF CodeFits, BadRequest
<1>2. CASE SendHeader(w)
  <2>1. wpc[w] = "header" /\ out[conn[w]] = << >>
    BY <1>0, <1>2 DEF SendHeader, ServeInv, OwnPCs
  <2>2. \/ /\ out' = [out EXCEPT ![conn[w]] = <<code[w]>>]
        \/ out' = out /\ (cpc[conn[w]] = "aborted" \/ proc' = "killed")
    <3>1. Append(<< >>, code[w]) = <<code[w]>>
      BY <1>0
    <3> QED
      BY <1>0, <1>2, <2>1, <3>1, Sent DEF SendHeader
  <2>3. /\ wpc'[w] \in {"close", "body", "fclose", "shutdown"}
        /\ wpc'[w] = "body" => code[w] = "200" /\ creq[conn[w]].verb \in {"GET", "TRACE"}
    BY <1>0, <1>2 DEF SendHeader, AfterHeader, Verb
  <2>4. ServeInv(w)'
    BY <1>0, <1>1, <2>2, <2>3 DEF ServeInv, OwnPCs, Running
  <2> QED
    BY <1>0, <2>2, <2>4, FirstPiece
<1>3. CASE SendBody(w)
  <2>1. /\ wpc[w] = "body" /\ Running /\ code[w] = "200"
        /\ creq[conn[w]].verb \in {"GET", "TRACE"}
        /\ \/ out[conn[w]] = <<"200">> \/ cpc[conn[w]] = "aborted"
           \/ "fputs" \in Faults /\ out[conn[w]] = << >>
    BY <1>0, <1>3 DEF SendBody, ServeInv
  <2>2. \/ out' = [out EXCEPT ![conn[w]] = <<"200", "body">>]
        \/ out' = out
        \/ "fputs" \in Faults /\ out' = [out EXCEPT ![conn[w]] = <<"body">>]
    <3>1. Append(<<"200">>, "body") = <<"200", "body">>
      <4>1. "200" \in Pieces /\ "body" \in Pieces
        BY DEF Pieces, Codes
      <4> QED
        BY <4>1, AppendTwo
    <3>2. Append(<< >>, "body") = <<"body">>
      OBVIOUS
    <3> QED
      BY <1>0, <1>3, <2>1, <3>1, <3>2, Sent DEF SendBody
  <2>3. Answer(creq[conn[w]]) = <<"200", "body">>
    BY <1>0, <2>1 DEF CodeFits, Answer
  <2>4. wpc'[w] \in {"fclose", "shutdown"}
    BY <1>3 DEF SendBody
  <2>5. ServeInv(w)'
    BY <1>0, <2>4 DEF ServeInv, OwnPCs
  <2>6. Fits(conn[w], <<"200", "body">>)
    BY <2>3 DEF Fits, PrefixOf
  <2>7. "fputs" \in Faults => Fits(conn[w], <<"body">>)
    <3>1. Tail(Answer(creq[conn[w]])) = <<"body">>
      BY <2>3
    <3>2. PrefixOf(<<"body">>, <<"body">>)
      BY DEF PrefixOf
    <3> QED
      BY <3>1, <3>2 DEF Fits
  <2> QED
    BY <1>0, <2>2, <2>5, <2>6, <2>7
<1> QED
  BY <1>2, <1>3

\* What fitted still does.
LEMMA AnswersStay ==
    ASSUME OnlyOwnAnswer, creq' = creq,
           \A c \in Clients : out'[c] = out[c] \/ Fits(c, out'[c]),
           \A c \in Clients : cpc[c] # "idle" => cpc'[c] # "idle"
    PROVE  OnlyOwnAnswer'
<1>1. \A c \in Clients : Fits(c, out'[c])
  BY DEF OnlyOwnAnswer, Fits
<1>2. \A c \in Clients : BadRequest(creq[c])' <=> BadRequest(creq[c])
  BY DEF BadRequest
<1>3. \A c \in Clients : Answer(creq[c])' = Answer(creq[c])
  BY DEF Answer, BadRequest
<1>4. Crowded => Crowded'
  BY CrowdedStays
<1> QED
  BY <1>1, <1>2, <1>3, <1>4 DEF OnlyOwnAnswer, Fits, PrefixOf

LEMMA AnswerWorker ==
    ASSUME TypeOK, TypeOK', FdAll, QueueInv, OwnerInv, AnswerInv,
           NEW w \in Workers, WorkerStep(w)
    PROVE  AnswerInv'
<1>0. /\ creq' = creq /\ cpc' = cpc /\ Running
      /\ \A v \in Workers \ {w} :
            /\ wpc'[v] = wpc[v] /\ code'[v] = code[v] /\ buff'[v] = buff[v]
            /\ conn'[v] = conn[v]
  BY WorkerMoves
<1>1. /\ ServeInv(w)'
      /\ \A c \in Clients : out'[c] = out[c] \/ (c = conn[w] /\ wpc[w] \in OwnPCs)
      /\ \A c \in Clients : out'[c] = out[c] \/ Fits(c, out'[c])
  <2>1. CASE SendHeader(w) \/ SendBody(w)
    <3>1. wpc[w] \in OwnPCs
      BY <2>1 DEF SendHeader, SendBody, OwnPCs
    <3> QED
      BY <2>1, <3>1, ServeSend
  <2>2. CASE ~SendHeader(w) /\ ~SendBody(w)
    BY <2>2, ServeSelf DEF AnswerInv
  <2> QED
    BY <2>1, <2>2
<1>2. ASSUME NEW v \in Workers \ {w} PROVE ServeInv(v)'
  <2>1. wpc[v] \in OwnPCs => out'[conn[v]] = out[conn[v]]
    <3> SUFFICES ASSUME wpc[v] \in OwnPCs PROVE out'[conn[v]] = out[conn[v]]
      OBVIOUS
    <3>1. conn[v] \in Clients /\ (wpc[w] \in OwnPCs => conn[w] # conn[v])
      BY Held
    <3> QED
      BY <1>1, <3>1
  <2> QED
    BY <1>0, <2>1, ServeFrame, CrowdedStays DEF AnswerInv
<1>3. OnlyOwnAnswer'
  BY <1>0, <1>1, AnswersStay DEF AnswerInv
<1> QED
  BY <1>1, <1>2, <1>3 DEF AnswerInv

\* The steps of main() and of the clients send nothing.
LEMMA AnswerOther ==
    ASSUME TypeOK, FdAll, QueueInv, AnswerInv, out' = out, creq' = creq,
           Running' => Running, UNCHANGED <<code, buff, conn>>,
           \A v \in Workers : wpc'[v] = wpc[v] \/ wpc'[v] = "top",
           \A c \in Clients : cpc[c] = "aborted" => cpc'[c] = "aborted" \/ Fresh(c),
           \A c \in Clients : cpc[c] # "idle" => cpc'[c] # "idle"
    PROVE  AnswerInv'
<1>1. OnlyOwnAnswer'
  BY AnswersStay DEF AnswerInv
<1>2. ASSUME NEW v \in Workers PROVE ServeInv(v)'
  <2>1. CASE wpc'[v] = "top"
    BY <2>1 DEF ServeInv, OwnPCs
  <2>2. CASE wpc'[v] = wpc[v]
    BY <2>2, Held, ServeFrame, CrowdedStays DEF AnswerInv
  <2> QED
    BY <2>1, <2>2
<1> QED
  BY <1>1, <1>2 DEF AnswerInv

LEMMA AnswerMain ==
    ASSUME TypeOK, FdAll, QueueInv, AnswerInv, MainStep \/ ReadExit
    PROVE  AnswerInv'
<1> USE DEF mainVars, localVars, clientVars, sockVars
<1>1. CASE CreateWorker
  <2>1. \A v \in Workers : wpc'[v] = wpc[v] \/ wpc'[v] = "top"
    BY <1>1 DEF CreateWorker, Goto, TypeOK
  <2> QED
    BY <1>1, <2>1, AnswerOther DEF CreateWorker, Running
<1>2. CASE ShutdownListener
  <2>1. \A c \in Clients : cpc'[c] = cpc[c] \/ (InQueue(c) /\ cpc'[c] = "refused")
    BY <1>2 DEF ShutdownListener, InQueue
  <2> QED
    BY <1>2, <2>1, AnswerOther DEF ShutdownListener, Fresh
<1>3. CASE CreateFails \/ ReadExit \/ CloseListener \/ JoinWorker \/ CloseLog
  <2>1. /\ UNCHANGED <<out, creq, cpc, wpc, code, buff, conn>>
        /\ Running
    BY <1>3 DEF CreateFails, ReadExit, CloseListener, JoinWorker, CloseLog
  <2> QED
    BY <2>1, AnswerOther
<1> QED
  BY <1>1, <1>2, <1>3 DEF MainStep

LEMMA AnswerClient ==
    ASSUME TypeOK, FdAll, QueueInv, AnswerInv, NEW c \in Clients, ClientStep(c)
    PROVE  AnswerInv'
<1>1. \A d \in Clients :
         /\ cpc[d] = "aborted" => cpc'[d] = "aborted"
         /\ cpc[d] # "idle" => cpc'[d] # "idle"
  BY DEF ClientStep, Connect, ClientSend, ClientClose, ClientAbort, ClientDone, TypeOK
<1>2. UNCHANGED <<out, creq, wpc, code, buff, conn, proc>>
  BY ClientMoves DEF sockVars, localVars
<1> QED
  BY <1>1, <1>2, AnswerOther DEF Running

LEMMA AnswerHolds == Spec => []AnswerInv
<1>1. Init => AnswerInv
  BY DEF Init, AnswerInv, OnlyOwnAnswer, ServeInv, OwnPCs, PrefixOf
<1>2. TypeOK /\ TypeOK' /\ FdAll /\ QueueInv /\ OwnerInv /\ AnswerInv /\ [Next]_vars => AnswerInv'
  <2> SUFFICES ASSUME TypeOK, TypeOK', FdAll, QueueInv, OwnerInv, AnswerInv, [Next]_vars
               PROVE  AnswerInv'
    OBVIOUS
  <2>1. CASE Next
    BY <2>1, AnswerMain, AnswerWorker, AnswerClient DEF Next
  <2>2. CASE UNCHANGED vars
    BY <2>2, AnswerOther DEF vars, clientVars, sockVars, localVars, Running
  <2> QED
    BY <2>1, <2>2
<1> QED
  BY <1>1, <1>2, TypeCorrect, FdHolds, QueueHolds, OwnerHolds, PTL DEF Spec

\* Whatever fails, nothing is ever sent on a connection but a beginning of the
\* answer to its own request, or, once the clients can have filled the
\* descriptor table, the 404 for a file; where writes to the log may fail,
\* sendHeader may return without the header and the body goes out alone.
THEOREM OnlyOwnAnswerHolds == Spec => []OnlyOwnAnswer
<1>1. AnswerInv => OnlyOwnAnswer
  BY DEF AnswerInv
<1> QED
  BY <1>1, AnswerHolds, PTL

-----------------------------------------------------------------------------
(* Complete answers: what a client has received when its connection ends, *)
(* and when the server exits.                                             *)

\* What the theorems below assume: every log write succeeds, no request is
\* answered 400 (after which the server shuts down a descriptor it has closed,
\* possibly another client's), and there are descriptors enough for the clients,
\* which the server never closes, and one more for each worker and for main().
Ample ==
    /\ "fputs" \notin Faults
    /\ \A r \in Requests : ~BadRequest(r)
    /\ MaxFd > Cardinality(Clients) + NWORKERS

\* Then a worker that opens a file finds a descriptor.
LEMMA FreeLeft ==
    ASSUME Ample, TypeOK, QueueInv, OwnerInv, NEW w \in Workers, wpc[w] = "fopen"
    PROVE  ~NoFreeFd
<1> DEFINE C == {c \in Clients : cpc[c] # "idle"}
<1>1. /\ Cardinality(C) <= Cardinality(Clients) /\ Cardinality(C) \in Nat
      /\ Cardinality(Clients) \in Nat
  BY ServerAssumption, FS_Subset, FS_CardinalityType
<1>2. ~(MaxFd <= Cardinality(C) + NWORKERS)
  BY <1>1, ServerAssumption DEF Ample
<1> QED
  BY <1>2, TableFull DEF Crowded

-----------------------------------------------------------------------------
(* Whole answers. *)

\* Where a worker is concerned with a connection.
HoldPCs == OwnPCs \cup {"shutdown"}

\* c has received its answer, if c is still there and the server too.
Answered(c) == out[c] = Answer(creq[c]) \/ cpc[c] = "aborted" \/ ~Running

WholeOne(w) ==
    /\ wpc[w] # "close" /\ code[w] # "400"
    /\ wpc[w] \in HoldPCs =>
          conn[w] \in Clients /\ fdTab[clientd[w]] = conn[w] /\ conn[w] \notin shutSet
    /\ wpc[w] \in {"status", "header"} /\ code[w] = "404" => ~creq[conn[w]].found
    /\ wpc[w] \in {"fclose", "shutdown"} => Answered(conn[w])

WholeInv ==
    /\ \A w \in Workers : WholeOne(w)
    /\ \A v, w \in Workers :
          v # w /\ wpc[v] \in HoldPCs /\ wpc[w] \in HoldPCs => conn[v] # conn[w]
    /\ \A c \in shutSet : Answered(c)
    /\ \A c \in Clients : cpc[c] = "done" /\ Running => c \in shutSet

\* The entries of connections in the descriptor table stay.
LEMMA EntriesStay ==
    ASSUME TypeOK, FdAll, NEW w \in Workers, wpc[w] # "close", WorkerStep(w)
    PROVE  \A f \in Fd : fdTab[f] \in Clients => fdTab'[f] = fdTab[f]
<1> USE DEF TypeOK
<1>0. clientd[w] \in Fd /\ inFile[w] \in Fd /\ {"free", "resv", "file"} \cap Clients = {}
  BY ServerAssumption
<1>1. CASE EnterAccept(w) \/ FOpen(w)
  <2>1. \A f \in Fd : fdTab'[f] = fdTab[f] \/ fdTab[f] = "free"
    BY <1>1 DEF EnterAccept, FOpen, LowestFree
  <2> QED
    BY <1>0, <2>1
<1>2. CASE Accept(w) \/ AcceptShut(w)
  <2>1. fdTab[clientd[w]] = "resv" /\ \A f \in Fd : fdTab'[f] = fdTab[f] \/ f = clientd[w]
    BY <1>2 DEF Accept, AcceptShut, FdAll, FdInv
  <2> QED
    BY <1>0, <2>1
<1>3. CASE FClose(w)
  <2>1. fdTab[inFile[w]] = "file" /\ \A f \in Fd : fdTab'[f] = fdTab[f] \/ f = inFile[w]
    BY <1>3 DEF FClose, FdAll, FdInv, HasFile
  <2> QED
    BY <1>0, <2>1
<1>4. CASE ~(EnterAccept(w) \/ FOpen(w) \/ Accept(w) \/ AcceptShut(w) \/ FClose(w))
  <2>1. fdTab' = fdTab
    BY <1>4 DEF WorkerStep, Lock, GetId, IncId, Recv, LogTime, ReadCommand, LogStatus,
                SendHeader, CloseClient, SendBody, ShutdownClient, LogNewline
  <2> QED
    BY <2>1
<1> QED
  BY <1>1, <1>2, <1>3, <1>4

\* A worker sends on its own connection only, and shuts only that one down.
LEMMA OwnOutput ==
    ASSUME Ample, TypeOK, TypeOK', FdAll, QueueInv, OwnerInv, AnswerInv, WholeInv,
           NEW w \in Workers, WorkerStep(w)
    PROVE  /\ \A c \in Clients : out'[c] = out[c] \/ (c = conn[w] /\ wpc[w] \in OwnPCs)
           /\ \/ shutSet' = shutSet
              \/ /\ wpc[w] = "shutdown" /\ wpc'[w] \notin HoldPCs /\ out' = out /\ proc' = proc
                 /\ shutSet' = shutSet \cup {conn[w]}
<1>1. \A c \in Clients : out'[c] = out[c] \/ (c = conn[w] /\ wpc[w] \in OwnPCs)
  <2>1. CASE SendHeader(w) \/ SendBody(w)
    <3>1. wpc[w] \in OwnPCs
      BY <2>1 DEF SendHeader, SendBody, OwnPCs
    <3> QED
      BY <2>1, <3>1, ServeSend
  <2>2. CASE ~SendHeader(w) /\ ~SendBody(w)
    BY <2>2, ServeSelf DEF AnswerInv
  <2> QED
    BY <2>1, <2>2
<1>2. CASE ShutdownClient(w)
  <2>1. wpc[w] = "shutdown" /\ conn[w] \in Clients /\ fdTab[clientd[w]] = conn[w]
    BY <1>2 DEF ShutdownClient, WholeInv, WholeOne, HoldPCs
  <2>2. shutSet' = shutSet \cup {conn[w]} /\ out' = out /\ proc' = proc
    BY <1>2, <2>1 DEF ShutdownClient
  <2>3. wpc'[w] \notin HoldPCs
    BY <1>2 DEF ShutdownClient, Again, Goto, HoldPCs, OwnPCs, TypeOK
  <2> QED
    BY <1>1, <2>1, <2>2, <2>3
<1>3. CASE ~ShutdownClient(w)
  <2>1. wpc[w] # "close"
    BY DEF WholeInv, WholeOne
  <2>2. shutSet' = shutSet
    BY <1>3, <2>1 DEF WorkerStep, EnterAccept, Accept, AcceptShut, Lock, GetId, IncId, Recv,
          LogTime, ReadCommand, FOpen, LogStatus, SendHeader, CloseClient, SendBody, FClose,
          LogNewline, sockVars
  <2> QED
    BY <1>1, <2>2
<1> QED
  BY <1>2, <1>3

\* The pieces sent are the whole answer when the worker goes on to shut down.
LEMMA WholeSend ==
    ASSUME Ample, TypeOK, TypeOK', FdAll, QueueInv, AnswerInv, WholeInv, NEW w \in Workers,
           SendHeader(w) \/ SendBody(w), wpc'[w] \in {"fclose", "shutdown"}
    PROVE  Answered(conn[w])'
<1> USE DEF localVars, clientVars, Goto, TypeOK
<1>0. /\ wpc[w] \in OwnPCs /\ conn[w] \in Clients /\ ServeInv(w) /\ CodeFits(w)
      /\ buff[w] = conn[w] /\ UNCHANGED <<buff, conn, code, creq, cpc>>
      /\ creq[conn[w]].verb \in {"GET", "HEAD", "OPTIONS", "TRACE", "other"}
      /\ ~BadRequest(creq[conn[w]])
  BY Held, ServerAssumption
  DEF SendHeader, SendBody, OwnPCs, AnswerInv, ServeInv, RequestType, Ample
<1> DEFINE r == creq[conn[w]]
<1>1. CASE SendHeader(w)
  <2>1. wpc[w] = "header" /\ out[conn[w]] = << >>
    BY <1>0, <1>1 DEF SendHeader, ServeInv, OwnPCs
  <2>2. \/ out' = [out EXCEPT ![conn[w]] = <<code[w]>>]
        \/ cpc[conn[w]] = "aborted" \/ proc' = "killed"
    <3>1. Append(<< >>, code[w]) = <<code[w]>>
      BY <1>0
    <3> QED
      BY <1>0, <1>1, <2>1, <3>1, Sent DEF SendHeader
  <2>3. ~(code[w] = "200" /\ r.verb \in {"GET", "TRACE"})
    BY <1>0, <1>1 DEF SendHeader, AfterHeader, Verb
  <2>4. code[w] = "404" => ~r.found
    BY <2>1 DEF WholeInv, WholeOne
  <2>5. Answer(r) = <<code[w]>>
    <3> HIDE DEF r
    <3>1. /\ ~BadRequest(r) /\ r.verb \in {"GET", "HEAD", "OPTIONS", "TRACE", "other"}
          /\ \/ code[w] = "404" /\ r.verb \in {"GET", "HEAD"} /\ ~r.found
             \/ code[w] = "501" /\ r.verb = "other"
             \/ code[w] = "200" /\ r.verb \in {"HEAD", "OPTIONS"} /\ (r.verb = "HEAD" => r.found)
      BY <1>0, <2>3, <2>4 DEF CodeFits, r
    <3> QED
      BY <3>1 DEF Answer
  <2> QED
    BY <1>0, <2>2, <2>5 DEF Answered, Running
<1>2. CASE SendBody(w)
  <2>1. /\ wpc[w] = "body" /\ Running /\ code[w] = "200" /\ r.verb \in {"GET", "TRACE"}
        /\ out[conn[w]] = <<"200">> \/ cpc[conn[w]] = "aborted"
    BY <1>0, <1>2 DEF SendBody, ServeInv, Ample
  <2>2. \/ out' = [out EXCEPT ![conn[w]] = <<"200", "body">>]
        \/ cpc[conn[w]] = "aborted" \/ proc' = "killed"
    <3>1. Append(<<"200">>, "body") = <<"200", "body">>
      <4>1. "200" \in Pieces /\ "body" \in Pieces
        BY DEF Pieces, Codes
      <4> QED
        BY <4>1, AppendTwo
    <3>2. \/ out' = [out EXCEPT ![conn[w]] = Append(@, "body")]
          \/ cpc[conn[w]] = "aborted" \/ proc' = "killed"
      BY <1>0, <1>2, Sent DEF SendBody
    <3> QED
      BY <2>1, <3>1, <3>2
  <2>3. Answer(r) = <<"200", "body">>
    BY <1>0, <2>1 DEF CodeFits, Answer
  <2> QED
    BY <1>0, <2>2, <2>3 DEF Answered, Running
<1> QED
  BY <1>1, <1>2

\* The worker's own part of the invariant, and what it still holds.
LEMMA WholeSelf ==
    ASSUME Ample, TypeOK, TypeOK', FdAll, QueueInv, OwnerInv, AnswerInv, WholeInv,
           NEW w \in Workers, WorkerStep(w)
    PROVE  /\ WholeOne(w)'
           /\ wpc'[w] \in HoldPCs => \/ wpc[w] \in HoldPCs /\ conn'[w] = conn[w]
                                     \/ InQueue(conn'[w]) /\ conn'[w] \in Clients
<1> USE DEF localVars, clientVars, sockVars, Goto, TypeOK
<1>0. /\ WholeOne(w) /\ ServeInv(w) /\ creq' = creq /\ cpc' = cpc /\ Running
      /\ wpc[w] # "close" /\ clientd[w] \in Fd
  BY WorkerMoves DEF WholeInv, WholeOne, AnswerInv
<1>a. ASSUME wpc[w] \in HoldPCs, conn' = conn, clientd' = clientd, shutSet' = shutSet
      PROVE  conn'[w] \in Clients /\ fdTab'[clientd'[w]] = conn'[w] /\ conn'[w] \notin shutSet'
  BY <1>0, <1>a, EntriesStay DEF WholeOne
<1>1. CASE EnterAccept(w) \/ AcceptShut(w) \/ ShutdownClient(w) \/ LogNewline(w)
  <2>1. wpc'[w] \in {"exited", "accept", "top", "newline"} /\ code'[w] # "400"
    BY <1>0, <1>1 DEF EnterAccept, AcceptShut, ShutdownClient, LogNewline, Again, WholeOne
  <2> QED
    BY <2>1 DEF WholeOne, HoldPCs, OwnPCs
<1>2. CASE Accept(w)
  <2>1. PICK h \in Clients : h = Head(backlog)
    BY <1>2 DEF Accept
  <2>2. InQueue(h)
    <3>1. 1 \in DOMAIN backlog /\ h = backlog[1]
      BY <1>2, <2>1, QueueSeq DEF Accept
    <3> QED
      BY <3>1 DEF InQueue
  <2>3. h \notin shutSet
    BY <2>2 DEF QueueInv, Fresh
  <2>4. /\ wpc'[w] = "lock" /\ conn'[w] = h /\ fdTab'[clientd'[w]] = h /\ shutSet' = shutSet
        /\ code' = code
    BY <1>0, <1>2, <2>1 DEF Accept
  <2>5. WholeOne(w)'
    BY <1>0, <2>3, <2>4 DEF WholeOne
  <2> QED
    BY <2>2, <2>4, <2>5
<1>3. CASE Lock(w) \/ GetId(w) \/ IncId(w)
  <2>1. /\ wpc[w] \in {"lock", "getid", "incid"} /\ wpc'[w] \in {"getid", "incid", "recv"}
        /\ UNCHANGED <<conn, clientd, shutSet, code>>
    BY <1>3 DEF Lock, GetId, IncId
  <2>2. wpc[w] \in HoldPCs
    BY <2>1 DEF HoldPCs, OwnPCs
  <2> QED
    BY <1>0, <1>a, <2>1, <2>2 DEF WholeOne
<1>4. CASE Recv(w) \/ LogTime(w)
  <2>1. /\ wpc[w] \in {"recv", "logtime"} /\ UNCHANGED <<clientd, shutSet>>
        /\ \/ wpc'[w] \in {"logtime", "command"} /\ UNCHANGED <<conn, code>>
           \/ wpc'[w] = "top" /\ code'[w] = "200"
    BY <1>4 DEF Recv, LogTime, Again
  <2>2. wpc[w] \in HoldPCs /\ "top" \notin HoldPCs
    BY <2>1 DEF HoldPCs, OwnPCs
  <2> QED
    BY <1>0, <1>a, <2>1, <2>2 DEF WholeOne
<1>5. CASE ReadCommand(w)
  <2>1. buff[w] = conn[w] /\ conn[w] \in Clients /\ wpc[w] = "command" /\ wpc[w] \in HoldPCs
    BY <1>0, <1>5, Held DEF ReadCommand, ServeInv, HoldPCs, OwnPCs
  <2>2. ~BadRequest(creq[buff[w]])
    BY <2>1 DEF Ample
  <2>3. /\ UNCHANGED <<conn, clientd, shutSet>>
        /\ \/ wpc'[w] = "command" /\ code' = code
           \/ wpc'[w] \in {"fopen", "status"} /\ code'[w] \in {"200", "501"}
    BY <1>5, <2>1, <2>2 DEF ReadCommand
  <2> QED
    BY <1>0, <1>a, <2>1, <2>3 DEF WholeOne
<1>6. CASE FOpen(w)
  <2>1. /\ wpc[w] = "fopen" /\ wpc'[w] = "status" /\ UNCHANGED <<conn, clientd, shutSet>>
        /\ \/ code' = code
           \/ code'[w] = "404" /\ (~creq[buff[w]].found \/ NoFreeFd)
    BY <1>6 DEF FOpen
  <2>2. wpc[w] \in HoldPCs /\ buff[w] = conn[w] /\ code[w] = "200"
    BY <1>0, <2>1 DEF HoldPCs, OwnPCs, ServeInv
  <2>3. ~NoFreeFd
    BY <2>1, FreeLeft
  <2> QED
    BY <1>0, <1>a, <2>1, <2>2, <2>3 DEF WholeOne
<1>7. CASE LogStatus(w)
  <2>1. /\ wpc[w] = "status" /\ wpc'[w] = "header" /\ UNCHANGED <<conn, clientd, shutSet, code>>
        /\ wpc[w] \in HoldPCs
    BY <1>7 DEF LogStatus, Ample, HoldPCs, OwnPCs
  <2> QED
    BY <1>0, <1>a, <2>1 DEF WholeOne
<1>8. CASE SendHeader(w) \/ SendBody(w)
  <2>1. /\ UNCHANGED <<conn, clientd, shutSet, code>> /\ wpc[w] \in HoldPCs
        /\ wpc'[w] \in {"body", "fclose", "shutdown"}
    BY <1>0, <1>8 DEF SendHeader, SendBody, AfterHeader, HoldPCs, OwnPCs, WholeOne
  <2>2. wpc'[w] \in {"fclose", "shutdown"} => Answered(conn[w])'
    BY <1>8, WholeSend
  <2> QED
    BY <1>0, <1>a, <2>1, <2>2 DEF WholeOne
<1>9. CASE FClose(w)
  <2>1. /\ UNCHANGED <<conn, clientd, shutSet, code, out, proc>> /\ wpc[w] = "fclose"
        /\ wpc'[w] = "shutdown" /\ wpc[w] \in HoldPCs
    BY <1>9 DEF FClose, HoldPCs, OwnPCs
  <2>2. Answered(conn[w])'
    BY <1>0, <2>1 DEF WholeOne, Answered, Running
  <2> QED
    BY <1>0, <1>a, <2>1, <2>2 DEF WholeOne
<1>10. CASE CloseClient(w)
  BY <1>0, <1>10 DEF CloseClient
<1> QED
  BY <1>1, <1>2, <1>3, <1>4, <1>5, <1>6, <1>7, <1>8, <1>9, <1>10 DEF WorkerStep

LEMMA WholeWorker ==
    ASSUME Ample, TypeOK, TypeOK', FdAll, QueueInv, OwnerInv, AnswerInv, WholeInv,
           NEW w \in Workers, WorkerStep(w)
    PROVE  WholeInv'
<1>0. /\ Running /\ creq' = creq /\ cpc' = cpc
      /\ \A v \in Workers \ {w} :
            wpc'[v] = wpc[v] /\ code'[v] = code[v] /\ conn'[v] = conn[v] /\ clientd'[v] = clientd[v]
  BY WorkerMoves
<1>1. /\ WholeOne(w)'
      /\ wpc'[w] \in HoldPCs => \/ wpc[w] \in HoldPCs /\ conn'[w] = conn[w]
                                \/ InQueue(conn'[w]) /\ conn'[w] \in Clients
  BY WholeSelf
<1>2. /\ \A c \in Clients : out'[c] = out[c] \/ (c = conn[w] /\ wpc[w] \in OwnPCs)
      /\ \/ shutSet' = shutSet
         \/ /\ wpc[w] = "shutdown" /\ wpc'[w] \notin HoldPCs /\ out' = out /\ proc' = proc
            /\ shutSet' = shutSet \cup {conn[w]}
  BY OwnOutput
<1>3. OwnPCs \subseteq HoldPCs /\ "shutdown" \in HoldPCs /\ "fclose" \in HoldPCs
  BY DEF HoldPCs, OwnPCs
<1>4. \A f \in Fd : fdTab[f] \in Clients => fdTab'[f] = fdTab[f]
  BY EntriesStay DEF WholeInv, WholeOne
<1>5. ASSUME NEW v \in Workers \ {w} PROVE WholeOne(v)'
  <2>1. WholeOne(v) /\ clientd[v] \in Fd
    BY DEF WholeInv, TypeOK
  <2>2. wpc[v] \in HoldPCs =>
           /\ conn[v] \in Clients /\ fdTab'[clientd[v]] = conn[v] /\ conn[v] \notin shutSet'
           /\ out'[conn[v]] = out[conn[v]]
    <3> SUFFICES ASSUME wpc[v] \in HoldPCs
                 PROVE  /\ conn[v] \in Clients /\ fdTab'[clientd[v]] = conn[v]
                        /\ conn[v] \notin shutSet' /\ out'[conn[v]] = out[conn[v]]
      OBVIOUS
    <3>1. conn[v] \in Clients /\ fdTab[clientd[v]] = conn[v] /\ conn[v] \notin shutSet
      BY <2>1 DEF WholeOne
    <3>2. wpc[w] \in HoldPCs => conn[v] # conn[w]
      BY DEF WholeInv
    <3> QED
      BY <1>2, <1>3, <1>4, <2>1, <3>1, <3>2
  <2>3. wpc[v] \in {"fclose", "shutdown"} => Answered(conn[v])'
    BY <1>0, <1>3, <2>1, <2>2 DEF WholeOne, Answered
  <2> QED
    BY <1>0, <2>1, <2>2, <2>3 DEF WholeOne
<1>6. ASSUME NEW u \in Workers, NEW v \in Workers, u # v, wpc'[u] \in HoldPCs, wpc'[v] \in HoldPCs
      PROVE  conn'[u] # conn'[v]
  <2>1. \A x \in Workers : wpc[x] \in HoldPCs =>
           clientd[x] \in Fd /\ fdTab[clientd[x]] = conn[x]
    BY DEF WholeInv, WholeOne, TypeOK
  <2>2. \A c \in Clients : InQueue(c) => \A x \in Workers : wpc[x] \in HoldPCs => conn[x] # c
    BY <2>1 DEF QueueInv, Fresh
  <2>3. CASE u # w /\ v # w
    BY <1>0, <1>6, <2>3 DEF WholeInv
  <2>4. CASE u = w
    BY <1>0, <1>1, <1>6, <2>2, <2>4 DEF WholeInv
  <2>5. CASE v = w
    BY <1>0, <1>1, <1>6, <2>2, <2>5 DEF WholeInv
  <2> QED
    BY <2>3, <2>4, <2>5
<1>7. ASSUME NEW c \in shutSet' PROVE Answered(c)'
  <2>1. CASE c \in shutSet
    <3>1. c \in Clients /\ Answered(c)
      BY <2>1 DEF WholeInv, TypeOK
    <3>2. wpc[w] \in HoldPCs => conn[w] # c
      BY <2>1 DEF WholeInv, WholeOne
    <3>3. out'[c] = out[c]
      BY <1>2, <1>3, <3>1, <3>2
    <3> QED
      BY <1>0, <3>1, <3>3 DEF Answered
  <2>2. CASE c \notin shutSet
    <3>1. c = conn[w] /\ wpc[w] = "shutdown" /\ out' = out
      BY <1>2, <1>7, <2>2
    <3>2. Answered(c)
      BY <3>1 DEF WholeInv, WholeOne
    <3> QED
      BY <1>0, <3>1, <3>2 DEF Answered
  <2> QED
    BY <2>1, <2>2
<1>8. \A c \in Clients : cpc'[c] = "done" /\ Running' => c \in shutSet'
  BY <1>0, <1>2 DEF WholeInv
<1> QED
  BY <1>1, <1>5, <1>6, <1>7, <1>8 DEF WholeInv

\* The steps of main() and of the clients.
LEMMA WholeOther ==
    ASSUME TypeOK, QueueInv, WholeInv, UNCHANGED <<out, creq, code, conn, clientd, shutSet>>,
           Running' => Running,
           \A v \in Workers : wpc'[v] = wpc[v] \/ wpc'[v] = "top",
           \A f \in Fd : fdTab[f] \in Clients => fdTab'[f] = fdTab[f],
           \A c \in Clients : cpc[c] = "aborted" => cpc'[c] = "aborted" \/ Fresh(c),
           \A c \in Clients : cpc'[c] = "done" => cpc[c] = "done" \/ c \in shutSet \/ ~Running
    PROVE  WholeInv'
<1>0. "top" \notin HoldPCs /\ {"fclose", "shutdown"} \subseteq HoldPCs
  BY DEF HoldPCs, OwnPCs
<1>1. \A c \in Clients : ~Fresh(c) /\ Answered(c) => Answered(c)'
  BY DEF Answered
<1>2. ASSUME NEW v \in Workers PROVE WholeOne(v)'
  <2>1. WholeOne(v) /\ clientd[v] \in Fd
    BY DEF WholeInv, TypeOK
  <2>2. CASE wpc'[v] = "top"
    BY <1>0, <2>1, <2>2 DEF WholeOne
  <2>3. CASE wpc'[v] = wpc[v]
    <3>1. wpc[v] \in HoldPCs => /\ conn[v] \in Clients /\ fdTab[clientd[v]] = conn[v]
                                /\ fdTab'[clientd[v]] = conn[v] /\ ~Fresh(conn[v])
      BY <2>1 DEF WholeOne, QueueInv
    <3>2. wpc[v] \in {"fclose", "shutdown"} => Answered(conn[v])'
      BY <1>0, <1>1, <2>1, <3>1 DEF WholeOne
    <3> QED
      BY <2>1, <2>3, <3>1, <3>2 DEF WholeOne
  <2> QED
    BY <2>2, <2>3
<1>3. \A u, v \in Workers : u # v /\ wpc'[u] \in HoldPCs /\ wpc'[v] \in HoldPCs => conn[u] # conn[v]
  BY <1>0 DEF WholeInv
<1>4. \A c \in shutSet : Answered(c)'
  BY <1>1 DEF WholeInv, QueueInv, TypeOK
<1> QED
  BY <1>2, <1>3, <1>4 DEF WholeInv

LEMMA WholeStep ==
    ASSUME Ample, TypeOK, TypeOK', FdAll, QueueInv, OwnerInv, AnswerInv, WholeInv, [Next]_vars
    PROVE  WholeInv'
<1> USE DEF mainVars, localVars, clientVars, sockVars
<1>1. CASE CreateWorker
  <2>1. \A v \in Workers : wpc'[v] = wpc[v] \/ wpc'[v] = "top"
    BY <1>1 DEF CreateWorker, Goto, TypeOK
  <2> QED
    BY <1>1, <2>1, WholeOther DEF CreateWorker
<1>2. CASE ShutdownListener
  <2>1. \A c \in Clients : cpc'[c] = cpc[c] \/ (InQueue(c) /\ cpc'[c] = "refused")
    BY <1>2 DEF ShutdownListener, InQueue
  <2> QED
    BY <1>2, <2>1, WholeOther DEF ShutdownListener, Fresh
<1>3. CASE CloseListener
  <2>1. \A f \in Fd : fdTab[f] \in Clients => fdTab'[f] = fdTab[f]
    <3>1. fdTab[serverd] = "listen" /\ "listen" \notin Clients
      BY <1>3, ServerAssumption DEF CloseListener, FdAll, FdInv
    <3> QED
      BY <1>3, <3>1 DEF CloseListener, TypeOK
  <2> QED
    BY <1>3, <2>1, WholeOther DEF CloseListener
<1>4. CASE CreateFails \/ ReadExit \/ JoinWorker \/ CloseLog
  <2>1. Running /\ UNCHANGED <<out, creq, code, conn, clientd, shutSet, wpc, fdTab, cpc>>
    BY <1>4 DEF CreateFails, ReadExit, JoinWorker, CloseLog
  <2> QED
    BY <2>1, WholeOther
<1>5. ASSUME NEW c \in Clients, ClientStep(c) PROVE WholeInv'
  <2>1. UNCHANGED <<out, creq, code, conn, clientd, shutSet, wpc, fdTab, proc>>
    BY <1>5, ClientMoves
  <2>2. \A d \in Clients :
           /\ cpc[d] = "aborted" => cpc'[d] = "aborted"
           /\ cpc'[d] = "done" => cpc[d] = "done" \/ d \in shutSet \/ ~Running
    BY <1>5 DEF ClientStep, Connect, ClientSend, ClientClose, ClientAbort, ClientDone, TypeOK
  <2> QED
    BY <2>1, <2>2, WholeOther DEF Running
<1>6. CASE UNCHANGED vars
  BY <1>6, WholeOther DEF vars, Running
<1> QED
  BY <1>1, <1>2, <1>3, <1>4, <1>5, <1>6, WholeWorker DEF Next, MainStep

LEMMA WholeHolds ==
    ASSUME Ample PROVE Spec => []WholeInv
<1>1. Init => WholeInv
  BY ServerAssumption DEF Init, WholeInv, WholeOne, HoldPCs, OwnPCs
<1>2. TypeOK /\ TypeOK' /\ FdAll /\ QueueInv /\ OwnerInv /\ AnswerInv /\ WholeInv /\ [Next]_vars
         => WholeInv'
  BY WholeStep
<1> QED
  BY <1>1, <1>2, AnswerHolds, TypeCorrect, FdHolds, QueueHolds, OwnerHolds, PTL DEF Spec

\* A client that sees the end of its connection while the server runs has its
\* whole answer, even when other clients abort, close silently or when the
\* server is about to exit.  Each hypothesis is needed: a failed log write
\* drops the header, a full descriptor table turns a file into a 404, and
\* after a 400 the second shutdown() may hit another client's connection.
THEOREM ContentsDeliveredHolds ==
    ASSUME Ample PROVE Spec => []ContentsDelivered
<1>1. WholeInv => ContentsDelivered
  BY DEF WholeInv, ContentsDelivered, Answered
<1> QED
  BY <1>1, WholeHolds, PTL

-----------------------------------------------------------------------------
(* The end. *)

\* Where a client waits for the server, or has seen the end of its connection.
Waiting == {"connected", "sent", "done"}

\* Nobody who has connected is forgotten, and nobody is left when main() returns.
DrainInv ==
    /\ mpc \in {"close", "join", "done"} => lsock = "shut"
    /\ lsock = "shut" => backlog = << >>
    /\ Running => mpc # "done"
    /\ Running => \A c \in Clients : cpc[c] \in Waiting =>
          \/ InQueue(c) \/ c \in shutSet
          \/ \E w \in Workers : wpc[w] \in HoldPCs /\ conn[w] = c
    /\ proc = "done" => \A c \in Clients : cpc[c] \in Waiting =>
          out[c] = Answer(creq[c])

\* A worker keeps its connection until it has shut it down, unless the client
\* went away.
LEMMA Keeps ==
    ASSUME TypeOK, FdAll, WholeInv, "strftime" \notin Faults,
           NEW w \in Workers, WorkerStep(w), wpc[w] \in HoldPCs
    PROVE  \/ wpc'[w] \in HoldPCs /\ conn'[w] = conn[w]
           \/ conn[w] \in shutSet'
           \/ cpc[conn[w]] \in {"closed", "aborted"}
<1> USE DEF localVars, sockVars, clientVars, Goto, TypeOK
<1>0. /\ WholeOne(w) /\ conn[w] \in Clients /\ fdTab[clientd[w]] = conn[w]
      /\ conn[w] \notin shutSet
  BY DEF WholeInv, WholeOne
<1>1. CASE EnterAccept(w) \/ Accept(w) \/ AcceptShut(w) \/ LogNewline(w)
  BY <1>1 DEF EnterAccept, Accept, AcceptShut, LogNewline, HoldPCs, OwnPCs
<1>2. CASE Lock(w) \/ GetId(w) \/ IncId(w)
  BY <1>2 DEF Lock, GetId, IncId, HoldPCs, OwnPCs
<1>3. CASE Recv(w) \/ LogTime(w)
  BY <1>0, <1>3 DEF Recv, LogTime, HoldPCs, OwnPCs
<1>4. CASE ReadCommand(w)
  BY <1>4 DEF ReadCommand, HoldPCs, OwnPCs
<1>5. CASE FOpen(w)
  BY <1>5 DEF FOpen, HoldPCs, OwnPCs
<1>6. CASE LogStatus(w) \/ SendHeader(w) \/ SendBody(w)
  BY <1>6 DEF LogStatus, SendHeader, SendBody, AfterHeader, HoldPCs, OwnPCs
<1>7. CASE CloseClient(w) \/ FClose(w)
  BY <1>7 DEF CloseClient, FClose, HoldPCs, OwnPCs
<1>8. CASE ShutdownClient(w)
  BY <1>0, <1>8 DEF ShutdownClient
<1> QED
  BY <1>1, <1>2, <1>3, <1>4, <1>5, <1>6, <1>7, <1>8 DEF WorkerStep

LEMMA DrainWorker ==
    ASSUME TypeOK, FdAll, QueueInv, WholeInv, DrainInv, "strftime" \notin Faults,
           NEW w \in Workers, WorkerStep(w)
    PROVE  DrainInv'
<1>0. /\ Running /\ UNCHANGED <<mpc, lsock, cpc, creq>>
      /\ \A v \in Workers \ {w} : wpc'[v] = wpc[v] /\ conn'[v] = conn[v]
  BY WorkerMoves
<1>1. shutSet \subseteq shutSet' /\ proc' # "done"
  BY <1>0 DEF Running, WorkerStep, EnterAccept, Accept, AcceptShut, Lock, GetId, IncId, Recv,
     LogTime, ReadCommand, FOpen, LogStatus, SendHeader, CloseClient, SendBody, FClose,
     ShutdownClient, LogNewline, SendOn, sockVars
<1>2. \/ backlog' = backlog
      \/ /\ backlog # << >> /\ backlog' = Tail(backlog) /\ wpc'[w] = "lock"
         /\ conn'[w] = Head(backlog)
  BY DEF TypeOK, Goto, netVars, WorkerStep, EnterAccept, Accept, AcceptShut, Lock, GetId, IncId,
     Recv, LogTime, ReadCommand, FOpen, LogStatus, SendHeader, CloseClient, SendBody, FClose,
     ShutdownClient, LogNewline
<1>3. ASSUME NEW c \in Clients, InQueue(c)
      PROVE  InQueue(c)' \/ (wpc'[w] \in HoldPCs /\ conn'[w] = c)
  <2>1. CASE backlog' = backlog
    BY <1>3, <2>1 DEF InQueue
  <2>2. CASE /\ backlog # << >> /\ backlog' = Tail(backlog) /\ wpc'[w] = "lock"
             /\ conn'[w] = Head(backlog)
    <3>1. PICK k \in DOMAIN backlog : backlog[k] = c
      BY <1>3 DEF InQueue
    <3>2. /\ DOMAIN backlog = 1 .. Len(backlog) /\ Len(backlog) \in Nat
          /\ Head(backlog) = backlog[1]
          /\ DOMAIN Tail(backlog) = 1 .. Len(backlog) - 1
          /\ \A i \in 1 .. Len(backlog) - 1 : Tail(backlog)[i] = backlog[i + 1]
      BY <2>2, QueueSeq DEF TypeOK
    <3>3. CASE k = 1
      BY <2>2, <3>1, <3>2, <3>3 DEF HoldPCs, OwnPCs
    <3>4. CASE k # 1
      <4>1. k - 1 \in 1 .. Len(backlog) - 1 /\ (k - 1) + 1 = k
        BY <3>2, <3>4
      <4>2. k - 1 \in DOMAIN backlog' /\ backlog'[k - 1] = c
        BY <2>2, <3>1, <3>2, <4>1
      <4> QED
        BY <4>2 DEF InQueue
    <3> QED
      BY <3>3, <3>4
  <2> QED
    BY <1>2, <2>1, <2>2
<1>4. ASSUME NEW c \in Clients, cpc'[c] \in Waiting
      PROVE  \/ InQueue(c)' \/ c \in shutSet'
             \/ \E v \in Workers : wpc'[v] \in HoldPCs /\ conn'[v] = c
  <2>1. \/ InQueue(c) \/ c \in shutSet
        \/ \E v \in Workers : wpc[v] \in HoldPCs /\ conn[v] = c
    BY <1>0, <1>4 DEF DrainInv
  <2>2. ASSUME NEW v \in Workers, wpc[v] \in HoldPCs, conn[v] = c
        PROVE  c \in shutSet' \/ (wpc'[v] \in HoldPCs /\ conn'[v] = c)
    <3>1. CASE v = w
      BY <1>0, <1>4, <2>2, <3>1, Keeps DEF Waiting
    <3>2. CASE v # w
      BY <1>0, <2>2, <3>2
    <3> QED
      BY <3>1, <3>2
  <2> QED
    BY <1>1, <1>3, <2>1, <2>2
<1>5. lsock' = "shut" => backlog' = << >>
  BY <1>0, <1>2 DEF DrainInv
<1> QED
  BY <1>0, <1>1, <1>4, <1>5 DEF DrainInv

LEMMA DrainMain ==
    ASSUME TypeOK, FdAll, JoinInv, WholeInv, DrainInv, MainStep \/ ReadExit
    PROVE  DrainInv'
<1> USE DEF mainVars, localVars, clientVars, sockVars, netVars
<1>1. CASE CreateWorker
  <2>1. /\ UNCHANGED <<proc, lsock, backlog, cpc, creq, out, shutSet, conn>>
        /\ mpc' \notin {"close", "join", "done"} /\ mpc = "create"
    BY <1>1 DEF CreateWorker
  <2>2. \A v \in Workers : wpc[v] \in HoldPCs => wpc'[v] = wpc[v]
    <3>1. mi \in Workers => wpc[mi] = "none"
      BY <2>1 DEF FdAll, CreateInv, TypeOK, Workers
    <3>2. "none" \notin HoldPCs
      BY DEF HoldPCs, OwnPCs
    <3> QED
      BY <1>1, <3>1, <3>2 DEF CreateWorker, Goto, TypeOK
  <2> QED
    BY <2>1, <2>2 DEF DrainInv, Running, InQueue
<1>2. CASE CreateFails
  BY <1>2 DEF CreateFails, DrainInv, Running
<1>3. CASE ReadExit \/ JoinWorker
  BY <1>3 DEF ReadExit, JoinWorker, DrainInv, Running, InQueue
<1>4. CASE ShutdownListener
  <2>1. /\ mpc' = "close" /\ lsock' = "shut" /\ backlog' = << >> /\ Running /\ proc' = proc
        /\ UNCHANGED <<wpc, conn, shutSet>>
        /\ \A c \in Clients : cpc'[c] = IF InQueue(c) THEN "refused" ELSE cpc[c]
    BY <1>4 DEF ShutdownListener, InQueue
  <2> QED
    BY <2>1 DEF DrainInv, Running, Waiting
<1>5. CASE CloseListener
  BY <1>5 DEF CloseListener, DrainInv, Running, InQueue
<1>6. CASE CloseLog
  <2>1. /\ Running /\ mpc = "join" /\ mpc' = "done" /\ proc' = "done"
        /\ UNCHANGED <<lsock, backlog, cpc, creq, out>>
    BY <1>6 DEF CloseLog
  <2>2. \A w \in Workers : wpc[w] = "exited"
    BY <1>6, ServerAssumption DEF CloseLog, JoinInv, Workers
  <2>3. \A c \in Clients : ~InQueue(c)
    BY <2>1 DEF DrainInv, InQueue
  <2>4. ASSUME NEW c \in Clients, cpc[c] \in Waiting PROVE out[c] = Answer(creq[c])
    <3>1. c \in shutSet
      BY <2>1, <2>2, <2>3, <2>4 DEF DrainInv, HoldPCs, OwnPCs
    <3> QED
      BY <2>1, <2>4, <3>1 DEF WholeInv, Answered, Waiting
  <2> QED
    BY <2>1, <2>4 DEF DrainInv, Running
<1> QED
  BY <1>1, <1>2, <1>3, <1>4, <1>5, <1>6 DEF MainStep

LEMMA DrainClient ==
    ASSUME TypeOK, DrainInv, NEW c \in Clients, ClientStep(c) PROVE DrainInv'
<1> USE DEF netVars, sockVars, localVars, mainVars, TypeOK
<1>0. UNCHANGED <<proc, mpc, wpc, conn, lsock, creq, out, shutSet>>
  BY ClientMoves
<1>1. CASE backlog' = Append(backlog, c) /\ lsock = "listening" /\ Running
           /\ cpc' = [cpc EXCEPT ![c] = "connected"]
  <2>1. \A d \in Clients : InQueue(d) \/ d = c => InQueue(d)'
    BY <1>1, QueueSeq DEF InQueue
  <2>2. \A d \in Clients : d = c \/ cpc'[d] = cpc[d]
    BY <1>1
  <2> QED
    BY <1>0, <1>1, <2>1, <2>2 DEF DrainInv, Running
<1>2. CASE backlog' = backlog /\ \A d \in Clients : cpc'[d] \in Waiting => cpc[d] \in Waiting
  BY <1>0, <1>2 DEF DrainInv, Running, InQueue
<1>3. CASE Connect(c)
  BY <1>1, <1>2, <1>3 DEF Connect, Waiting
<1>4. CASE ClientSend(c) \/ ClientClose(c) \/ ClientAbort(c) \/ ClientDone(c)
  BY <1>2, <1>4 DEF ClientSend, ClientClose, ClientAbort, ClientDone, Waiting
<1> QED
  BY <1>3, <1>4 DEF ClientStep

\* When the process ends through "exit" every client that was not refused and
\* did not go away itself has its whole answer: a worker notices the shutdown
\* only in accept(), and main() joins all of them.  A failing strftime() makes
\* process_requests drop the request, so that hypothesis is needed too.
THEOREM DrainedOnExitHolds ==
    ASSUME Ample, "strftime" \notin Faults PROVE Spec => []DrainedOnExit
<1>1. Init => DrainInv
  BY DEF Init, DrainInv, Running, Waiting
<1>2. TypeOK /\ FdAll /\ QueueInv /\ JoinInv /\ WholeInv /\ DrainInv /\ [Next]_vars => DrainInv'
  <2> SUFFICES ASSUME TypeOK, FdAll, QueueInv, JoinInv, WholeInv, DrainInv, [Next]_vars
               PROVE  DrainInv'
    OBVIOUS
  <2>1. CASE Next
    BY <2>1, DrainMain, DrainWorker, DrainClient DEF Next
  <2>2. CASE UNCHANGED vars
    BY <2>2 DEF vars, DrainInv, Running, InQueue, netVars, sockVars, localVars, mainVars, clientVars
  <2> QED
    BY <2>1, <2>2
<1>3. DrainInv => DrainedOnExit
  BY DEF DrainInv, DrainedOnExit, Waiting
<1>4. Spec => []WholeInv
  BY WholeHolds
<1> QED
  BY <1>1, <1>2, <1>3, <1>4, TypeCorrect, FdHolds, QueueHolds, JoinHolds, PTL DEF Spec
=============================================================================
