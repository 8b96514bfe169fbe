------------------------------ MODULE WebServer ------------------------------
(***************************************************************************)
(* The multi-threaded web server of Pthread/pthreads-web-server-master:    *)
(* main() opens a listening socket, creates NWORKERS threads that all call *)
(* accept() on it, waits for the user to type "exit", shuts the socket     *)
(* down, joins the threads and closes the log.  Each worker takes a        *)
(* request id under a mutex, reads one request, logs it, answers it and    *)
(* loops.  The clients are client.c, plus the browser that connects and    *)
(* closes without sending, which process_requests handles (recv() = 0).    *)
(*                                                                         *)
(* Every system call a worker makes on state another thread can see is one *)
(* step.  The descriptor table is the process's: the lowest free number is *)
(* always the one handed out, so a number that was closed is soon reused.  *)
(***************************************************************************)
EXTENDS Naturals, Sequences, FiniteSets

CONSTANTS
    NWORKERS,   \* number of worker threads, from config.txt
    Clients,    \* the connections made to the server
    Requests,   \* the requests the clients may send (see RequestType)
    MaxFd,      \* size of the descriptor table (RLIMIT_NOFILE)
    BACKLOG,    \* length of the listen queue: listen(serverd, 5)
    Faults,     \* what may go wrong, a subset of FaultKinds
    None        \* "no connection", "nobody"

\* What the server can tell apart in a request: how many of the pointers
\* tok[0..2] read_command left non-NULL, whether tok[1] starts with '/',
\* whether tok[2] is HTTP/1.1, whether read_command returned 1, the method,
\* whether the file that tok[1] names exists, and whether it can be read to
\* its end (fopen() opens a directory too, and every read of it fails).
RequestType ==
    [toks : 1..3, slash : BOOLEAN, http : BOOLEAN, read : BOOLEAN,
     verb : {"GET", "HEAD", "OPTIONS", "TRACE", "other"}, found : BOOLEAN,
     readable : BOOLEAN]

\* "silent" and "abort" are clients that close before or after their request.
FaultKinds == {"create", "close", "fputs", "strftime", "silent", "abort"}

ASSUME ServerAssumption ==
    /\ NWORKERS \in Nat \ {0}
    /\ MaxFd \in Nat \ {0}
    /\ BACKLOG \in Nat \ {0}
    /\ Requests \subseteq RequestType
    /\ Faults \subseteq FaultKinds
    /\ IsFiniteSet(Clients)
    /\ None \notin Clients \cup Nat
    /\ Clients \cap {"free", "resv", "listen", "file"} = {}

Workers == 0 .. NWORKERS - 1
Fd      == 0 .. MaxFd - 1

\* The listening socket is the first descriptor main() opens.
serverd == 0

VARIABLES
    proc,             \* "running", or how the process ended
    mpc, mi,          \* main(): program counter and loop index
    wpc,              \* process_requests: program counter of each worker
    clientd, inFile,  \* its descriptors: the connection and the file served
    request_id, code, \* its request id and the response code chosen
    buff,             \* whose message its receive buffer holds
    conn,             \* history: the connection its last accept() returned
    gLock, next_request_id,
    fdTab,            \* descriptor -> "free", "resv", "listen", "file", client
    lsock, backlog,   \* listening socket: "listening" or "shut", and its queue
    log, logOpen,     \* lines written to the log file; is the FILE open
    cpc, creq,        \* clients: program counter and the request typed
    shutSet,          \* connections the server has shut down or closed
    out               \* what the server sent on each connection

mainVars   == <<mpc, mi>>
localVars  == <<clientd, inFile, request_id, code, buff, conn>>
idVars     == <<gLock, next_request_id>>
netVars    == <<lsock, backlog>>
logVars    == <<log, logOpen>>
clientVars == <<cpc, creq>>
sockVars   == <<shutSet, out>>

vars == <<proc, mainVars, wpc, localVars, idVars, fdTab, netVars, logVars,
          clientVars, sockVars>>

Running == proc = "running"

-----------------------------------------------------------------------------
(* How the process can be; the steps of main(), of a worker (in the order  *)
(* of process_requests) and of a client; what a descriptor can name; what  *)
(* an answer is made of.                                                   *)
ProcStates == {"running", "done", "failed", "crashed", "killed"}

MPC == {"create", "wait", "shutdown", "close", "join", "done"}

CPC == {"idle", "connected", "sent", "closed", "aborted", "done", "refused"}

FdUses == Clients \cup {"free", "resv", "listen", "file"}

Codes  == {"200", "400", "404", "501"}
Pieces == Codes \cup {"body"}

LogLines == [id : Nat, who : Clients \cup {None}]

WPC == {"none", "top", "accept", "lock", "getid", "incid", "recv",
        "logtime", "command", "fopen", "status", "header", "close",
        "body", "fclose", "shutdown", "newline", "exited"}

Init ==
    /\ proc = "running"
    /\ mpc = "create" /\ mi = 0
    /\ wpc = [w \in Workers |-> "none"]
    /\ clientd = [w \in Workers |-> serverd]
    /\ inFile = [w \in Workers |-> serverd]
    /\ request_id = [w \in Workers |-> 0]
    /\ code = [w \in Workers |-> "200"]
    /\ buff = [w \in Workers |-> None]
    /\ conn = [w \in Workers |-> None]
    /\ gLock = None /\ next_request_id = 0
    /\ fdTab = [f \in Fd |-> IF f = serverd THEN "listen" ELSE "free"]
    /\ lsock = "listening" /\ backlog = << >>
    /\ log = {} /\ logOpen = TRUE
    /\ cpc = [c \in Clients |-> "idle"]
    /\ creq \in [Clients -> Requests]
    /\ shutSet = {} /\ out = [c \in Clients |-> << >>]

\* The kernel hands out the lowest free descriptor.
LowestFree(f) ==
    /\ f \in Fd /\ fdTab[f] = "free"
    /\ \A g \in Fd : fdTab[g] = "free" => f <= g

NoFreeFd == \A f \in Fd : fdTab[f] # "free"

Goto(w, to) == wpc' = [wpc EXCEPT ![w] = to]

\* Back to the top of while(1): the variables of the loop body are gone.
Again(w) ==
    /\ Goto(w, "top")
    /\ buff' = [buff EXCEPT ![w] = None]
    /\ conn' = [conn EXCEPT ![w] = None]
    /\ code' = [code EXCEPT ![w] = "200"]

-----------------------------------------------------------------------------
(* main() *)

\* Mutant of CreateWorker: the loop runs once too often.
CreateOneTooMany ==
    /\ Running /\ mpc = "create"
    /\ IF mi <= NWORKERS
       THEN /\ Goto(mi, "top") /\ mi' = mi + 1 /\ mpc' = mpc
       ELSE /\ mpc' = "wait" /\ UNCHANGED <<wpc, mi>>
    /\ UNCHANGED <<proc, localVars, idVars, fdTab, netVars, logVars,
                   clientVars, sockVars>>

\* pthread_create for the next worker.
CreateWorker ==
    /\ Running /\ mpc = "create"
    /\ IF mi < NWORKERS
       THEN /\ Goto(mi, "top") /\ mi' = mi + 1 /\ mpc' = mpc
       ELSE /\ mpc' = "wait" /\ UNCHANGED <<wpc, mi>>
    /\ UNCHANGED <<proc, localVars, idVars, fdTab, netVars, logVars,
                   clientVars, sockVars>>

\* pthread_create fails: main() returns 1 and the process ends, whatever the
\* workers already created are doing.
CreateFails ==
    /\ Running /\ mpc = "create" /\ mi < NWORKERS /\ "create" \in Faults
    /\ proc' = "failed"
    /\ UNCHANGED <<mainVars, wpc, localVars, idVars, fdTab, netVars, logVars,
                   clientVars, sockVars>>

\* The user types "exit"; any other line leaves main() in its loop.
ReadExit ==
    /\ Running /\ mpc = "wait"
    /\ mpc' = "shutdown"
    /\ UNCHANGED <<proc, mi, wpc, localVars, idVars, fdTab, netVars, logVars,
                   clientVars, sockVars>>

\* shutdown(serverd, 2): the kernel resets the connections still queued.
ShutdownListener ==
    /\ Running /\ mpc = "shutdown"
    /\ mpc' = "close" /\ lsock' = "shut" /\ backlog' = << >>
    /\ cpc' = [c \in Clients |->
                 IF \E i \in DOMAIN backlog : backlog[i] = c
                 THEN "refused" ELSE cpc[c]]
    /\ UNCHANGED <<proc, mi, wpc, localVars, idVars, fdTab, logVars, creq,
                   sockVars>>

\* close(serverd): its number is free again.
CloseListener ==
    /\ Running /\ mpc = "close"
    /\ \/ /\ mpc' = "join" /\ mi' = 0
          /\ fdTab' = [fdTab EXCEPT ![serverd] = "free"]
          /\ UNCHANGED proc
       \/ /\ "close" \in Faults
          /\ proc' = "failed" /\ UNCHANGED <<mainVars, fdTab>>
    /\ UNCHANGED <<wpc, localVars, idVars, netVars, logVars, clientVars,
                   sockVars>>

\* Mutant of JoinWorker: the threads are detached, nobody waits for them.
JoinNobody ==
    /\ Running /\ mpc = "join" /\ mi < NWORKERS
    /\ mi' = mi + 1
    /\ UNCHANGED <<proc, mpc, wpc, localVars, idVars, fdTab, netVars, logVars,
                   clientVars, sockVars>>

\* pthread_join on the workers in index order.
JoinWorker ==
    /\ Running /\ mpc = "join" /\ mi < NWORKERS
    /\ wpc[mi] = "exited"
    /\ mi' = mi + 1
    /\ UNCHANGED <<proc, mpc, wpc, localVars, idVars, fdTab, netVars, logVars,
                   clientVars, sockVars>>

\* All joined: fclose(logfile) and return.
CloseLog ==
    /\ Running /\ mpc = "join" /\ mi = NWORKERS
    /\ mpc' = "done" /\ proc' = "done" /\ logOpen' = FALSE
    /\ UNCHANGED <<mi, wpc, localVars, idVars, fdTab, netVars, log,
                   clientVars, sockVars>>

MainStep ==
    \/ CreateWorker \/ CreateFails \/ ShutdownListener
    \/ CloseListener \/ JoinWorker \/ CloseLog

-----------------------------------------------------------------------------
(* process_requests: accept() *)

\* Mutant of EnterAccept: only errno 22 ends the thread, not errno 9.
EnterAcceptNo9(w) ==
    /\ Running /\ wpc[w] = "top" /\ fdTab[serverd] = "listen"
    /\ \/ /\ lsock = "shut" /\ ~NoFreeFd
          /\ Goto(w, "exited")
          /\ UNCHANGED <<clientd, fdTab>>
       \/ /\ lsock = "listening"
          /\ \E f \in Fd :
                /\ LowestFree(f)
                /\ clientd' = [clientd EXCEPT ![w] = f]
                /\ fdTab' = [fdTab EXCEPT ![f] = "resv"]
          /\ Goto(w, "accept")
    /\ UNCHANGED <<proc, mainVars, inFile, request_id, code, buff, conn,
                   idVars, netVars, logVars, clientVars, sockVars>>

\* Entering accept().  EBADF (9) when serverd is closed and EINVAL (22) when
\* it is shut down make the thread exit.  Otherwise the kernel reserves a
\* descriptor and the thread blocks.  Every other error is printed and the
\* loop goes on, which changes nothing here: EMFILE when no descriptor is
\* free, ENOTSOCK when serverd's number already names a file another worker
\* opened.
EnterAccept(w) ==
    /\ Running /\ wpc[w] = "top"
    /\ \/ /\ \/ fdTab[serverd] = "free"
             \/ fdTab[serverd] = "listen" /\ lsock = "shut" /\ ~NoFreeFd
          /\ Goto(w, "exited")
          /\ UNCHANGED <<clientd, fdTab>>
       \/ /\ fdTab[serverd] = "listen" /\ lsock = "listening"
          /\ \E f \in Fd :
                /\ LowestFree(f)
                /\ clientd' = [clientd EXCEPT ![w] = f]
                /\ fdTab' = [fdTab EXCEPT ![f] = "resv"]
          /\ Goto(w, "accept")
    /\ UNCHANGED <<proc, mainVars, inFile, request_id, code, buff, conn,
                   idVars, netVars, logVars, clientVars, sockVars>>

\* accept() returns the connection at the head of the queue.
Accept(w) ==
    /\ Running /\ wpc[w] = "accept"
    /\ backlog # << >>
    /\ conn' = [conn EXCEPT ![w] = Head(backlog)]
    /\ fdTab' = [fdTab EXCEPT ![clientd[w]] = Head(backlog)]
    /\ backlog' = Tail(backlog)
    /\ Goto(w, "lock")
    /\ UNCHANGED <<proc, mainVars, clientd, inFile, request_id, code, buff,
                   idVars, lsock, logVars, clientVars, sockVars>>

\* A thread blocked in accept() when the socket is shut down gets EINVAL, its
\* reserved descriptor is given back, and it exits.
AcceptShut(w) ==
    /\ Running /\ wpc[w] = "accept"
    /\ lsock = "shut"
    /\ fdTab' = [fdTab EXCEPT ![clientd[w]] = "free"]
    /\ Goto(w, "exited")
    /\ UNCHANGED <<proc, mainVars, localVars, idVars, netVars, logVars,
                   clientVars, sockVars>>

-----------------------------------------------------------------------------
(* The request id, assigned under gLock. *)

\* Mutant of Lock: the id is taken without waiting for the mutex.
LockAnyway(w) ==
    /\ Running /\ wpc[w] = "lock"
    /\ gLock' = w
    /\ Goto(w, "getid")
    /\ UNCHANGED <<proc, mainVars, localVars, next_request_id, fdTab, netVars,
                   logVars, clientVars, sockVars>>

Lock(w) ==
    /\ Running /\ wpc[w] = "lock"
    /\ gLock = None
    /\ gLock' = w
    /\ Goto(w, "getid")
    /\ UNCHANGED <<proc, mainVars, localVars, next_request_id, fdTab, netVars,
                   logVars, clientVars, sockVars>>

GetId(w) ==
    /\ Running /\ wpc[w] = "getid"
    /\ request_id' = [request_id EXCEPT ![w] = next_request_id]
    /\ Goto(w, "incid")
    /\ UNCHANGED <<proc, mainVars, clientd, inFile, code, buff, conn, idVars,
                   fdTab, netVars, logVars, clientVars, sockVars>>

\* Mutants of IncId: the counter is not advanced; the mutex is not released.
IncIdForgotten(w) ==
    /\ Running /\ wpc[w] = "incid"
    /\ gLock' = None
    /\ Goto(w, "recv")
    /\ UNCHANGED <<proc, mainVars, localVars, next_request_id, fdTab, netVars,
                   logVars, clientVars, sockVars>>

IncIdKeepsLock(w) ==
    /\ Running /\ wpc[w] = "incid"
    /\ next_request_id' = next_request_id + 1
    /\ Goto(w, "recv")
    /\ UNCHANGED <<proc, mainVars, localVars, gLock, fdTab, netVars, logVars,
                   clientVars, sockVars>>

\* The increment, then pthread_mutex_unlock: nothing happens in between.
IncId(w) ==
    /\ Running /\ wpc[w] = "incid"
    /\ next_request_id' = next_request_id + 1
    /\ gLock' = None
    /\ Goto(w, "recv")
    /\ UNCHANGED <<proc, mainVars, localVars, fdTab, netVars, logVars,
                   clientVars, sockVars>>

-----------------------------------------------------------------------------
(* Receiving, logging and checking the request. *)

\* recv() returns the message; or 0 (the client closed, or the socket was
\* shut down before the message came) or an error (the client is gone), and
\* then the loop goes on with the descriptor still open.
Recv(w) ==
    /\ Running /\ wpc[w] = "recv"
    /\ LET c == fdTab[clientd[w]] IN
       \/ /\ c \in Clients /\ cpc[c] \in {"sent", "aborted"}
          /\ buff' = [buff EXCEPT ![w] = c]
          /\ Goto(w, "logtime")
          /\ UNCHANGED <<code, conn>>
       \/ /\ c \in Clients
          /\ cpc[c] \in {"closed", "aborted"} \/ c \in shutSet
          /\ Again(w)
    /\ UNCHANGED <<proc, mainVars, clientd, inFile, request_id, idVars, fdTab,
                   netVars, logVars, clientVars, sockVars>>

\* A log line begins with the request id; who is the connection it is about.
Line(w) == [id |-> request_id[w], who |-> conn[w]]

\* One fputs() to the log; stdio makes each call atomic.  A failed write
\* leaves no line.
LogLine(w) ==
    /\ \/ log' = log \cup {Line(w)}
       \/ "fputs" \in Faults /\ log' = log
    /\ UNCHANGED logOpen

\* strftime(), then the first log line.
LogTime(w) ==
    /\ Running /\ wpc[w] = "logtime"
    /\ \/ LogLine(w) /\ Goto(w, "command") /\ UNCHANGED <<buff, conn, code>>
       \/ "strftime" \in Faults /\ Again(w) /\ UNCHANGED logVars
    /\ UNCHANGED <<proc, mainVars, clientd, inFile, request_id, idVars, fdTab,
                   netVars, clientVars, sockVars>>

\* tok[1][0] and strcmp("HTTP/1.1", tok[2]) read through a pointer that
\* read_command may have left NULL.
NullToken(r) == r.toks < 2 \/ (r.slash /\ r.toks < 3)
BadRequest(r) == ~r.slash \/ ~r.http \/ ~r.read

\* read_command(), the second log line, the validity checks and the dispatch
\* on the method.
ReadCommand(w) ==
    /\ Running /\ wpc[w] = "command"
    /\ LogLine(w)
    /\ LET r == creq[buff[w]] IN
       \/ /\ NullToken(r)
          /\ proc' = "crashed" /\ UNCHANGED <<wpc, code>>
       \/ /\ ~NullToken(r) /\ BadRequest(r)
          /\ code' = [code EXCEPT ![w] = "400"]
          /\ Goto(w, "status") /\ UNCHANGED proc
       \/ /\ ~NullToken(r) /\ ~BadRequest(r)
          /\ code' = [code EXCEPT ![w] = IF r.verb = "other" THEN "501" ELSE "200"]
          /\ Goto(w, IF r.verb \in {"GET", "HEAD"} THEN "fopen" ELSE "status")
          /\ UNCHANGED proc
    /\ UNCHANGED <<mainVars, clientd, inFile, request_id, buff, conn, idVars,
                   fdTab, netVars, clientVars, sockVars>>

\* process_GET and process_HEAD: fopen() fails when the file is missing and
\* also when the descriptor table is full; both are answered 404.
FOpen(w) ==
    /\ Running /\ wpc[w] = "fopen"
    /\ \/ /\ creq[buff[w]].found
          /\ \E f \in Fd :
                /\ LowestFree(f)
                /\ inFile' = [inFile EXCEPT ![w] = f]
                /\ fdTab' = [fdTab EXCEPT ![f] = "file"]
          /\ UNCHANGED code
       \/ /\ ~creq[buff[w]].found \/ NoFreeFd
          /\ code' = [code EXCEPT ![w] = "404"]
          /\ UNCHANGED <<inFile, fdTab>>
    /\ Goto(w, "status")
    /\ UNCHANGED <<proc, mainVars, clientd, request_id, buff, conn, idVars,
                   netVars, logVars, clientVars, sockVars>>

-----------------------------------------------------------------------------
(* Answering. *)

\* send(): the bytes go to whatever connection the descriptor names now.  On
\* a socket that was shut down, or whose peer is gone, the default action of
\* SIGPIPE ends the process; a peer that is gone may also swallow the bytes.
\* Any other failure is printed and ignored.
SendOn(w, piece) ==
    LET c == fdTab[clientd[w]] IN
    \/ /\ c \in Clients /\ c \notin shutSet /\ cpc[c] # "aborted"
       /\ out' = [out EXCEPT ![c] = Append(@, piece)]
       /\ UNCHANGED proc
    \/ /\ c \in Clients => cpc[c] = "aborted"
       /\ UNCHANGED <<proc, out>>
    \/ /\ c \in Clients /\ (c \in shutSet \/ cpc[c] = "aborted")
       /\ proc' = "killed" /\ UNCHANGED out

Verb(w) == creq[buff[w]].verb

\* Mutant of AfterHeader: HEAD falls through to the body of GET.
AfterHeaderHeadBody(w) ==
    IF code[w] = "200" /\ Verb(w) \in {"GET", "TRACE", "HEAD"} THEN "body"
    ELSE "shutdown"

\* Where a handler goes once the header is out.
AfterHeader(w) ==
    IF code[w] = "200" /\ Verb(w) \in {"GET", "TRACE"} THEN "body"
    ELSE IF code[w] = "200" /\ Verb(w) = "HEAD" THEN "fclose"
    ELSE "shutdown"

\* sendHeader: the status line goes to the log first.  If that write fails
\* sendHeader returns at once, without header and without close;
\* process_OPTIONS has its own copy of this code and goes on.
LogStatus(w) ==
    /\ Running /\ wpc[w] = "status"
    /\ \/ /\ log' = log \cup {Line(w)}
          /\ Goto(w, "header")
       \/ /\ "fputs" \in Faults
          /\ UNCHANGED log
          /\ Goto(w, IF code[w] = "200" /\ Verb(w) = "OPTIONS"
                     THEN "header" ELSE AfterHeader(w))
    /\ UNCHANGED <<proc, mainVars, localVars, idVars, fdTab, netVars, logOpen,
                   clientVars, sockVars>>

\* Mutant of SendHeader: closeClient is always honoured.
SendHeaderCloses(w) ==
    /\ Running /\ wpc[w] = "header"
    /\ SendOn(w, code[w])
    /\ Goto(w, "close")
    /\ UNCHANGED <<mainVars, localVars, idVars, fdTab, netVars, logVars,
                   clientVars, shutSet>>

\* The header is sent; sendHeader closes the descriptor afterwards only when
\* closeClient is set, which the two 400 answers do.
SendHeader(w) ==
    /\ Running /\ wpc[w] = "header"
    /\ SendOn(w, code[w])
    /\ Goto(w, IF code[w] = "400" THEN "close" ELSE AfterHeader(w))
    /\ UNCHANGED <<mainVars, localVars, idVars, fdTab, netVars, logVars,
                   clientVars, shutSet>>

\* close(clientd) in sendHeader.
CloseClient(w) ==
    /\ Running /\ wpc[w] = "close"
    /\ shutSet' = shutSet \cup ({fdTab[clientd[w]]} \cap Clients)
    /\ fdTab' = [fdTab EXCEPT ![clientd[w]] = "free"]
    /\ Goto(w, "shutdown")
    /\ UNCHANGED <<proc, mainVars, localVars, idVars, netVars, logVars,
                   clientVars, out>>

\* The file (GET) or the request itself (TRACE) follows the header.  The loop
\* over the file ends at feof() or when send() fails: where a read fails,
\* fgets() returns NULL, feof() stays false and the worker goes round for
\* ever, which changes nothing here.
SendBody(w) ==
    /\ Running /\ wpc[w] = "body"
    /\ Verb(w) = "GET" => creq[buff[w]].readable
    /\ SendOn(w, "body")
    /\ Goto(w, IF Verb(w) = "GET" THEN "fclose" ELSE "shutdown")
    /\ UNCHANGED <<mainVars, localVars, idVars, fdTab, netVars, logVars,
                   clientVars, shutSet>>

FClose(w) ==
    /\ Running /\ wpc[w] = "fclose"
    /\ fdTab' = [fdTab EXCEPT ![inFile[w]] = "free"]
    /\ Goto(w, "shutdown")
    /\ UNCHANGED <<proc, mainVars, localVars, idVars, netVars, logVars,
                   clientVars, sockVars>>

\* Mutant of ShutdownClient: close() instead of shutdown(), which after a 400
\* closes the number a second time.
ShutdownCloses(w) ==
    /\ Running /\ wpc[w] = "shutdown"
    /\ shutSet' = shutSet \cup ({fdTab[clientd[w]]} \cap Clients)
    /\ fdTab' = [fdTab EXCEPT ![clientd[w]] = "free"]
    /\ IF code[w] = "400"
       THEN Again(w)
       ELSE Goto(w, "newline") /\ UNCHANGED <<buff, conn, code>>
    /\ UNCHANGED <<proc, mainVars, clientd, inFile, request_id, idVars,
                   netVars, logVars, clientVars, out>>

\* shutdown(clientd, 2): acts on whatever connection the number names now.
\* The two 400 answers call it too, after sendHeader closed the descriptor,
\* and skip the empty log line.
ShutdownClient(w) ==
    /\ Running /\ wpc[w] = "shutdown"
    /\ shutSet' = shutSet \cup ({fdTab[clientd[w]]} \cap Clients)
    /\ IF code[w] = "400"
       THEN Again(w)
       ELSE Goto(w, "newline") /\ UNCHANGED <<buff, conn, code>>
    /\ UNCHANGED <<proc, mainVars, clientd, inFile, request_id, idVars, fdTab,
                   netVars, logVars, clientVars, out>>

\* fputs("\n", logfile) and back to the top of the loop.
LogNewline(w) ==
    /\ Running /\ wpc[w] = "newline"
    /\ Again(w)
    /\ UNCHANGED <<proc, mainVars, clientd, inFile, request_id, idVars, fdTab,
                   netVars, logVars, clientVars, sockVars>>

WorkerStep(w) ==
    \/ EnterAccept(w) \/ Accept(w) \/ AcceptShut(w)
    \/ Lock(w) \/ GetId(w) \/ IncId(w)
    \/ Recv(w) \/ LogTime(w) \/ ReadCommand(w) \/ FOpen(w)
    \/ LogStatus(w) \/ SendHeader(w) \/ CloseClient(w) \/ SendBody(w)
    \/ FClose(w) \/ ShutdownClient(w) \/ LogNewline(w)

-----------------------------------------------------------------------------
(* The clients. *)

\* connect(): queued while there is room, refused once the server is gone.
Connect(c) ==
    /\ cpc[c] = "idle"
    /\ \/ /\ Running /\ lsock = "listening" /\ Len(backlog) < BACKLOG
          /\ backlog' = Append(backlog, c)
          /\ cpc' = [cpc EXCEPT ![c] = "connected"]
       \/ /\ ~Running \/ lsock = "shut"
          /\ cpc' = [cpc EXCEPT ![c] = "refused"]
          /\ UNCHANGED backlog
    /\ UNCHANGED <<proc, mainVars, wpc, localVars, idVars, fdTab, lsock,
                   logVars, creq, sockVars>>

\* send() of the whole message.
ClientSend(c) ==
    /\ cpc[c] = "connected"
    /\ cpc' = [cpc EXCEPT ![c] = "sent"]
    /\ UNCHANGED <<proc, mainVars, wpc, localVars, idVars, fdTab, netVars,
                   logVars, creq, sockVars>>

\* A browser that opens a connection and closes it without a request.
ClientClose(c) ==
    /\ cpc[c] = "connected" /\ "silent" \in Faults
    /\ cpc' = [cpc EXCEPT ![c] = "closed"]
    /\ UNCHANGED <<proc, mainVars, wpc, localVars, idVars, fdTab, netVars,
                   logVars, creq, sockVars>>

\* A client that dies while it waits for the answer.
ClientAbort(c) ==
    /\ cpc[c] = "sent" /\ "abort" \in Faults
    /\ cpc' = [cpc EXCEPT ![c] = "aborted"]
    /\ UNCHANGED <<proc, mainVars, wpc, localVars, idVars, fdTab, netVars,
                   logVars, creq, sockVars>>

\* recv() returns 0: the answer is complete, or the server is gone.
ClientDone(c) ==
    /\ cpc[c] = "sent"
    /\ c \in shutSet \/ ~Running
    /\ cpc' = [cpc EXCEPT ![c] = "done"]
    /\ UNCHANGED <<proc, mainVars, wpc, localVars, idVars, fdTab, netVars,
                   logVars, creq, sockVars>>

ClientStep(c) ==
    Connect(c) \/ ClientSend(c) \/ ClientClose(c) \/ ClientAbort(c)
    \/ ClientDone(c)

-----------------------------------------------------------------------------
Next ==
    \/ MainStep \/ ReadExit
    \/ \E w \in Workers : WorkerStep(w)
    \/ \E c \in Clients : ClientStep(c)

Spec == Init /\ [][Next]_vars

\* Every created thread keeps running.  Nobody has to connect or to send
\* (client.c waits for its user to type the request), and the user of the
\* server need not type "exit".
Fairness ==
    /\ WF_vars(MainStep)
    /\ \A w \in Workers : WF_vars(WorkerStep(w))

FairSpec == Spec /\ Fairness

-----------------------------------------------------------------------------
(* Properties. *)

TypeOK ==
    /\ proc \in ProcStates
    /\ mpc \in MPC /\ mi \in 0 .. NWORKERS
    /\ wpc \in [Workers -> WPC]
    /\ clientd \in [Workers -> Fd] /\ inFile \in [Workers -> Fd]
    /\ request_id \in [Workers -> Nat]
    /\ code \in [Workers -> Codes]
    /\ buff \in [Workers -> Clients \cup {None}]
    /\ conn \in [Workers -> Clients \cup {None}]
    /\ gLock \in Workers \cup {None} /\ next_request_id \in Nat
    /\ fdTab \in [Fd -> FdUses]
    /\ lsock \in {"listening", "shut"} /\ backlog \in Seq(Clients)
    /\ log \subseteq LogLines
    /\ logOpen \in BOOLEAN
    /\ cpc \in [Clients -> CPC] /\ creq \in [Clients -> Requests]
    /\ shutSet \subseteq Clients /\ out \in [Clients -> Seq(Pieces)]

\* The lines of the log with one request id all come from one connection,
\* although every worker writes lines into the same file in any order: the
\* id is read and advanced under gLock (server.c, "make the assignment of
\* request_id thread safe").
LogAttribution ==
    \A e, f \in log : e.id = f.id => e.who = f.who

\* From accept() to the end of the answer the number in clientd names the
\* connection this worker accepted: no other worker's close() or fopen()
\* takes it away, even though numbers are reused as soon as they are free.
\* (It is not claimed for the shutdown() after a 400, which comes after the
\* close() in sendHeader.)
OwnPCs == {"lock", "getid", "incid", "recv", "logtime", "command",
           "fopen", "status", "header", "close", "body", "fclose"}
OwnDescriptor ==
    \A w \in Workers : wpc[w] \in OwnPCs => fdTab[clientd[w]] = conn[w]

\* What a request must be answered with.
Answer(r) ==
    IF BadRequest(r) THEN <<"400">>
    ELSE CASE r.verb = "GET"     -> IF r.found THEN <<"200", "body">> ELSE <<"404">>
           [] r.verb = "HEAD"    -> IF r.found THEN <<"200">> ELSE <<"404">>
           [] r.verb = "OPTIONS" -> <<"200">>
           [] r.verb = "TRACE"   -> <<"200", "body">>
           [] r.verb = "other"   -> <<"501">>

PrefixOf(s, t) == Len(s) <= Len(t) /\ \A i \in DOMAIN s : s[i] = t[i]

\* So many clients have connected that the descriptor table may be full: the
\* server never closes the descriptor of a request it has served.
Crowded ==
    MaxFd <= Cardinality({c \in Clients : cpc[c] # "idle"}) + NWORKERS

\* Nothing is ever sent on a connection but a beginning of the answer to its
\* own request.  Two things the code does are exempt: an existing file is
\* answered 404 when the descriptor table is full, so never before enough
\* clients have come to fill it (process_GET and process_HEAD take every
\* failure of fopen() for a missing file); and when the log cannot be written
\* sendHeader returns before the header, so the body goes out alone.
OnlyOwnAnswer ==
    \A c \in Clients :
        \/ PrefixOf(out[c], Answer(creq[c]))
        \/ /\ out[c] = <<"404">> /\ Crowded
           /\ creq[c].verb \in {"GET", "HEAD"} /\ ~BadRequest(creq[c])
        \/ "fputs" \in Faults /\ PrefixOf(out[c], Tail(Answer(creq[c])))

\* No worker uses the log after main() closed it: main() joins them first.
LogOpenWhileUsed ==
    \A w \in Workers :
        wpc[w] \in {"logtime", "command", "status", "newline"} => logOpen

\* A client that sees the end of its connection while the server runs has
\* received the whole answer ("otherwise, send the contents back to the
\* client").
ContentsDelivered ==
    \A c \in Clients :
        cpc[c] = "done" /\ Running => out[c] = Answer(creq[c])

\* "otherwise, send the contents back to the client": a client that asked
\* for an existing file, and sees the end of its connection while the server
\* runs, has received the file.
FileSent ==
    \A c \in Clients :
        /\ cpc[c] = "done" /\ Running
        /\ creq[c].verb = "GET" /\ creq[c].found /\ ~BadRequest(creq[c])
        => out[c] = <<"200", "body">>

\* The process does not end through "exit" with an accepted request half
\* served: workers notice the shutdown only in accept().
DrainedOnExit ==
    proc = "done" =>
        \A c \in Clients :
            cpc[c] \in {"sent", "done"} => out[c] = Answer(creq[c])

\* The two ways in which a worker is held up for good: it reads from a file
\* that cannot be read, or it waits for a client that does not send.
Spins(w)  == wpc[w] = "body" /\ Verb(w) = "GET" /\ ~creq[buff[w]].readable
Silent(w) == wpc[w] = "recv" /\ cpc[conn[w]] = "connected"
HeldUp(w) == Spins(w) \/ Silent(w)

\* "(type 'exit' to terminate server)": the server ends after "exit", unless
\* a worker that main() must join is held up for ever.
ExitTerminates ==
    \/ mpc = "shutdown" ~> ~Running
    \/ \E w \in Workers : <>[]HeldUp(w)

\* "process_requests is the pthread function that accepts all of the
\* incoming messages from the client": whoever has sent a request is served
\* or turned away, unless it asked for a file that cannot be read, or every
\* worker is held up for ever by somebody else.
EveryClientServed ==
    \A c \in Clients :
        \/ cpc[c] = "sent" ~> (c \in shutSet \/ cpc[c] = "refused" \/ ~Running)
        \/ \E w \in Workers : <>[](Spins(w) /\ conn[w] = c)
        \/ <>[](\A w \in Workers : HeldUp(w))

-----------------------------------------------------------------------------
(* The inductive invariant behind LogAttribution and OwnDescriptor. *)

\* Where a worker holds a request id that it has logged or will log.
LivePCs == {"recv", "logtime", "command", "fopen", "status", "header",
            "close", "body", "fclose", "shutdown", "newline"}

\* Only created workers run.
CreateInv == mpc = "create" => \A w \in Workers : w >= mi => wpc[w] = "none"

\* gLock is held exactly while the id is read and advanced.
MutexInv == \A w \in Workers : gLock = w <=> wpc[w] \in {"getid", "incid"}

\* Ids in use are below the counter and pairwise different, and the log lines
\* that carry an id in use are about the connection of the worker using it.
IdInv ==
    /\ \A e \in log : e.id < next_request_id
    /\ \A w \in Workers :
          /\ wpc[w] = "incid" => request_id[w] = next_request_id
          /\ wpc[w] \in LivePCs =>
                /\ request_id[w] < next_request_id
                /\ \A e \in log : e.id = request_id[w] => e.who = conn[w]
                /\ \A v \in Workers \ {w} :
                      wpc[v] \in LivePCs => request_id[v] # request_id[w]

\* The worker has a descriptor for a connection, or one reserved for it.
HasConn(w) == wpc[w] \in OwnPCs \cup {"accept"}

\* The worker has the file it serves open.
HasFile(w) ==
    \/ wpc[w] = "fclose"
    \/ /\ wpc[w] \in {"status", "header", "body"}
       /\ code[w] = "200" /\ Verb(w) \in {"GET", "HEAD"}

\* Descriptors in use name what their worker believes, and differ.
FdInv ==
    /\ mpc \in {"create", "wait", "shutdown", "close"} =>
          fdTab[serverd] = "listen"
    /\ \A w \in Workers :
          /\ wpc[w] = "accept" => fdTab[clientd[w]] = "resv"
          /\ wpc[w] \in OwnPCs => conn[w] \in Clients
          /\ wpc[w] = "body" => code[w] = "200"
          /\ HasFile(w) => fdTab[inFile[w]] = "file"
    /\ \A v, w \in Workers :
          v # w => /\ HasConn(v) /\ HasConn(w) => clientd[v] # clientd[w]
                   /\ HasFile(v) /\ HasFile(w) => inFile[v] # inFile[w]

IInv ==
    /\ TypeOK /\ CreateInv /\ MutexInv /\ IdInv /\ LogAttribution
    /\ FdInv /\ OwnDescriptor
=============================================================================
