----------------------------- MODULE CommandIpc -----------------------------
(***************************************************************************)
(* The commands of applications to the server: SubtitleClientLinux and its *)
(* IpcSocket in each application, a local stream socket for each, and the  *)
(* looper thread of SubtitleServiceLinux, which serves them all and owns   *)
(* the one SubtitleService (openConnection always answers session 0).      *)
(* An application calls its client from one thread at a time.              *)
(*                                                                         *)
(* The stream sockets are the kernel's: a socket that is closed with       *)
(* unread data in it resets its peer, which the looper of the peer reports *)
(* as EVENT_ERROR; otherwise the peer reads what is left and then the end. *)
(***************************************************************************)
EXTENDS Naturals, Sequences

CONSTANTS
    Clients,        \* applications
    None,           \* no call, no answer
    Broken,         \* the "-1" that stands for a lost server
    FaultSets       \* what may go wrong: sets of "client" (an application dies in
                    \* the middle of a call) and "server" (the server dies)

\* A command and its answer carry the parity of the call, to tell a call's answer
\* from that of the one before: the code does not number them.
Turns == {0, 1}
Ops == {"openConnection", "open", "close", "closeConnection"}
Command == [op : Ops, turn : Turns]

ASSUME IpcAssumption ==
    /\ FaultSets \subseteq SUBSET {"client", "server"}
    /\ None \notin Turns /\ None \notin Ops /\ None \notin [to : Clients, turn : Turns]
    /\ Broken \notin Turns /\ Broken # None

VARIABLES
    at, op, turn, chan,
        \* per client: its place in sendForResult and in the destructor, the call
        \* and its parity, blockChannel
    fd, looper, held, exitReq,
        \* mListenFd, the looper thread, what its put() waits with, mRequestExit
    toServer, toClient, reset,
        \* the two directions of the socket, closed with data unread
    faults,
        \* the member of FaultSets that this behaviour meets
    up, srvFd, serving, service, started
        \* the server runs, has the connection open, owes a reply; mServiceClients
        \* has an entry; SubtitleService::mStarted

callVars == <<at, op, turn, chan>>
clientVars == <<fd, looper, held, exitReq>>
netVars == <<toServer, toClient, reset>>
serverVars == <<up, srvFd, serving, service, started>>
vars == <<callVars, clientVars, netVars, faults, serverVars>>

IpcInit ==
    /\ at = [c \in Clients |-> "none"] /\ op = [c \in Clients |-> None]
    /\ turn = [c \in Clients |-> 0] /\ chan = [c \in Clients |-> None]
    /\ fd = [c \in Clients |-> "none"]
    /\ looper = [c \in Clients |-> "none"] /\ held = [c \in Clients |-> None]
    /\ exitReq = [c \in Clients |-> FALSE]
    /\ toServer = [c \in Clients |-> <<>>] /\ toClient = [c \in Clients |-> <<>>]
    /\ reset = [c \in Clients |-> FALSE]
    /\ faults \in FaultSets
    /\ up = TRUE /\ srvFd = [c \in Clients |-> "none"] /\ serving = None
    /\ service = FALSE /\ started = FALSE

-----------------------------------------------------------------------------
(* The client library. In "send", "poll" and "wait" sendForResult has put its *)
(* own listener, with its channel, in the place of eventReceiver.            *)

InCall == {"send", "poll", "wait"}

Enter(c, o) ==
    /\ at' = [at EXCEPT ![c] = "send"]
    /\ op' = [op EXCEPT ![c] = o]
    /\ turn' = [turn EXCEPT ![c] = 1 - @]
    /\ chan' = [chan EXCEPT ![c] = None]

\* A client object is made: it connects, starts its looper and calls
\* openConnection.
Create(c) ==
    /\ at[c] = "none" /\ up /\ srvFd[c] = "none"
    /\ fd' = [fd EXCEPT ![c] = "open"] /\ srvFd' = [srvFd EXCEPT ![c] = "open"]
    /\ looper' = [looper EXCEPT ![c] = "test"]
    /\ Enter(c, "openConnection")
    /\ UNCHANGED <<held, exitReq, netVars, up, serving, service, started>>

\* amlsub_Open and amlsub_Close, and ~SubtitleClientLinux with closeConnection.
\* (A setter is a call like these, and leaves the session as it is.)
Call(c, o) ==
    /\ at[c] = "idle" /\ o # "openConnection"
    /\ Enter(c, o)
    /\ UNCHANGED <<clientVars, netVars, serverVars>>

\* The call is over; the destructor goes on to stop the looper, and so does a call
\* that has found the server lost.
Leave(c, lost) ==
    IF lost \/ op[c] = "closeConnection"
    THEN at' = [at EXCEPT ![c] = "exit"] /\ UNCHANGED op
    ELSE at' = [at EXCEPT ![c] = "idle"] /\ op' = [op EXCEPT ![c] = None]

\* send: into the socket, or with no result where the socket is closed or, if the
\* application ignores SIGPIPE (if not, see Die), its peer is.
Send(c) ==
    /\ at[c] = "send"
    /\ IF fd[c] = "open" /\ srvFd[c] = "open"
       THEN /\ toServer' = [toServer EXCEPT ![c] = Append(@, [op |-> op[c], turn |-> turn[c]])]
            /\ at' = [at EXCEPT ![c] = "poll"]
            /\ UNCHANGED <<op, chan>>
       ELSE /\ Leave(c, FALSE)
            /\ chan' = [chan EXCEPT ![c] = None]
            /\ UNCHANGED toServer
    /\ UNCHANGED <<turn, clientVars, toClient, reset, serverVars>>

\* Mutant of Poll: it does not wait for an answer.
Poll_NoWait(c) ==
    /\ at[c] \in {"poll", "wait"}
    /\ Leave(c, chan[c] = Broken)
    /\ chan' = [chan EXCEPT ![c] = None]
    /\ UNCHANGED <<turn, clientVars, netVars, serverVars>>

\* BlockChannel::poll waits while the channel is empty, and takes what the looper
\* has put. Only a poll that did not have to wait wakes a put that does.
Poll(c) ==
    /\ \/ /\ at[c] = "poll" /\ chan[c] = None
          /\ at' = [at EXCEPT ![c] = "wait"]
          /\ UNCHANGED <<op, chan, looper>>
       \/ /\ at[c] \in {"poll", "wait"} /\ chan[c] # None
          /\ Leave(c, chan[c] = Broken)
          /\ chan' = [chan EXCEPT ![c] = None]
          /\ looper' = [looper EXCEPT ![c] =
                IF @ = "put" /\ at[c] = "poll" THEN "woken" ELSE @]
    /\ UNCHANGED <<turn, fd, held, exitReq, netVars, serverVars>>

\* The looper has been told to stop; the destructor joins it.
Stopped(c) ==
    IF op[c] = "closeConnection"
    THEN at' = [at EXCEPT ![c] = "join"] /\ UNCHANGED op
    ELSE at' = [at EXCEPT ![c] = "idle"] /\ op' = [op EXCEPT ![c] = None]

\* EventsTracker::requestExit: the flag, once ...
RequestExit(c) ==
    /\ at[c] = "exit"
    /\ IF exitReq[c] THEN Stopped(c)
       ELSE at' = [at EXCEPT ![c] = "wake"] /\ UNCHANGED op
    /\ exitReq' = [exitReq EXCEPT ![c] = TRUE]
    /\ UNCHANGED <<turn, chan, fd, looper, held, netVars, serverVars>>

\* ... and the wake-up, if the looper is polling at this moment.
Wake(c) ==
    /\ at[c] = "wake"
    /\ looper' = [looper EXCEPT ![c] = IF @ = "polling" THEN "test" ELSE @]
    /\ Stopped(c)
    /\ UNCHANGED <<turn, chan, fd, held, exitReq, netVars, serverVars>>

\* The client is gone and its socket closed: the peer is reset if answers are unread.
Gone(c) ==
    /\ at' = [at EXCEPT ![c] = "none"] /\ op' = [op EXCEPT ![c] = None]
    /\ turn' = [turn EXCEPT ![c] = 0] /\ chan' = [chan EXCEPT ![c] = None]
    /\ looper' = [looper EXCEPT ![c] = "none"] /\ held' = [held EXCEPT ![c] = None]
    /\ exitReq' = [exitReq EXCEPT ![c] = FALSE]
    /\ fd' = [fd EXCEPT ![c] = "closed"]
    /\ toClient' = [toClient EXCEPT ![c] = <<>>]
    /\ reset' = [reset EXCEPT ![c] = fd[c] = "open" /\ toClient[c] # <<>>]
    /\ UNCHANGED <<toServer, serverVars>>

\* join returns once the looper thread has left, then ~IpcSocket closes the socket.
Join(c) == at[c] = "join" /\ looper[c] = "exited" /\ Gone(c)

\* An application dies.
Die(c) ==
    /\ at[c] = "idle" \/ ("client" \in faults /\ at[c] # "none")
    /\ Gone(c)

-----------------------------------------------------------------------------
(* The looper thread of a client: "test" and "enter" come before the poll,   *)
(* "put" waits in BlockChannel::put, "remove" is about to close the socket.  *)

LoopTest(c) ==
    /\ looper[c] = "test"
    /\ looper' = [looper EXCEPT ![c] = IF exitReq[c] THEN "exited" ELSE "enter"]
    /\ UNCHANGED <<callVars, fd, held, exitReq, netVars, serverVars>>

LoopPoll(c) ==
    /\ looper[c] = "enter"
    /\ looper' = [looper EXCEPT ![c] = "polling"]
    /\ UNCHANGED <<callVars, fd, held, exitReq, netVars, serverVars>>

\* The listener: outside a call eventReceiver drops answer a, in a call it goes into
\* the channel. A full channel makes the looper wait.
Listen(c, a, then) ==
    IF at[c] \in InCall /\ chan[c] # None
    THEN /\ looper' = [looper EXCEPT ![c] = "put"]
         /\ held' = [held EXCEPT ![c] = a]
         /\ UNCHANGED chan
    ELSE /\ looper' = [looper EXCEPT ![c] = then]
         /\ chan' = [chan EXCEPT ![c] = IF at[c] \in InCall THEN a ELSE @]
         /\ UNCHANGED held

ClientInput(c) ==
    /\ looper[c] = "polling" /\ fd[c] = "open" /\ ~reset[c] /\ toClient[c] # <<>>
    /\ toClient' = [toClient EXCEPT ![c] = <<>>]
    /\ Listen(c, Head(toClient[c]), "test")
    /\ UNCHANGED <<at, op, turn, fd, exitReq, toServer, reset, serverVars>>

\* Mutant of ClientHangup: the listener ends without an answer.
ClientHangup_Silent(c) ==
    /\ looper[c] = "polling" /\ fd[c] = "open" /\ ~up
    /\ reset[c] \/ toClient[c] = <<>>
    /\ looper' = [looper EXCEPT ![c] = "remove"]
    /\ UNCHANGED <<callVars, fd, held, exitReq, netVars, serverVars>>

\* The server is gone. With commands unread there it is an error, and the listener
\* is not called; otherwise it has read what was left, and gets the end.
ClientHangup(c) ==
    /\ looper[c] = "polling" /\ fd[c] = "open" /\ ~up
    /\ \/ /\ reset[c]
          /\ looper' = [looper EXCEPT ![c] = "remove"]
          /\ UNCHANGED <<chan, held>>
       \/ /\ ~reset[c] /\ toClient[c] = <<>>
          /\ Listen(c, Broken, "remove")
    /\ UNCHANGED <<at, op, turn, fd, exitReq, netVars, serverVars>>

\* A put that was woken; by now its channel may be gone with the call.
PutDone(c) ==
    /\ looper[c] = "woken"
    /\ looper' = [looper EXCEPT ![c] = IF held[c] = Broken THEN "remove" ELSE "test"]
    /\ held' = [held EXCEPT ![c] = None]
    /\ UNCHANGED <<callVars, fd, exitReq, netVars, serverVars>>

LoopRemove(c) ==
    /\ looper[c] = "remove"
    /\ fd' = [fd EXCEPT ![c] = "closed"]
    /\ looper' = [looper EXCEPT ![c] = "test"]
    /\ UNCHANGED <<callVars, held, exitReq, netVars, serverVars>>

-----------------------------------------------------------------------------
(* The server *)

\* SetCmd and SubtitleServer: the one SubtitleService is made by openConnection and
\* goes, with its session, at closeConnection; open needs it.
Execute(o) ==
    /\ service' = (o = "openConnection" \/ (service /\ o # "closeConnection"))
    /\ started' = (service /\ (o = "open" \/ (started /\ o = "openConnection")))

\* eventReceiver executes a command; its answer follows.
ServerInput(c) ==
    /\ up /\ serving = None /\ srvFd[c] = "open" /\ ~reset[c]
    /\ toServer[c] # <<>>
    /\ Execute(Head(toServer[c]).op)
    /\ serving' = [to |-> c, turn |-> Head(toServer[c]).turn]
    /\ toServer' = [toServer EXCEPT ![c] = <<>>]
    /\ UNCHANGED <<callVars, clientVars, toClient, reset, up, srvFd>>

\* What is left when the server is gone: sockets with commands unread are reset.
ServerGone ==
    /\ up' = FALSE
    /\ srvFd' = [c \in Clients |-> "none"] /\ serving' = None
    /\ reset' = [c \in Clients |-> srvFd[c] = "open" /\ toServer[c] # <<>>]
    /\ toServer' = [c \in Clients |-> <<>>]
    /\ service' = FALSE /\ started' = FALSE

\* The reply. Nobody ignores SIGPIPE: a client that is gone takes the server with it.
Reply ==
    /\ serving # None
    /\ IF fd[serving.to] = "open"
       THEN /\ toClient' = [toClient EXCEPT ![serving.to] = Append(@, serving.turn)]
            /\ serving' = None
            /\ UNCHANGED <<toServer, reset, up, srvFd, service, started>>
       ELSE ServerGone /\ UNCHANGED toClient
    /\ UNCHANGED <<callVars, clientVars>>

\* Mutant of OnRemoteDead: nothing is closed.
OnRemoteDead_Ignored == UNCHANGED <<service, started>>

\* onRemoteDead: close, and closeConnection if a session was open.
OnRemoteDead ==
    /\ started' = FALSE
    /\ service' = (service /\ ~started)

\* A client is gone. An error closes the socket and nothing else.
ServerHangup(c) ==
    /\ up /\ serving = None /\ srvFd[c] = "open" /\ fd[c] = "closed"
    /\ \/ reset[c] /\ UNCHANGED <<service, started>>
       \/ ~reset[c] /\ toServer[c] = <<>> /\ OnRemoteDead
    /\ srvFd' = [srvFd EXCEPT ![c] = "none"]
    /\ toServer' = [toServer EXCEPT ![c] = <<>>]
    /\ reset' = [reset EXCEPT ![c] = FALSE]
    /\ UNCHANGED <<callVars, clientVars, toClient, up, serving>>

ServerDie ==
    /\ "server" \in faults /\ up
    /\ ServerGone
    /\ UNCHANGED <<callVars, clientVars, toClient>>

-----------------------------------------------------------------------------
ThreadStep(c) == Send(c) \/ Poll(c) \/ RequestExit(c) \/ Wake(c) \/ Join(c)
LooperStep(c) ==
    \/ LoopTest(c) \/ LoopPoll(c) \/ ClientInput(c) \/ ClientHangup(c)
    \/ PutDone(c) \/ LoopRemove(c)
ServerStep == Reply \/ \E c \in Clients : ServerInput(c) \/ ServerHangup(c)

IpcNext ==
    /\ \/ \E c \in Clients :
            \/ Create(c) \/ Die(c) \/ ThreadStep(c) \/ LooperStep(c)
            \/ \E o \in Ops : Call(c, o)
       \/ ServerStep \/ ServerDie
    /\ UNCHANGED faults

IpcSpec == IpcInit /\ [][IpcNext]_vars

\* Every thread runs on, and the server's looper serves every socket.
IpcFairness ==
    /\ \A c \in Clients :
           /\ WF_vars(ThreadStep(c) /\ UNCHANGED faults)
           /\ WF_vars(LooperStep(c) /\ UNCHANGED faults)
           /\ SF_vars(ServerInput(c) /\ UNCHANGED faults)
    /\ WF_vars(ServerStep /\ UNCHANGED faults)

IpcFairSpec == IpcSpec /\ IpcFairness

-----------------------------------------------------------------------------
(* Properties *)

\* Types; and a client has at most one command or answer under way.
IpcTypeOK ==
    /\ at \in [Clients -> {"none", "idle", "exit", "wake", "join"} \cup InCall]
    /\ op \in [Clients -> Ops \cup {None}] /\ turn \in [Clients -> Turns]
    /\ chan \in [Clients -> Turns \cup {None, Broken}]
    /\ fd \in [Clients -> {"none", "open", "closed"}]
    /\ looper \in [Clients -> {"none", "test", "enter", "polling", "put", "woken",
                               "remove", "exited"}]
    /\ held \in [Clients -> Turns \cup {None, Broken}]
    /\ exitReq \in [Clients -> BOOLEAN]
    /\ toServer \in [Clients -> Seq(Command)] /\ toClient \in [Clients -> Seq(Turns)]
    /\ \A c \in Clients : Len(toServer[c]) + Len(toClient[c]) <= 1
    /\ reset \in [Clients -> BOOLEAN] /\ faults \in FaultSets
    /\ up \in BOOLEAN /\ srvFd \in [Clients -> {"none", "open"}]
    /\ serving \in [to : Clients, turn : Turns] \cup {None}
    /\ service \in BOOLEAN /\ started \in BOOLEAN

\* What poll finds is the server's answer to this very call, or that the server is
\* lost: answers carry no number, and are told apart only by their socket and by
\* the order of the calls.
AnswerIsOwn == \A c \in Clients : chan[c] \in Turns => chan[c] = turn[c]

\* A session that plays belongs to an application: as long as applications die
\* between calls only, somebody's connection is still open at the server, or its end
\* has not been handled yet. (One that dies with an answer unread leaves its session
\* for ever: the error on the socket does not call onRemoteDead.)
SessionHasClient ==
    started /\ "client" \notin faults => \E c \in Clients : srvFd[c] = "open"

\* Every call returns, whatever the other applications do and when the server dies,
\* except the call whose command the dead server had not read: the error on the
\* socket does not call the listener.
CallReturns ==
    \A c \in Clients :
        at[c] \in InCall ~> at[c] \notin InCall \/ (~up /\ reset[c])

\* SubtitleServer::open finds the service that the client's openConnection has made:
\* without it, "no valid ss, Should not enter here!".
OpenFindsService ==
    [][\A c \in Clients :
          ServerInput(c) /\ Head(toServer[c]).op = "open" => service]_vars

=============================================================================
