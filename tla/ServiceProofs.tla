---------------------------- MODULE ServiceProofs ----------------------------
(* The parts of MC_Service, for every value of the constants: the command      *)
(* socket with any number of applications, the parameters of the source, the   *)
(* queue of the callbacks, the drawing thread and the calls of the API. At the *)
(* end, what is proved of each part is carried to the behaviours that the runs *)
(* check.                                                                      *)
EXTENDS MC_Service, SequenceTheorems, TLAPS

-----------------------------------------------------------------------------
(* The command socket: the types, that an answer reaches its own call, and     *)
(* that a session does not outlive the applications                            *)

Serves(c) == serving # None /\ serving.to = c
Waits(c) == at[c] \in {"poll", "wait"} /\ chan[c] = None

\* The types, in parts, without the bound on the messages under way.
CallTypes ==
    /\ at \in [Clients -> {"none", "idle", "exit", "wake", "join"} \cup InCall]
    /\ op \in [Clients -> Ops \cup {None}] /\ turn \in [Clients -> Turns]
    /\ chan \in [Clients -> Turns \cup {None, Broken}]
    /\ \A c \in Clients : at[c] \notin {"none", "idle"} => op[c] \in Ops
ClientTypes ==
    /\ fd \in [Clients -> {"none", "open", "closed"}]
    /\ looper \in [Clients -> {"none", "test", "enter", "polling", "put", "woken",
                               "remove", "exited"}]
    /\ held \in [Clients -> Turns \cup {None, Broken}]
    /\ exitReq \in [Clients -> BOOLEAN]
NetTypes ==
    /\ toServer \in [Clients -> Seq(Command)] /\ toClient \in [Clients -> Seq(Turns)]
    /\ reset \in [Clients -> BOOLEAN] /\ faults \in FaultSets
ServerTypes ==
    /\ up \in BOOLEAN /\ srvFd \in [Clients -> {"none", "open"}]
    /\ serving \in [to : Clients, turn : Turns] \cup {None}
SessionTypes == service \in BOOLEAN /\ started \in BOOLEAN
TypeInv == CallTypes /\ ClientTypes /\ NetTypes /\ ServerTypes /\ SessionTypes

\* A client has one message under way at most, and only while its call waits: a
\* command, the reply to come, or an answer.
OneMessage(c) ==
    /\ Len(toServer[c]) <= 1 /\ Len(toClient[c]) <= 1
    /\ toServer[c] # <<>> => toClient[c] = <<>> /\ ~Serves(c)
    /\ toClient[c] # <<>> => ~Serves(c)
    /\ at[c] # "none" /\ ~Waits(c) => toServer[c] = <<>> /\ ~Serves(c)
    /\ ~Waits(c) => toClient[c] = <<>>

\* It belongs to the call that waits.
OwnMessage(c) ==
    at[c] # "none" =>
        /\ toServer[c] # <<>> => Head(toServer[c]).turn = turn[c]
        /\ toClient[c] # <<>> => Head(toClient[c]) = turn[c]
        /\ Serves(c) => serving.turn = turn[c]
        /\ chan[c] \in Turns => chan[c] = turn[c]

\* What the states of the two ends have to do with each other.
EndsAgree(c) ==
    /\ at[c] = "none" => fd[c] # "open" /\ chan[c] = None
    /\ srvFd[c] = "none" => toServer[c] = <<>> /\ ~Serves(c)
    /\ ~up => srvFd[c] = "none"
    /\ at[c] \notin {"poll", "wait"} => chan[c] \in {None, Broken}
    /\ chan[c] = Broken => ~up
    /\ "client" \notin faults /\ up => ~reset[c]

SocketMessages == \A c \in Clients : OneMessage(c) /\ OwnMessage(c) /\ EndsAgree(c)

IpcInv == TypeInv /\ SocketMessages /\ SessionHasClient

-----------------------------------------------------------------------------
(* Types *)

\* What sending does to a direction of the socket that is empty.
LEMMA AppendToEmpty ==
    ASSUME NEW S, NEW s \in Seq(S), s = <<>>, NEW x \in S
    PROVE  /\ Append(s, x) \in Seq(S) /\ Append(s, x) # <<>>
           /\ Len(Append(s, x)) = 1 /\ Head(Append(s, x)) = x
  OBVIOUS

\* The first message of a direction of the socket is a message.
LEMMA HeadIsMember ==
    ASSUME NEW S, NEW s \in Seq(S), s # <<>>
    PROVE  Head(s) \in S
  OBVIOUS

\* The server starts alone, with everything of its type.
LEMMA TypeInit == IpcInit => TypeInv
<1> SUFFICES ASSUME IpcInit PROVE TypeInv
  OBVIOUS
<1>1. CallTypes /\ ClientTypes
  BY DEF IpcInit, CallTypes, ClientTypes, Turns, InCall
<1>2. NetTypes
  <2>1. <<>> \in Seq(Command) /\ <<>> \in Seq(Turns)
    OBVIOUS
  <2>. QED
    BY <2>1 DEF IpcInit, NetTypes
<1>3. ServerTypes /\ SessionTypes
  BY DEF IpcInit, ServerTypes, SessionTypes
<1>. QED
  BY <1>1, <1>2, <1>3 DEF TypeInv

\* Every action keeps the types.
LEMMA TypeStep == TypeInv /\ [IpcNext]_vars => TypeInv'
<1> SUFFICES ASSUME TypeInv, [IpcNext]_vars PROVE TypeInv'
  OBVIOUS
<1> USE DEF TypeInv, InCall
<1>1. CASE UNCHANGED vars
  <2>1. CallTypes'
    BY <1>1 DEF CallTypes, vars, callVars, clientVars, netVars, serverVars
  <2>2. ClientTypes'
    BY <1>1 DEF ClientTypes, vars, callVars, clientVars, netVars, serverVars
  <2>3. NetTypes'
    BY <1>1 DEF NetTypes, vars, callVars, clientVars, netVars, serverVars
  <2>4. ServerTypes'
    BY <1>1 DEF ServerTypes, vars, callVars, clientVars, netVars, serverVars
  <2>5. SessionTypes'
    BY <1>1 DEF SessionTypes, vars, callVars, clientVars, netVars, serverVars
  <2>. QED
    BY <2>1, <2>2, <2>3, <2>4, <2>5 DEF TypeInv
<1>2. ASSUME NEW c \in Clients, Create(c), UNCHANGED faults PROVE TypeInv'
  <2>1. CallTypes'
    BY <1>2 DEF CallTypes, Create, Enter, Turns, Ops, netVars
  <2>2. ClientTypes'
    BY <1>2 DEF ClientTypes, Create, Enter, Turns, Ops, netVars
  <2>3. NetTypes'
    BY <1>2 DEF NetTypes, Create, Enter, Turns, Ops, netVars
  <2>4. ServerTypes'
    BY <1>2 DEF ServerTypes, Create, Enter, Turns, Ops, netVars
  <2>5. SessionTypes'
    BY <1>2 DEF SessionTypes, Create, Enter, Turns, Ops, netVars
  <2>. QED
    BY <2>1, <2>2, <2>3, <2>4, <2>5 DEF TypeInv
<1>3. ASSUME NEW c \in Clients, NEW o \in Ops, Call(c, o), UNCHANGED faults PROVE TypeInv'
  <2>1. CallTypes'
    BY <1>3 DEF CallTypes, Call, Enter, Turns, clientVars, netVars, serverVars
  <2>2. ClientTypes'
    BY <1>3 DEF ClientTypes, Call, Enter, Turns, clientVars, netVars, serverVars
  <2>3. NetTypes'
    BY <1>3 DEF NetTypes, Call, Enter, Turns, clientVars, netVars, serverVars
  <2>4. ServerTypes'
    BY <1>3 DEF ServerTypes, Call, Enter, Turns, clientVars, netVars, serverVars
  <2>5. SessionTypes'
    BY <1>3 DEF SessionTypes, Call, Enter, Turns, clientVars, netVars, serverVars
  <2>. QED
    BY <2>1, <2>2, <2>3, <2>4, <2>5 DEF TypeInv
<1>4. ASSUME NEW c \in Clients, Send(c), UNCHANGED faults PROVE TypeInv'
  <2>1. [op |-> op[c], turn |-> turn[c]] \in Command
    BY <1>4 DEF Command, Send, CallTypes
  <2>2. Append(toServer[c], [op |-> op[c], turn |-> turn[c]]) \in Seq(Command)
    BY <2>1 DEF NetTypes
  <2>3. CallTypes'
    BY <1>4, <2>1, <2>2 DEF CallTypes, Send, Leave, clientVars, serverVars
  <2>4. ClientTypes'
    BY <1>4, <2>1, <2>2 DEF ClientTypes, Send, Leave, clientVars, serverVars
  <2>5. NetTypes'
    BY <1>4, <2>1, <2>2 DEF NetTypes, Send, Leave, clientVars, serverVars
  <2>6. ServerTypes'
    BY <1>4, <2>1, <2>2 DEF ServerTypes, Send, Leave, clientVars, serverVars
  <2>7. SessionTypes'
    BY <1>4, <2>1, <2>2 DEF SessionTypes, Send, Leave, clientVars, serverVars
  <2>. QED
    BY <2>3, <2>4, <2>5, <2>6, <2>7 DEF TypeInv
<1>5. ASSUME NEW c \in Clients, Poll(c), UNCHANGED faults PROVE TypeInv'
  <2>1. CallTypes'
    BY <1>5 DEF CallTypes, Poll, Leave, netVars, serverVars
  <2>2. ClientTypes'
    BY <1>5 DEF ClientTypes, Poll, Leave, netVars, serverVars
  <2>3. NetTypes'
    BY <1>5 DEF NetTypes, Poll, Leave, netVars, serverVars
  <2>4. ServerTypes'
    BY <1>5 DEF ServerTypes, Poll, Leave, netVars, serverVars
  <2>5. SessionTypes'
    BY <1>5 DEF SessionTypes, Poll, Leave, netVars, serverVars
  <2>. QED
    BY <2>1, <2>2, <2>3, <2>4, <2>5 DEF TypeInv
<1>6. ASSUME NEW c \in Clients, RequestExit(c) \/ Wake(c), UNCHANGED faults PROVE TypeInv'
  <2>1. CallTypes'
    BY <1>6 DEF CallTypes, RequestExit, Wake, Stopped, netVars, serverVars
  <2>2. ClientTypes'
    BY <1>6 DEF ClientTypes, RequestExit, Wake, Stopped, netVars, serverVars
  <2>3. NetTypes'
    BY <1>6 DEF NetTypes, RequestExit, Wake, Stopped, netVars, serverVars
  <2>4. ServerTypes'
    BY <1>6 DEF ServerTypes, RequestExit, Wake, Stopped, netVars, serverVars
  <2>5. SessionTypes'
    BY <1>6 DEF SessionTypes, RequestExit, Wake, Stopped, netVars, serverVars
  <2>. QED
    BY <2>1, <2>2, <2>3, <2>4, <2>5 DEF TypeInv
<1>7. ASSUME NEW c \in Clients, Gone(c), UNCHANGED faults PROVE TypeInv'
  <2>1. CallTypes'
    BY <1>7 DEF CallTypes, Gone, Turns, serverVars
  <2>2. ClientTypes'
    BY <1>7 DEF ClientTypes, Gone, Turns, serverVars
  <2>3. NetTypes'
    BY <1>7 DEF NetTypes, Gone, Turns, serverVars
  <2>4. ServerTypes'
    BY <1>7 DEF ServerTypes, Gone, Turns, serverVars
  <2>5. SessionTypes'
    BY <1>7 DEF SessionTypes, Gone, Turns, serverVars
  <2>. QED
    BY <2>1, <2>2, <2>3, <2>4, <2>5 DEF TypeInv
<1>8. ASSUME NEW c \in Clients,
             LoopTest(c) \/ LoopPoll(c) \/ PutDone(c) \/ LoopRemove(c), UNCHANGED faults
      PROVE  TypeInv'
  <2>1. CallTypes'
    BY <1>8
    DEF CallTypes, LoopTest, LoopPoll, PutDone, LoopRemove, callVars, netVars,
        serverVars
  <2>2. ClientTypes'
    BY <1>8
    DEF ClientTypes, LoopTest, LoopPoll, PutDone, LoopRemove, callVars, netVars,
        serverVars
  <2>3. NetTypes'
    BY <1>8
    DEF NetTypes, LoopTest, LoopPoll, PutDone, LoopRemove, callVars, netVars,
        serverVars
  <2>4. ServerTypes'
    BY <1>8
    DEF ServerTypes, LoopTest, LoopPoll, PutDone, LoopRemove, callVars, netVars,
        serverVars
  <2>5. SessionTypes'
    BY <1>8
    DEF SessionTypes, LoopTest, LoopPoll, PutDone, LoopRemove, callVars, netVars,
        serverVars
  <2>. QED
    BY <2>1, <2>2, <2>3, <2>4, <2>5 DEF TypeInv
<1>9. ASSUME NEW c \in Clients, ClientInput(c), UNCHANGED faults PROVE TypeInv'
  <2>1. Head(toClient[c]) \in Turns
    BY <1>9, HeadIsMember DEF ClientInput, NetTypes
  <2>2. CallTypes'
    BY <1>9, <2>1 DEF CallTypes, ClientInput, Listen, serverVars
  <2>3. ClientTypes'
    BY <1>9, <2>1 DEF ClientTypes, ClientInput, Listen, serverVars
  <2>4. NetTypes'
    BY <1>9, <2>1 DEF NetTypes, ClientInput, Listen, serverVars
  <2>5. ServerTypes'
    BY <1>9, <2>1 DEF ServerTypes, ClientInput, Listen, serverVars
  <2>6. SessionTypes'
    BY <1>9, <2>1 DEF SessionTypes, ClientInput, Listen, serverVars
  <2>. QED
    BY <2>2, <2>3, <2>4, <2>5, <2>6 DEF TypeInv
<1>10. ASSUME NEW c \in Clients, ClientHangup(c), UNCHANGED faults PROVE TypeInv'
  <2>1. CallTypes'
    BY <1>10 DEF CallTypes, ClientHangup, Listen, netVars, serverVars
  <2>2. ClientTypes'
    BY <1>10 DEF ClientTypes, ClientHangup, Listen, netVars, serverVars
  <2>3. NetTypes'
    BY <1>10 DEF NetTypes, ClientHangup, Listen, netVars, serverVars
  <2>4. ServerTypes'
    BY <1>10 DEF ServerTypes, ClientHangup, Listen, netVars, serverVars
  <2>5. SessionTypes'
    BY <1>10 DEF SessionTypes, ClientHangup, Listen, netVars, serverVars
  <2>. QED
    BY <2>1, <2>2, <2>3, <2>4, <2>5 DEF TypeInv
<1>11. ASSUME NEW c \in Clients, ServerInput(c), UNCHANGED faults PROVE TypeInv'
  <2>1. Head(toServer[c]) \in Command
    BY <1>11, HeadIsMember DEF ServerInput, NetTypes
  <2>2. CallTypes'
    BY <1>11, <2>1 DEF CallTypes, ServerInput, Execute, Command, callVars, clientVars
  <2>3. ClientTypes'
    BY <1>11, <2>1 DEF ClientTypes, ServerInput, Execute, Command, callVars, clientVars
  <2>4. NetTypes'
    BY <1>11 DEF NetTypes, ServerInput, callVars, clientVars
  <2>5. ServerTypes'
    BY <1>11, <2>1 DEF ServerTypes, ServerInput, Execute, Command, callVars, clientVars
  <2>6. SessionTypes'
    BY <1>11, <2>1 DEF SessionTypes, ServerInput, Execute, Command, callVars, clientVars
  <2>. QED
    BY <2>2, <2>3, <2>4, <2>5, <2>6 DEF TypeInv
<1>12. ASSUME Reply, UNCHANGED faults PROVE TypeInv'
  <2>1. serving.to \in Clients /\ serving.turn \in Turns
    BY <1>12 DEF Reply, ServerTypes
  <2>2. Append(toClient[serving.to], serving.turn) \in Seq(Turns)
    BY <2>1 DEF NetTypes
  <2>3. CallTypes'
    BY <1>12, <2>1, <2>2 DEF CallTypes, Reply, ServerGone, callVars, clientVars
  <2>4. ClientTypes'
    BY <1>12, <2>1, <2>2 DEF ClientTypes, Reply, ServerGone, callVars, clientVars
  <2>5. NetTypes'
    <3>1. CASE fd[serving.to] = "open"
      BY <1>12, <2>1, <2>2, <3>1 DEF NetTypes, Reply, callVars, clientVars
    <3>2. CASE fd[serving.to] # "open"
      <4>1. ServerGone /\ UNCHANGED <<toClient, faults>>
        BY <1>12, <3>2 DEF Reply
      <4>. QED
        BY <4>1 DEF NetTypes, ServerGone
    <3>. QED
      BY <3>1, <3>2
  <2>6. ServerTypes'
    BY <1>12, <2>1, <2>2 DEF ServerTypes, Reply, ServerGone, callVars, clientVars
  <2>7. SessionTypes'
    BY <1>12, <2>1, <2>2 DEF SessionTypes, Reply, ServerGone, callVars, clientVars
  <2>. QED
    BY <2>3, <2>4, <2>5, <2>6, <2>7 DEF TypeInv
<1>13. ASSUME NEW c \in Clients, ServerHangup(c), UNCHANGED faults PROVE TypeInv'
  <2>1. CallTypes'
    BY <1>13 DEF CallTypes, ServerHangup, OnRemoteDead, callVars, clientVars
  <2>2. ClientTypes'
    BY <1>13 DEF ClientTypes, ServerHangup, OnRemoteDead, callVars, clientVars
  <2>3. NetTypes'
    BY <1>13 DEF NetTypes, ServerHangup, OnRemoteDead, callVars, clientVars
  <2>4. ServerTypes'
    BY <1>13 DEF ServerTypes, ServerHangup, OnRemoteDead, callVars, clientVars
  <2>5. SessionTypes'
    BY <1>13 DEF SessionTypes, ServerHangup, OnRemoteDead, callVars, clientVars
  <2>. QED
    BY <2>1, <2>2, <2>3, <2>4, <2>5 DEF TypeInv
<1>14. ASSUME ServerDie, UNCHANGED faults PROVE TypeInv'
  <2>1. CallTypes'
    BY <1>14 DEF CallTypes, ServerDie, ServerGone, callVars, clientVars
  <2>2. ClientTypes'
    BY <1>14 DEF ClientTypes, ServerDie, ServerGone, callVars, clientVars
  <2>3. NetTypes'
    BY <1>14 DEF NetTypes, ServerDie, ServerGone, callVars, clientVars
  <2>4. ServerTypes'
    BY <1>14 DEF ServerTypes, ServerDie, ServerGone, callVars, clientVars
  <2>5. SessionTypes'
    BY <1>14 DEF SessionTypes, ServerDie, ServerGone, callVars, clientVars
  <2>. QED
    BY <2>1, <2>2, <2>3, <2>4, <2>5 DEF TypeInv
<1>. QED
  BY <1>1, <1>2, <1>3, <1>4, <1>5, <1>6, <1>7, <1>8, <1>9, <1>10, <1>11, <1>12, <1>13, <1>14
  DEF IpcNext, ThreadStep, LooperStep, ServerStep, Join, Die

-----------------------------------------------------------------------------
(* One message under way *)

\* At first nothing is under way.
LEMMA MessagesInit == IpcInit => SocketMessages
<1> SUFFICES ASSUME IpcInit, NEW c \in Clients
             PROVE  OneMessage(c) /\ OwnMessage(c) /\ EndsAgree(c)
  BY DEF SocketMessages
<1>1. toServer[c] = <<>> /\ toClient[c] = <<>> /\ Len(<<>>) = 0 /\ ~Serves(c)
  BY DEF IpcInit, Serves
<1>2. /\ at[c] = "none" /\ fd[c] = "none" /\ chan[c] = None
      /\ up = TRUE /\ reset[c] = FALSE
  BY DEF IpcInit
<1>. QED
  BY <1>1, <1>2, IpcAssumption DEF OneMessage, OwnMessage, EndsAgree

\* Every action keeps the messages in their place: what is under way belongs to
\* the call that waits for it.
LEMMA MessagesStep == TypeInv /\ SocketMessages /\ [IpcNext]_vars => SocketMessages'
<1> SUFFICES ASSUME TypeInv, SocketMessages, [IpcNext]_vars,
                    NEW d \in Clients
             PROVE  (OneMessage(d) /\ OwnMessage(d) /\ EndsAgree(d))'
  BY DEF SocketMessages
<1> DEFINE M == OneMessage(d) /\ OwnMessage(d) /\ EndsAgree(d)
<1>0. M
  BY DEF SocketMessages
<1> USE <1>0, IpcAssumption
        DEF OneMessage, OwnMessage, EndsAgree, Serves, Waits,
            callVars, clientVars, netVars, serverVars
<1>1. CASE UNCHANGED vars
  BY <1>1 DEF vars
<1>2. ASSUME NEW c \in Clients, Create(c), UNCHANGED faults PROVE M'
  <2>1. CASE d = c
    BY <1>2, <2>1
    DEF CallTypes, ClientTypes, NetTypes, ServerTypes, TypeInv, Create, Enter
  <2>2. CASE d # c
    BY <1>2, <2>2
    DEF CallTypes, ClientTypes, NetTypes, ServerTypes, TypeInv, Create, Enter
  <2>. QED
    BY <2>1, <2>2
<1>3. ASSUME NEW c \in Clients, NEW o \in Ops, Call(c, o), UNCHANGED faults PROVE M'
  <2>1. CASE d = c
    BY <1>3, <2>1
    DEF CallTypes, ClientTypes, NetTypes, ServerTypes, TypeInv, Call, Enter
  <2>2. CASE d # c
    BY <1>3, <2>2
    DEF CallTypes, ClientTypes, NetTypes, ServerTypes, TypeInv, Call, Enter
  <2>. QED
    BY <2>1, <2>2
<1>4. ASSUME NEW c \in Clients, Send(c), UNCHANGED faults PROVE M'
  <2> USE DEF CallTypes, ClientTypes, NetTypes, ServerTypes, TypeInv
  <2>1. CASE d = c /\ fd[c] = "open" /\ srvFd[c] = "open"
    <3> DEFINE s == Append(toServer[c], [op |-> op[c], turn |-> turn[c]])
    <3>1. toServer[c] = <<>> /\ toClient[c] = <<>> /\ ~Serves(c) /\ chan[c] = None
      BY <1>4, <2>1 DEF Send
    <3>2. [op |-> op[c], turn |-> turn[c]] \in Command
      BY <1>4 DEF Command, Send
    <3>3. s # <<>> /\ Len(s) = 1 /\ Head(s).turn = turn[c]
      BY <3>1, <3>2, AppendToEmpty
    <3>4. toServer'[c] = s /\ at'[c] = "poll" /\ UNCHANGED <<chan, turn, toClient>>
      BY <1>4, <2>1 DEF Send
    <3>. HIDE DEF s
    <3>5. UNCHANGED <<fd, srvFd, serving, up, reset, faults>>
      BY <1>4 DEF Send
    <3>6. OneMessage(d)'
      <4>1. Len(toServer'[d]) = 1
        BY <2>1, <3>3, <3>4
      <4>2. toClient'[d] = <<>> /\ Len(<<>>) = 0
        BY <2>1, <3>1, <3>4
      <4>3. ~Serves(d)' /\ Waits(d)'
        BY <2>1, <3>1, <3>4, <3>5
      <4>. QED
        BY <4>1, <4>2, <4>3
    <3>7. OwnMessage(d)'
      BY <2>1, <3>1, <3>3, <3>4, <3>5
    <3>8. EndsAgree(d)'
      BY <2>1, <3>1, <3>4, <3>5
    <3>. QED
      BY <3>6, <3>7, <3>8
  <2>2. CASE d = c /\ ~(fd[c] = "open" /\ srvFd[c] = "open")
    BY <1>4, <2>2 DEF Send, Leave
  <2>3. CASE d # c
    BY <1>4, <2>3 DEF Send, Leave
  <2>. QED
    BY <2>1, <2>2, <2>3
<1>5. ASSUME NEW c \in Clients, Poll(c), UNCHANGED faults PROVE M'
  <2>1. CASE d = c
    BY <1>5, <2>1
    DEF CallTypes, ClientTypes, NetTypes, ServerTypes, TypeInv, Poll, Leave, Turns
  <2>2. CASE d # c
    BY <1>5, <2>2
    DEF CallTypes, ClientTypes, NetTypes, ServerTypes, TypeInv, Poll, Leave, Turns
  <2>. QED
    BY <2>1, <2>2
<1>6. ASSUME NEW c \in Clients, RequestExit(c) \/ Wake(c), UNCHANGED faults PROVE M'
  <2>1. CASE d = c
    BY <1>6, <2>1
    DEF CallTypes, ClientTypes, NetTypes, ServerTypes, TypeInv, RequestExit, Wake,
        Stopped, InCall
  <2>2. CASE d # c
    BY <1>6, <2>2
    DEF CallTypes, ClientTypes, NetTypes, ServerTypes, TypeInv, RequestExit, Wake,
        Stopped, InCall
  <2>. QED
    BY <2>1, <2>2
<1>7. ASSUME NEW c \in Clients,
             Gone(c),
             at[c] = "idle" \/ at[c] = "join" \/ "client" \in faults, UNCHANGED faults
      PROVE  M'
  <2>1. CASE d = c
    BY <1>7, <2>1 DEF CallTypes, ClientTypes, NetTypes, ServerTypes, TypeInv, Gone
  <2>2. CASE d # c
    BY <1>7, <2>2 DEF CallTypes, ClientTypes, NetTypes, ServerTypes, TypeInv, Gone
  <2>. QED
    BY <2>1, <2>2
<1>8. ASSUME NEW c \in Clients,
             LoopTest(c) \/ LoopPoll(c) \/ PutDone(c) \/ LoopRemove(c), UNCHANGED faults
      PROVE  M'
  <2>1. CASE d = c
    BY <1>8, <2>1
    DEF CallTypes, ClientTypes, NetTypes, ServerTypes, TypeInv, LoopTest, LoopPoll,
        PutDone, LoopRemove
  <2>2. CASE d # c
    BY <1>8, <2>2
    DEF CallTypes, ClientTypes, NetTypes, ServerTypes, TypeInv, LoopTest, LoopPoll,
        PutDone, LoopRemove
  <2>. QED
    BY <2>1, <2>2
<1>9. ASSUME NEW c \in Clients, ClientInput(c), UNCHANGED faults PROVE M'
  <2>1. CASE d = c
    BY <1>9, <2>1
    DEF CallTypes, ClientTypes, NetTypes, ServerTypes, TypeInv, ClientInput, Listen,
        InCall
  <2>2. CASE d # c
    BY <1>9, <2>2
    DEF CallTypes, ClientTypes, NetTypes, ServerTypes, TypeInv, ClientInput, Listen,
        InCall
  <2>. QED
    BY <2>1, <2>2
<1>10. ASSUME NEW c \in Clients, ClientHangup(c), UNCHANGED faults PROVE M'
  <2>1. CASE d = c
    BY <1>10, <2>1
    DEF CallTypes, ClientTypes, NetTypes, ServerTypes, TypeInv, ClientHangup, Listen,
        InCall
  <2>2. CASE d # c
    BY <1>10, <2>2
    DEF CallTypes, ClientTypes, NetTypes, ServerTypes, TypeInv, ClientHangup, Listen,
        InCall
  <2>. QED
    BY <2>1, <2>2
<1>11. ASSUME NEW c \in Clients, ServerInput(c), UNCHANGED faults PROVE M'
  <2>1. CASE d = c
    BY <1>11, <2>1
    DEF CallTypes, ClientTypes, NetTypes, ServerTypes, TypeInv, ServerInput, Execute
  <2>2. CASE d # c
    BY <1>11, <2>2
    DEF CallTypes, ClientTypes, NetTypes, ServerTypes, TypeInv, ServerInput, Execute
  <2>. QED
    BY <2>1, <2>2
<1>12. ASSUME Reply, UNCHANGED faults PROVE M'
  <2>1. serving.to \in Clients /\ serving.turn \in Turns
    BY <1>12 DEF Reply, ServerTypes, TypeInv
  <2>2. LET s == Append(toClient[serving.to], serving.turn)
        IN  toClient[serving.to] = <<>> => s # <<>> /\ Len(s) = 1 /\ Head(s) = serving.turn
    BY <2>1, AppendToEmpty DEF NetTypes, TypeInv
  <2>3. CASE fd[serving.to] = "open"
    BY <1>12, <2>1, <2>2, <2>3 DEF Reply, SocketMessages, CallTypes, NetTypes, TypeInv
  <2>4. CASE fd[serving.to] # "open"
    <3>1. ServerGone /\ UNCHANGED <<toClient, callVars, clientVars, faults>>
      BY <1>12, <2>4 DEF Reply
    <3>. QED
      BY <3>1 DEF ServerGone, CallTypes, NetTypes, ServerTypes, TypeInv
  <2>. QED
    BY <2>3, <2>4
<1>13. ASSUME NEW c \in Clients, ServerHangup(c), UNCHANGED faults PROVE M'
  <2>1. CASE d = c
    BY <1>13, <2>1
    DEF CallTypes, ClientTypes, NetTypes, ServerTypes, TypeInv, ServerHangup,
        OnRemoteDead
  <2>2. CASE d # c
    BY <1>13, <2>2
    DEF CallTypes, ClientTypes, NetTypes, ServerTypes, TypeInv, ServerHangup,
        OnRemoteDead
  <2>. QED
    BY <2>1, <2>2
<1>14. ASSUME ServerDie, UNCHANGED faults PROVE M'
  BY <1>14 DEF ServerDie, ServerGone
<1>. QED
  BY <1>1, <1>2, <1>3, <1>4, <1>5, <1>6, <1>7, <1>8, <1>9, <1>10, <1>11, <1>12, <1>13, <1>14
  DEF IpcNext, ThreadStep, LooperStep, ServerStep, Join, Die

-----------------------------------------------------------------------------
(* The session *)

\* No step leaves a session without an application: only a hang-up closes the
\* server's end of a connection, and it ends the session unless it is an error.
LEMMA SessionStep ==
    TypeInv /\ SocketMessages /\ SessionHasClient /\ [IpcNext]_vars => SessionHasClient'
<1> SUFFICES ASSUME TypeInv, SocketMessages, SessionHasClient, [IpcNext]_vars
             PROVE  SessionHasClient'
  OBVIOUS
<1>0. UNCHANGED faults
  BY DEF IpcNext, vars
<1> SUFFICES ASSUME started', "client" \notin faults
             PROVE  \E c \in Clients : srvFd'[c] = "open"
  BY <1>0 DEF SessionHasClient
<1> USE DEF callVars, clientVars, netVars, serverVars
<1>1. ASSUME UNCHANGED <<srvFd, started>>
      PROVE  \E c \in Clients : srvFd'[c] = "open"
  BY <1>1 DEF SessionHasClient
<1>2. ASSUME NEW c \in Clients, Create(c)
      PROVE  \E e \in Clients : srvFd'[e] = "open"
  BY <1>2 DEF Create, TypeInv, ServerTypes
<1>3. ASSUME NEW c \in Clients, ServerInput(c)
      PROVE  \E e \in Clients : srvFd'[e] = "open"
  BY <1>3 DEF ServerInput
<1>4. ASSUME NEW c \in Clients, ServerHangup(c)
      PROVE  \E e \in Clients : srvFd'[e] = "open"
  BY <1>4 DEF ServerHangup, OnRemoteDead, SocketMessages, EndsAgree
<1>5. CASE Reply
  BY <1>1, <1>5 DEF Reply, ServerGone
<1>6. CASE ServerDie
  BY <1>6 DEF ServerDie, ServerGone
<1>7. ASSUME NEW c \in Clients,
             \/ ThreadStep(c) \/ LooperStep(c) \/ Die(c)
             \/ \E o \in Ops : Call(c, o)
      PROVE  UNCHANGED <<srvFd, started>>
  BY <1>7
  DEF ThreadStep, Send, Poll, RequestExit, Wake, Join, Gone, Die, Call, LooperStep,
      LoopTest, LoopPoll, ClientInput, ClientHangup, PutDone, LoopRemove
<1>. QED
  BY <1>1, <1>2, <1>3, <1>4, <1>5, <1>6, <1>7 DEF IpcNext, ServerStep, vars

-----------------------------------------------------------------------------
\* The inductive invariant: types, messages in their place, and a client for the
\* session. It holds of every state of CommandIpc.
THEOREM IpcInvariant == IpcSpec => []IpcInv
<1>1. IpcInit => IpcInv
  BY TypeInit, MessagesInit DEF IpcInv, IpcInit, SessionHasClient
<1>2. IpcInv /\ [IpcNext]_vars => IpcInv'
  BY TypeStep, MessagesStep, SessionStep DEF IpcInv
<1>. QED
  BY <1>1, <1>2, PTL DEF IpcSpec

\* Two lengths of which one is 0 and none above 1.
LEMMA SumOfOne ==
    ASSUME NEW m \in Nat, NEW n \in Nat, m = 0 \/ n = 0, m <= 1, n <= 1
    PROVE  m + n <= 1
  OBVIOUS

\* The types, and that a client has one message under way at most: nothing is
\* joined in the stream sockets of the commands.
THEOREM IpcTypesCorrect == IpcSpec => []IpcTypeOK
<1>1. IpcInv => IpcTypeOK
  <2> SUFFICES ASSUME IpcInv PROVE IpcTypeOK
    OBVIOUS
  <2>1. ASSUME NEW c \in Clients
        PROVE  Len(toServer[c]) + Len(toClient[c]) <= 1
    <3>1. Len(toServer[c]) = 0 \/ Len(toClient[c]) = 0
      BY DEF IpcInv, SocketMessages, OneMessage
    <3>2. Len(toServer[c]) \in Nat /\ Len(toClient[c]) \in Nat
      BY DEF IpcInv, TypeInv, NetTypes
    <3>3. Len(toServer[c]) <= 1 /\ Len(toClient[c]) <= 1
      BY DEF IpcInv, SocketMessages, OneMessage
    <3>. QED
      BY <3>1, <3>2, <3>3, SumOfOne
  <2>. QED
    BY <2>1 DEF IpcInv, TypeInv, CallTypes, ClientTypes, NetTypes, ServerTypes,
                SessionTypes, IpcTypeOK
<1>. QED
  BY <1>1, IpcInvariant, PTL

\* Whatever poll finds in its channel is the answer to this very call, or tells that
\* the server is lost: sendForResult does not number its calls and need not.
THEOREM AnswersReachTheirCalls == IpcSpec => []AnswerIsOwn
<1>1. IpcInv => AnswerIsOwn
  BY IpcAssumption DEF IpcInv, SocketMessages, OwnMessage, EndsAgree, AnswerIsOwn
<1>. QED
  BY <1>1, IpcInvariant, PTL

\* As long as applications die between calls only, a session that plays has a
\* connection whose end onRemoteDead will handle.
THEOREM SessionsHaveClients == IpcSpec => []SessionHasClient
<1>1. IpcInv => SessionHasClient
  BY DEF IpcInv
<1>. QED
  BY <1>1, IpcInvariant, PTL

-----------------------------------------------------------------------------
(* The parameters of the service                                               *)

Params == [demuxId : Nat, pid : Nat, flag : Nat]

ParameterTypes ==
    /\ mSubParam \in [Kinds -> Params]
    /\ DOMAIN mSourceParam = {"kind", "param"} /\ DOMAIN mSourceParam.param = {"demuxId", "pid", "flag"}

\* The kind that the setters change is the kind passed on, unless the teletext
\* control has taken over the type
KindChosen == dtvSubType \in Kinds => subType = dtvSubType \/ (subType = "teletext" /\ subType \in Kinds)

\* What the source has of its kind is current, whether or not it is the chosen
\* kind; the pid of SCTE-27 is not passed on
SourceIsCurrent ==
    LET kind == mSourceParam.kind IN
    kind \in Kinds =>
       /\ mSourceParam.param.demuxId = mSubParam[kind].demuxId
       /\ mSourceParam.param.flag = mSubParam[kind].flag
       /\ kind # "scte27" => mSourceParam.param.pid = mSubParam[kind].pid

ParameterInv == ParameterTypes /\ KindChosen /\ SourceIsCurrent

LEMMA KindsAreKinds == "none" \notin Kinds /\ "other" \notin Kinds /\ "invalid" \notin Kinds
BY ServiceParametersAssumption DEF Kinds

LEMMA ParameterInvInit == ServiceInit => ParameterInv
BY KindsAreKinds
   DEF ServiceInit, ParameterInv, ParameterTypes, KindChosen, SourceIsCurrent, NoSource, Params

(* A parameter is set for the chosen kind, and the source is given what holds  *)
(* for the type, unless the type is left out.                                  *)
LEMMA SetKeepsInv ==
    ASSUME ParameterInv, NEW omitted \in SUBSET {"scte27"},
           NEW field \in {"demuxId", "pid", "flag"}, omitted # {} => field = "pid",
           NEW v \in Values,
           mSubParam' = Set(field, v), mSourceParam' = Updated(mSubParam', omitted),
           UNCHANGED <<dtvSubType, subType>>
    PROVE  ParameterInv'
<1>1. v \in Nat
  BY ServiceParametersAssumption
<1>2. mSubParam \in [Kinds -> Params] /\ KindChosen /\ SourceIsCurrent
  BY DEF ParameterInv, ParameterTypes
<1>3. mSubParam' \in [Kinds -> Params]
  <2>1. ASSUME NEW k \in Kinds PROVE [mSubParam EXCEPT ![k][field] = v] \in [Kinds -> Params]
    BY <1>1, <1>2 DEF Params
  <2> QED BY <1>2, <2>1 DEF Set
<1>4. \A k \in Kinds : k # dtvSubType => mSubParam'[k] = mSubParam[k]
  BY <1>2 DEF Set
<1>5. /\ DOMAIN mSourceParam' = {"kind", "param"}
      /\ DOMAIN mSourceParam'.param = {"demuxId", "pid", "flag"}
  <2>1. \A k \in Kinds : DOMAIN mSubParam'[k] = {"demuxId", "pid", "flag"}
    BY <1>3 DEF Params
  <2> QED BY <2>1 DEF Updated, ParameterInv, ParameterTypes
<1>6. KindChosen'
  BY <1>2 DEF KindChosen
<1>7. SourceIsCurrent'
  <2>1. CASE mSourceParam' # mSourceParam
    <3>1. mSourceParam' = [kind |-> subType, param |-> mSubParam'[subType]]
      BY <2>1 DEF Updated
    <3> QED BY <3>1 DEF SourceIsCurrent
  <2>2. CASE mSourceParam' = mSourceParam /\ mSourceParam.kind \in Kinds
    <3> DEFINE kind == mSourceParam.kind
    <3>1. CASE kind # dtvSubType
      BY <1>2, <1>4, <2>2, <3>1 DEF SourceIsCurrent
    <3>2. CASE kind = dtvSubType /\ subType \in Kinds \ omitted
      <4>1. mSourceParam' = [kind |-> subType, param |-> mSubParam'[subType]]
        BY <2>2, <3>2, KindsAreKinds DEF Updated
      <4> QED BY <4>1 DEF SourceIsCurrent
    <3>3. CASE kind = dtvSubType /\ subType \notin Kinds \ omitted
      <4>1. subType = "scte27" /\ kind = "scte27" /\ omitted # {}
        BY <1>2, <2>2, <3>3 DEF KindChosen
      <4>2. field = "pid" /\ mSubParam' = [mSubParam EXCEPT !["scte27"]["pid"] = v]
        BY <2>2, <3>3, <4>1 DEF Set
      <4>3. /\ mSubParam'["scte27"].demuxId = mSubParam["scte27"].demuxId
            /\ mSubParam'["scte27"].flag = mSubParam["scte27"].flag
        BY <1>2, <2>2, <4>1, <4>2 DEF Params
      <4> QED BY <1>2, <2>2, <4>1, <4>3 DEF SourceIsCurrent
    <3> QED BY <3>1, <3>2, <3>3
  <2>3. CASE mSourceParam' = mSourceParam /\ mSourceParam.kind \notin Kinds
    BY <2>3 DEF SourceIsCurrent
  <2> QED BY <2>1, <2>2, <2>3
<1> QED BY <1>3, <1>5, <1>6, <1>7 DEF ParameterInv, ParameterTypes

LEMMA ParameterInvNext == ASSUME ParameterInv, [ServiceNext]_serviceVars PROVE ParameterInv'
<1>1. CASE UNCHANGED serviceVars
  BY <1>1 DEF serviceVars, ParameterInv, ParameterTypes, KindChosen, SourceIsCurrent
<1>2. ASSUME NEW dtv \in DtvKinds \cup {"invalid"}, setSubType(dtv) PROVE ParameterInv'
  <2>1. KindChosen'
    BY <1>2, KindsAreKinds DEF setSubType, TypeOf, KindChosen
  <2> QED BY <1>2, <2>1 DEF setSubType, ParameterInv, ParameterTypes, SourceIsCurrent
<1>3. ASSUME NEW v \in Values, setDemuxId(v) \/ setSecureLevel(v) \/ setSubPid(v)
      PROVE  ParameterInv'
  <2>1. CASE setDemuxId(v)
    BY <2>1, SetKeepsInv DEF setDemuxId
  <2>2. CASE setSecureLevel(v)
    BY <2>2, SetKeepsInv DEF setSecureLevel
  <2>3. CASE setSubPid(v)
    BY <2>3, SetKeepsInv DEF setSubPid
  <2> QED BY <1>3, <2>1, <2>2, <2>3
<1>4. CASE startSource
  <2>1. \A k \in Kinds : DOMAIN mSubParam[k] = {"demuxId", "pid", "flag"}
    BY DEF ParameterInv, ParameterTypes, Params
  <2> QED BY <1>4, <2>1, KindsAreKinds
          DEF startSource, NoSource, ParameterInv, ParameterTypes, KindChosen, SourceIsCurrent
<1>5. CASE "teletext" \in DtvKinds /\ ttControl
  <2>1. KindChosen'
    BY <1>5 DEF ttControl, KindChosen, Kinds
  <2> QED BY <1>5, <2>1 DEF ttControl, ParameterInv, ParameterTypes, SourceIsCurrent
<1>6. CASE stopSource
  BY <1>6, KindsAreKinds
     DEF stopSource, NoSource, ParameterInv, ParameterTypes, KindChosen, SourceIsCurrent
<1> QED BY <1>1, <1>2, <1>3, <1>4, <1>5, <1>6 DEF ServiceNext

(* The source of the chosen kind has the demux, the pid and the secure level   *)
(* last set for it, whatever the order of the setters, the start and the       *)
(* changes of the kind (setDemuxId, setSecureLevel, setSubPid, startSubtitle). *)
THEOREM SourceParametersCurrent == ServiceSpec => []SourceHasParameters
<1>1. ParameterInv => SourceHasParameters
  BY DEF ParameterInv, SourceIsCurrent, SourceHasParameters
<1> QED BY <1>1, ParameterInvInit, ParameterInvNext, PTL DEF ServiceSpec

-----------------------------------------------------------------------------
(* The queue of the callbacks                                                  *)

Entries == [n : Nat, kind : EventKinds \cup {"image"}]
OneEntry == {<<>>} \cup {<<e>> : e \in Entries}

\* What was queued: handed over, taken, or waiting
AllEntries == notified \o entry \o mSubtitleData

CallbackTypes ==
    /\ mSubtitleData \in Seq(Entries) /\ notified \in Seq(Entries) /\ entry \in OneEntry
    /\ posted \in Nat /\ checkNow \in Nat /\ checkLater \in BOOLEAN

\* Entries are numbered as they were queued; the one image that is queued is
\* that in the shared memory
QueuedInOrder ==
    /\ Len(AllEntries) = posted
    /\ \A i \in 1 .. posted : AllEntries[i].n = i
    /\ \A i \in 1 .. posted : AllEntries[i].kind = "image" => shmImage = AllEntries[i].n

MessageIsDue == IF mSubtitleData # <<>> THEN checkNow > 0 ELSE (checkNow > 0 \/ checkLater)

CallbackInv == CallbackTypes /\ QueuedInOrder /\ MessageIsDue

LEMMA CallbackInvInit == CallbackInit => CallbackInv
<1> SUFFICES ASSUME CallbackInit PROVE CallbackInv
  OBVIOUS
<1>1. CallbackTypes
  BY DEF CallbackInit, CallbackTypes, OneEntry
<1>2. AllEntries = <<>>
  BY DEF CallbackInit, AllEntries
<1>3. QueuedInOrder
  BY <1>2 DEF CallbackInit, QueuedInOrder
<1> QED BY <1>1, <1>3 DEF CallbackInit, CallbackInv, MessageIsDue

LEMMA EntriesJoined ==
    ASSUME CallbackTypes
    PROVE  AllEntries \in Seq(Entries) /\ notified \o entry \in Seq(Entries) /\ entry \in Seq(Entries)
<1>1. entry \in Seq(Entries)
  <2> HIDE DEF Entries
  <2>1. CASE entry = <<>>
    BY <2>1
  <2>2. CASE entry # <<>>
    <3>1. PICK e \in Entries : entry = <<e>>
      BY <2>2 DEF CallbackTypes, OneEntry
    <3> QED BY <3>1
  <2> QED BY <2>1, <2>2
<1> QED BY <1>1 DEF CallbackTypes, AllEntries

(* The numbers of the entries depend only on what was queued, and in which     *)
(* order.                                                                      *)
LEMMA SameEntries ==
    ASSUME QueuedInOrder, AllEntries' = AllEntries, UNCHANGED <<posted, shmImage>>
    PROVE  QueuedInOrder'
BY DEF QueuedInOrder

LEMMA PushKeepsInv ==
    ASSUME CallbackInv, NEW kind \in EventKinds \cup {"image"}, Push(kind), UNCHANGED looperState,
           IF kind = "image" THEN shmImage = 0 /\ shmImage' = posted' ELSE shmImage' = shmImage
    PROVE  CallbackInv'
<1> DEFINE e == [n |-> posted + 1, kind |-> kind]
<1>1. /\ CallbackTypes /\ QueuedInOrder
      /\ posted' = posted + 1 /\ mSubtitleData' = Append(mSubtitleData, e)
      /\ checkNow' = checkNow + 1 /\ notified' = notified /\ entry' = entry /\ checkLater' = checkLater
  BY DEF CallbackInv, Push, looperState
<1>2. e \in Entries
  BY <1>1 DEF CallbackTypes, Entries
<1>3. CallbackTypes'
  BY <1>1, <1>2 DEF CallbackTypes
<1>4. AllEntries' = Append(AllEntries, e)
  <2> DEFINE p == notified \o entry
  <2>1. p \in Seq(Entries) /\ mSubtitleData \in Seq(Entries)
    BY <1>1, EntriesJoined DEF CallbackTypes
  <2> HIDE DEF p, e
  <2>2. p \o Append(mSubtitleData, e) = Append(p \o mSubtitleData, e)
    BY <1>2, <2>1
  <2> QED BY <1>1, <2>2 DEF AllEntries, p
<1>5. AllEntries \in Seq(Entries)
  BY <1>1, EntriesJoined
<1> DEFINE s == AllEntries
<1>6. /\ Len(s) = posted /\ \A i \in 1 .. posted : s[i].n = i
      /\ \A i \in 1 .. posted : s[i].kind = "image" => shmImage = s[i].n
  BY <1>1 DEF QueuedInOrder
<1>7. e.n = posted + 1 /\ e.kind = kind /\ posted \in Nat
  BY <1>1 DEF CallbackTypes
<1> HIDE DEF s, e
<1>8. /\ Len(Append(s, e)) = posted + 1
      /\ \A i \in 1 .. posted : Append(s, e)[i] = s[i]
      /\ Append(s, e)[posted + 1] = e
  BY <1>2, <1>5, <1>6, <1>7 DEF s
<1>9. \A i \in 1 .. posted + 1 : Append(s, e)[i].n = i
  BY <1>6, <1>7, <1>8
<1>10. \A i \in 1 .. posted + 1 : Append(s, e)[i].kind = "image" => shmImage' = Append(s, e)[i].n
  <2>1. CASE kind = "image"
    <3>1. \A i \in 1 .. posted : s[i].kind # "image"
      BY <1>6, <1>7, <2>1
    <3> QED BY <1>1, <1>7, <1>8, <2>1, <3>1
  <2>2. CASE kind # "image"
    BY <1>6, <1>7, <1>8, <2>2
  <2> QED BY <2>1, <2>2
<1>11. QueuedInOrder'
  BY <1>1, <1>4, <1>8, <1>9, <1>10, Zenon DEF QueuedInOrder, s
<1>12. MessageIsDue'
  BY <1>1 DEF MessageIsDue, CallbackTypes
<1> QED BY <1>3, <1>11, <1>12 DEF CallbackInv

LEMMA QueueUnchanged ==
    ASSUME CallbackInv, UNCHANGED queueState, UNCHANGED looperState PROVE CallbackInv'
BY DEF CallbackInv, CallbackTypes, QueuedInOrder, MessageIsDue, AllEntries, queueState, looperState

(* An entry that moves from one queue to the end of another stays where it is  *)
(* in the whole.                                                               *)
LEMMA HeadMoved ==
    ASSUME NEW S, NEW n \in Seq(S), NEW m \in Seq(S), m # <<>>
    PROVE  (n \o <<Head(m)>>) \o SubSeq(m, 2, Len(m)) = (n \o <<>>) \o m
<1>1. Len(m) \in Nat \ {0} /\ Head(m) = m[1] /\ <<Head(m)>> \in Seq(S)
  OBVIOUS
<1>2. SubSeq(m, 1, Len(m)) = m
  BY SubSeqFull
<1>3. SubSeq(m, 1, Len(m)) = <<m[1]>> \o SubSeq(m, 2, Len(m))
  <2>1. 1 \in 1 .. Len(m) /\ Len(m) \in 1 .. Len(m) /\ 1 + 1 = 2
    BY <1>1
  <2>2. SubSeq(m, 1, Len(m)) = <<m[1]>> \o SubSeq(m, 1 + 1, Len(m))
    BY <2>1, SubSeqRecursiveFirst
  <2> QED BY <2>2
<1>4. SubSeq(m, 2, Len(m)) \in Seq(S)
  <2>1. \A i \in 2 .. Len(m) : m[i] \in S
    BY <1>1
  <2> QED BY <1>1, <2>1, SubSeqProperties
<1>5. (n \o <<Head(m)>>) \o SubSeq(m, 2, Len(m)) = n \o (<<Head(m)>> \o SubSeq(m, 2, Len(m)))
  <2> DEFINE h == <<Head(m)>>
             t == SubSeq(m, 2, Len(m))
  <2>1. h \in Seq(S) /\ t \in Seq(S)
    BY <1>1, <1>4
  <2> HIDE DEF h, t
  <2>2. (n \o h) \o t = n \o (h \o t)
    BY <2>1, ConcatAssociative
  <2> QED BY <2>2 DEF h, t
<1>6. n \o <<>> = n
  BY ConcatEmptySeq
<1>7. m = <<Head(m)>> \o SubSeq(m, 2, Len(m))
  BY <1>1, <1>2, <1>3
<1> QED BY <1>5, <1>6, <1>7, Zenon

LEMMA HandleKeepsInv == ASSUME CallbackInv, handleMessage PROVE CallbackInv'
<1>1. /\ CallbackTypes /\ QueuedInOrder /\ entry = <<>>
      /\ entry' = IF mSubtitleData = <<>> THEN <<>> ELSE <<Head(mSubtitleData)>>
      /\ mSubtitleData' = SubSeq(mSubtitleData, 2, Len(mSubtitleData))
      /\ checkNow' = IF mSubtitleData' # <<>> THEN 1 ELSE 0
      /\ checkLater' = (mSubtitleData' = <<>>)
      /\ UNCHANGED <<posted, shmImage, notified>>
  BY DEF CallbackInv, handleMessage, Rearm
<1>2. mSubtitleData \in Seq(Entries) /\ notified \in Seq(Entries)
  BY <1>1 DEF CallbackTypes
<1>3. entry' \in OneEntry
  BY <1>1, <1>2 DEF OneEntry
<1>4. mSubtitleData' \in Seq(Entries)
  BY <1>1, <1>2
<1>5. CallbackTypes'
  BY <1>1, <1>3, <1>4 DEF CallbackTypes
<1>6. AllEntries' = AllEntries
  <2> HIDE DEF Entries
  <2>1. CASE mSubtitleData = <<>>
    BY <1>1, <1>2, <2>1 DEF AllEntries
  <2>2. CASE mSubtitleData # <<>>
    <3> QED BY <1>1, <1>2, <2>2, HeadMoved DEF AllEntries
  <2> QED BY <2>1, <2>2
<1>7. QueuedInOrder'
  BY <1>1, <1>6, SameEntries
<1>8. MessageIsDue'
  <2>1. CASE mSubtitleData' # <<>>
    BY <1>1, <2>1 DEF MessageIsDue
  <2>2. CASE mSubtitleData' = <<>>
    BY <1>1, <2>2 DEF MessageIsDue
  <2> QED BY <2>1, <2>2
<1> QED BY <1>5, <1>7, <1>8 DEF CallbackInv

LEMMA NotifyKeepsInv == ASSUME CallbackInv, Notify PROVE CallbackInv'
<1>1. /\ CallbackTypes /\ QueuedInOrder /\ MessageIsDue
      /\ notified' = notified \o entry /\ entry' = <<>>
      /\ UNCHANGED <<mSubtitleData, posted, checkNow, shmImage, checkLater>>
  BY DEF CallbackInv, Notify, queueState
<1>2. notified \o entry \in Seq(Entries) /\ mSubtitleData \in Seq(Entries)
  BY <1>1, EntriesJoined DEF CallbackTypes
<1>3. CallbackTypes'
  BY <1>1, <1>2 DEF CallbackTypes, OneEntry
<1>4. AllEntries' = AllEntries
  <2> DEFINE p == notified \o entry
  <2>1. p \o <<>> = p
    BY <1>2
  <2> QED BY <1>1, <2>1 DEF AllEntries
<1> QED BY <1>1, <1>3, <1>4, SameEntries DEF CallbackInv, MessageIsDue

(* A call of the renderer posts an image, or nothing.                          *)
LEMMA PostsImage ==
    ASSUME NEW subs, postSubtitleData(subs)
    PROVE  \/ Push("image") /\ shmImage = 0 /\ shmImage' = posted'
           \/ UNCHANGED queueState
BY Zenon DEF postSubtitleData, postDisplayData, copyShareMemory

LEMMA CallbackInvNext == ASSUME CallbackInv, [CallbackNext]_callbackVars PROVE CallbackInv'
<1>1. CASE UNCHANGED callbackVars
  BY <1>1, QueueUnchanged DEF callbackVars
<1>2. ASSUME NEW k \in EventKinds, PostEvent(k) PROVE CallbackInv'
  <2>1. k # "image" /\ Push(k) /\ UNCHANGED looperState /\ shmImage' = shmImage
    BY <1>2, CallbackQueueAssumption DEF PostEvent
  <2> QED BY <2>1, PushKeepsInv
<1>3. ASSUME NEW it \in DisplayItems, RemoteShow(it) PROVE CallbackInv'
  <2>1. UNCHANGED looperState /\ \E subs : postSubtitleData(subs)
    BY <1>3 DEF RemoteShow
  <2> QED BY <2>1, PostsImage, PushKeepsInv, QueueUnchanged
<1>4. CASE RemoteClear
  <2>1. UNCHANGED looperState /\ \E subs : postSubtitleData(subs)
    BY <1>4 DEF RemoteClear
  <2> QED BY <2>1, PostsImage, PushKeepsInv, QueueUnchanged
<1>5. ASSUME NEW it \in DisplayItems, RemoteRemove(it) PROVE CallbackInv'
  BY <1>5, QueueUnchanged DEF RemoteRemove
<1> QED BY <1>1, <1>2, <1>3, <1>4, <1>5, HandleKeepsInv, NotifyKeepsInv DEF CallbackNext

(* Every event and image queued is handed over once and in order, a message is *)
(* due while any waits, and an image handed over is the one in the shared      *)
(* memory, for any events, items and number of posts (handleMessage,           *)
(* postDisplayData).                                                           *)
THEOREM EntriesAreHandedOver == CallbackSpec => []EntriesHandedOver
<1>1. CallbackInv => EntriesHandedOver
  <2> SUFFICES ASSUME CallbackInv PROVE EntriesHandedOver
    OBVIOUS
  <2> DEFINE s == AllEntries
  <2>1. s \in Seq(Entries) /\ Len(s) = posted /\ \A i \in 1 .. posted : s[i].n = i
    BY EntriesJoined DEF CallbackInv, QueuedInOrder
  <2>2. \A i \in 1 .. posted : s[i].kind = "image" => shmImage = s[i].n
    BY DEF CallbackInv, QueuedInOrder
  <2>3. [i \in DOMAIN s |-> s[i].n] = [i \in 1 .. posted |-> i]
    <3> HIDE DEF s
    <3>1. DOMAIN s = 1 .. posted
      BY <2>1
    <3> QED BY <2>1, <3>1
  <2>4. \A i \in DOMAIN notified : i \in 1 .. posted /\ s[i] = notified[i]
    <3> DEFINE p == notified \o entry
    <3>1. /\ notified \in Seq(Entries) /\ entry \in Seq(Entries) /\ p \in Seq(Entries)
          /\ mSubtitleData \in Seq(Entries) /\ s = p \o mSubtitleData
      BY EntriesJoined DEF CallbackInv, CallbackTypes, AllEntries
    <3> HIDE DEF s
    <3>2. \A i \in DOMAIN notified : i \in DOMAIN p /\ p[i] = notified[i]
      BY <3>1
    <3> HIDE DEF p
    <3>3. \A i \in DOMAIN p : i \in DOMAIN s /\ s[i] = p[i]
      BY <3>1
    <3>4. DOMAIN s = 1 .. posted
      BY <2>1
    <3> QED BY <3>2, <3>3, <3>4
  <2>5. MessageIsDue
    BY DEF CallbackInv
  <2> QED BY <2>2, <2>3, <2>4, <2>5 DEF EntriesHandedOver, MessageIsDue, AllEntries
<1> QED BY <1>1, CallbackInvInit, CallbackInvNext, PTL DEF CallbackSpec

-----------------------------------------------------------------------------
(* The drawing thread                                                          *)

Messages == {"init", "show", "clear"}

RenderTypes ==
    /\ mShowingSubs \in Seq(RenderItems) /\ drawing \in Seq(RenderItems)
    /\ messages \in Seq(Messages) /\ unsent \in [Callers -> Messages \cup {"none"}]

\* Of the first k items of the list, the last that can be drawn is on the screen
Shows(k) ==
    \A i \in 1 .. k :
       (mShowingSubs[i] \notin Undrawable /\ \A j \in i + 1 .. k : mShowingSubs[j] \in Undrawable)
          => screenShows = mShowingSubs[i]

\* While the list is drawn it does not change: what remains is its end
DrawingIsEnd ==
    drawing # <<>> =>
       /\ ~outdated
       /\ \E k \in Nat :
             /\ Len(mShowingSubs) = k + Len(drawing) /\ Shows(k)
             /\ \A i \in 1 .. Len(drawing) : drawing[i] = mShowingSubs[k + i]

AllSent == messages = <<>> /\ \A c \in Callers : unsent[c] = "none"

\* What the screen shows when it is not drawn and no message is to come
ScreenIsDrawn ==
    device = "ready" /\ AllSent /\ drawing = <<>> /\ ~outdated =>
       /\ mShowingSubs = <<>> => screenShows = "nothing"
       /\ Shows(Len(mShowingSubs))

RenderInv == RenderTypes /\ DrawingIsEnd /\ ScreenIsDrawn

LEMMA RenderInvInit == RenderInit => RenderInv
<1> SUFFICES ASSUME RenderInit PROVE RenderInv
  OBVIOUS
<1>1. /\ mShowingSubs = <<>> /\ drawing = <<>> /\ device = "none"
      /\ unsent = [c \in Callers |-> "none"]
  BY DEF RenderInit
<1>2. messages \in Seq(Messages)
  BY DEF RenderInit, Messages
<1>3. RenderTypes
  BY <1>1, <1>2 DEF RenderTypes
<1> QED BY <1>1, <1>3 DEF RenderInv, DrawingIsEnd, ScreenIsDrawn

LEMMA WithoutIsList ==
    ASSUME mShowingSubs \in Seq(RenderItems), NEW item
    PROVE  Without(item) \in Seq(RenderItems)
<1> DEFINE s == mShowingSubs
           i == CHOOSE j \in DOMAIN s : s[j] = item
<1>1. CASE item \in Range(s)
  <2>1. i \in DOMAIN s
    BY <1>1 DEF Range
  <2>2. i \in Nat /\ Len(s) \in Nat /\ i >= 1 /\ i <= Len(s)
    BY <2>1
  <2> HIDE DEF i
  <2>3. \A j \in 1 .. i - 1 : s[j] \in RenderItems
    BY <2>2
  <2>4. \A j \in i + 1 .. Len(s) : s[j] \in RenderItems
    BY <2>2
  <2>5. SubSeq(s, 1, i - 1) \in Seq(RenderItems)
    BY <2>2, <2>3, SubSeqProperties
  <2>6. SubSeq(s, i + 1, Len(s)) \in Seq(RenderItems)
    BY <2>2, <2>4, SubSeqProperties
  <2>7. RemoveAt(s, i) \in Seq(RenderItems)
    BY <2>5, <2>6 DEF RemoveAt
  <2> QED BY <1>1, <2>7 DEF Without, i
<1>2. CASE item \notin Range(s)
  BY <1>2 DEF Without
<1> QED BY <1>1, <1>2

(* A call that changes the list has a message to send, or leaves the screen    *)
(* outdated, unless the list is what it was.                                   *)
LEMMA ChangeKeepsInv ==
    ASSUME RenderInv, NEW c \in Callers, NEW list \in Seq(RenderItems),
           NEW m \in {"show", "clear", "none"}, Change(c, list, m),
           m = "none" => outdated' = (outdated \/ mShowingSubs' # mShowingSubs)
    PROVE  RenderInv'
<1>1. /\ RenderTypes /\ ScreenIsDrawn /\ drawing = <<>>
      /\ mShowingSubs' = list /\ unsent' = [unsent EXCEPT ![c] = m] /\ unsent[c] = "none"
      /\ UNCHANGED <<messages, device, drawing, screenShows>>
  BY DEF RenderInv, Change
<1>2. unsent' \in [Callers -> Messages \cup {"none"}] /\ unsent'[c] = m
  BY <1>1 DEF RenderTypes, Messages
<1>3. RenderTypes'
  BY <1>1, <1>2 DEF RenderTypes
<1>4. DrawingIsEnd'
  BY <1>1 DEF DrawingIsEnd
<1>5. ScreenIsDrawn'
  <2>1. CASE m # "none"
    BY <1>2, <2>1 DEF ScreenIsDrawn, AllSent
  <2>2. CASE m = "none"
    <3>1. unsent' = unsent
      BY <1>1, <2>2 DEF RenderTypes
    <3> QED BY <1>1, <2>2, <3>1 DEF ScreenIsDrawn, AllSent, Shows
  <2> QED BY <2>1, <2>2
<1> QED BY <1>3, <1>4, <1>5 DEF RenderInv

LEMMA MessageSent ==
    ASSUME RenderInv, NEW c \in Callers, sendMessage(c) PROVE RenderInv'
<1>1. /\ RenderTypes /\ DrawingIsEnd /\ unsent[c] # "none"
      /\ messages' = Append(messages, unsent[c]) /\ unsent' = [unsent EXCEPT ![c] = "none"]
      /\ UNCHANGED <<mShowingSubs, device, drawing, screenShows, outdated>>
  BY DEF RenderInv, sendMessage
<1>2. unsent[c] \in Messages /\ unsent' \in [Callers -> Messages \cup {"none"}]
  BY <1>1 DEF RenderTypes
<1>3. messages' \in Seq(Messages) /\ messages' # <<>>
  <2> HIDE DEF Messages
  <2> QED BY <1>1, <1>2 DEF RenderTypes
<1>4. RenderTypes'
  BY <1>1, <1>2, <1>3 DEF RenderTypes
<1>5. DrawingIsEnd'
  BY <1>1 DEF DrawingIsEnd, Shows
<1> QED BY <1>3, <1>4, <1>5 DEF RenderInv, ScreenIsDrawn, AllSent

(* A message is handled: the screen is cleared, or the list begins to be drawn. *)
LEMMA MessageHandled ==
    ASSUME RenderInv, initDevice \/ clearScreen \/ drawItems PROVE RenderInv'
<1>1. RenderTypes /\ drawing = <<>> /\ messages # <<>> /\ UNCHANGED <<mShowingSubs, unsent>>
  BY DEF RenderInv, initDevice, clearScreen, drawItems, Handles
<1>2. Tail(messages) \in Seq(Messages) /\ Append(Tail(messages), "clear") \in Seq(Messages)
      /\ <<>> \in Seq(Messages) /\ Append(Tail(messages), "clear") # <<>>
  <2> DEFINE t == Tail(messages)
  <2>1. "clear" \in Messages
    BY DEF Messages
  <2>2. t \in Seq(Messages)
    BY <1>1 DEF RenderTypes
  <2> HIDE DEF t, Messages
  <2>3. Append(t, "clear") \in Seq(Messages) /\ Append(t, "clear") # <<>>
    BY <2>1, <2>2
  <2>4. <<>> \in Seq(Messages)
    OBVIOUS
  <2> QED BY <2>2, <2>3, <2>4 DEF t
<1>3. CASE initDevice
  <2>1. RenderTypes'
    BY <1>1, <1>2, <1>3 DEF initDevice, RenderTypes
  <2>2. DrawingIsEnd'
    BY <1>1, <1>3 DEF initDevice, DrawingIsEnd
  <2>3. ScreenIsDrawn'
    BY <1>2, <1>3 DEF initDevice, ScreenIsDrawn, AllSent
  <2> QED BY <2>1, <2>2, <2>3 DEF RenderInv
<1>4. CASE clearScreen
  <2>1. RenderTypes'
    BY <1>1, <1>2, <1>4 DEF clearScreen, RenderTypes
  <2>2. DrawingIsEnd'
    BY <1>1, <1>4 DEF clearScreen, DrawingIsEnd
  <2>3. ScreenIsDrawn'
    <3>1. ~outdated' => mShowingSubs' = <<>>
      BY <1>4 DEF clearScreen
    <3>2. screenShows' = "nothing"
      BY <1>4 DEF clearScreen
    <3> QED BY <3>1, <3>2 DEF ScreenIsDrawn, Shows
  <2> QED BY <2>1, <2>2, <2>3 DEF RenderInv
<1>5. CASE drawItems
  <2>1. /\ messages' = Tail(messages) /\ outdated' = FALSE /\ drawing' = mShowingSubs
        /\ screenShows' = IF mShowingSubs = <<>> THEN "nothing" ELSE screenShows
    BY <1>5 DEF drawItems
  <2>2. RenderTypes'
    BY <1>1, <1>2, <2>1 DEF RenderTypes
  <2>3. DrawingIsEnd'
    <3>1. Shows(0)'
      BY DEF Shows
    <3>2. Len(mShowingSubs') = 0 + Len(drawing')
      BY <1>1, <2>1 DEF RenderTypes
    <3>3. \A i \in 1 .. Len(drawing') : drawing'[i] = mShowingSubs'[0 + i]
      BY <1>1, <2>1 DEF RenderTypes
    <3> QED BY <2>1, <3>1, <3>2, <3>3 DEF DrawingIsEnd
  <2>4. ScreenIsDrawn'
    BY <1>1, <2>1 DEF ScreenIsDrawn, Shows
  <2> QED BY <2>2, <2>3, <2>4 DEF RenderInv
<1> QED BY <1>3, <1>4, <1>5

(* An item is drawn over what was there, unless it cannot be drawn.            *)
LEMMA ImageDrawn == ASSUME RenderInv, drawImage PROVE RenderInv'
<1>1. /\ RenderTypes /\ DrawingIsEnd /\ drawing # <<>> /\ drawing' = Tail(drawing)
      /\ screenShows' = IF Head(drawing) \in Undrawable THEN screenShows ELSE Head(drawing)
      /\ UNCHANGED <<mShowingSubs, unsent, messages, device, outdated>>
  BY DEF RenderInv, drawImage
<1>2. PICK k \in Nat :
         /\ Len(mShowingSubs) = k + Len(drawing) /\ Shows(k)
         /\ \A i \in 1 .. Len(drawing) : drawing[i] = mShowingSubs[k + i]
  BY <1>1 DEF DrawingIsEnd
<1> DEFINE n == Len(drawing)
<1>3. /\ n \in Nat /\ n >= 1 /\ Head(drawing) = drawing[1] /\ drawing' \in Seq(RenderItems)
      /\ Len(drawing') = n - 1 /\ \A i \in 1 .. n - 1 : drawing'[i] = drawing[i + 1]
  BY <1>1, HeadTailProperties DEF RenderTypes
<1>4. Head(drawing) = mShowingSubs[k + 1]
  BY <1>2, <1>3
<1>5. RenderTypes'
  BY <1>1, <1>3 DEF RenderTypes
<1> HIDE DEF n
<1>6. Shows(k + 1)'
  <2> SUFFICES ASSUME NEW i \in 1 .. k + 1, mShowingSubs[i] \notin Undrawable,
                      \A j \in i + 1 .. k + 1 : mShowingSubs[j] \in Undrawable
               PROVE  screenShows' = mShowingSubs[i]
    BY <1>1 DEF Shows
  <2>1. CASE i = k + 1
    BY <1>1, <1>4, <2>1
  <2>2. CASE i # k + 1
    <3>1. i \in 1 .. k /\ k + 1 \in i + 1 .. k + 1
      BY <2>2
    <3>2. screenShows' = screenShows
      BY <1>1, <1>4, <3>1
    <3>3. \A j \in i + 1 .. k : mShowingSubs[j] \in Undrawable
      BY <3>1
    <3> QED BY <1>2, <3>1, <3>2, <3>3 DEF Shows
  <2> QED BY <2>1, <2>2
<1>7. Len(mShowingSubs') = (k + 1) + Len(drawing')
  BY <1>1, <1>2, <1>3 DEF n
<1>8. \A i \in 1 .. Len(drawing') : drawing'[i] = mShowingSubs'[(k + 1) + i]
  <2> SUFFICES ASSUME NEW i \in 1 .. n - 1 PROVE drawing'[i] = mShowingSubs[(k + 1) + i]
    BY <1>1, <1>3
  <2>1. i + 1 \in 1 .. n /\ k + (i + 1) = (k + 1) + i
    BY <1>3
  <2> QED BY <1>2, <1>3, <2>1 DEF n
<1>9. DrawingIsEnd'
  BY <1>1, <1>6, <1>7, <1>8 DEF DrawingIsEnd
<1>10. ScreenIsDrawn'
  <2> SUFFICES ASSUME drawing' = <<>> PROVE ScreenIsDrawn'
    BY DEF ScreenIsDrawn
  <2>1. Len(mShowingSubs') = k + 1
    BY <1>7
  <2>2. mShowingSubs' # <<>>
    BY <2>1
  <2> QED BY <1>6, <2>1, <2>2 DEF ScreenIsDrawn
<1> QED BY <1>5, <1>9, <1>10 DEF RenderInv

LEMMA RenderInvNext == ASSUME RenderInv, [RenderNext]_renderVars PROVE RenderInv'
<1>1. CASE UNCHANGED renderVars
  BY <1>1 DEF renderVars, RenderInv, RenderTypes, DrawingIsEnd, ScreenIsDrawn, AllSent, Shows
<1>2. mShowingSubs \in Seq(RenderItems)
  BY DEF RenderInv, RenderTypes
<1>3. ASSUME NEW item \in RenderItems,
             showSubtitleItem(item) \/ hideSubtitleItem(item) \/ removeSubtitleItem(item)
      PROVE  RenderInv'
  <2>1. Append(mShowingSubs, item) \in Seq(RenderItems) /\ Without(item) \in Seq(RenderItems)
    BY <1>2, WithoutIsList
  <2>2. "looper" \in Callers
    BY DEF Callers
  <2>3. CASE showSubtitleItem(item)
    BY <2>1, <2>2, <2>3, ChangeKeepsInv DEF showSubtitleItem
  <2>4. CASE hideSubtitleItem(item)
    BY <2>1, <2>2, <2>4, ChangeKeepsInv DEF hideSubtitleItem
  <2>5. CASE removeSubtitleItem(item)
    BY <2>1, <2>2, <2>5, ChangeKeepsInv DEF removeSubtitleItem
  <2> QED BY <1>3, <2>3, <2>4, <2>5
<1>4. ASSUME NEW c \in Callers, resetSubtitleItem(c) PROVE RenderInv'
  <2>1. <<>> \in Seq(RenderItems)
    OBVIOUS
  <2> QED BY <1>4, <2>1, ChangeKeepsInv DEF resetSubtitleItem
<1>5. CASE onThreadExit
  BY <1>5 DEF onThreadExit, RenderInv, RenderTypes, DrawingIsEnd, ScreenIsDrawn, AllSent, Shows
<1> QED BY <1>1, <1>3, <1>4, <1>5, MessageSent, MessageHandled, ImageDrawn
        DEF RenderNext, PresentationCall, RenderStep

(* When all is sent and drawn, the last item of the list that can be drawn is  *)
(* on the screen, and nothing for an empty list, for any items, any of which   *)
(* cannot be drawn, and any bound on the messages (WLRender, FBRender,         *)
(* DFBRender).                                                                 *)
THEOREM ScreenIsLastOfList == RenderSpec => []ScreenFollowsList
<1>1. RenderInv => ScreenFollowsList
  <2> SUFFICES ASSUME RenderInv, device = "ready", messages = <<>>,
                      \A c \in Callers : unsent[c] = "none", drawing = <<>>, ~outdated
               PROVE  /\ mShowingSubs = <<>> => screenShows = "nothing"
                      /\ \A i \in DOMAIN mShowingSubs :
                            IsLastDrawable(mShowingSubs, i) => screenShows = mShowingSubs[i]
    BY DEF ScreenFollowsList
  <2>1. (mShowingSubs = <<>> => screenShows = "nothing") /\ Shows(Len(mShowingSubs))
    BY DEF RenderInv, ScreenIsDrawn, AllSent
  <2>2. DOMAIN mShowingSubs = 1 .. Len(mShowingSubs) /\ Len(mShowingSubs) \in Nat
    BY DEF RenderInv, RenderTypes
  <2>3. ASSUME NEW i \in DOMAIN mShowingSubs, IsLastDrawable(mShowingSubs, i)
        PROVE  screenShows = mShowingSubs[i]
    <3> DEFINE n == Len(mShowingSubs)
    <3> HIDE DEF n
    <3>1. i \in 1 .. n /\ \A j \in i + 1 .. n : j \in DOMAIN mShowingSubs /\ j > i
      BY <2>2 DEF n
    <3> QED BY <2>1, <2>3, <3>1 DEF Shows, IsLastDrawable, n
  <2> QED BY <2>1, <2>3
<1> QED BY <1>1, RenderInvInit, RenderInvNext, PTL DEF RenderSpec

-----------------------------------------------------------------------------
(* The calls of the API                                                        *)

ServiceFields == {"session", "started", "dtvSubType", "subType", "pid", "dmx", "ChannelID", "comp",
                  "anc", "magazine", "pageNo", "event", "renderType", "afd", "player"}

ServiceTypes(s) ==
    /\ DOMAIN s = ServiceFields /\ DOMAIN s.pid = PidTypes /\ DOMAIN s.dmx = PidTypes
    /\ s.session \in BOOLEAN /\ s.started \in BOOLEAN

ApiTypes ==
    /\ DOMAIN apiCall = ApiHandles /\ DOMAIN returned = ApiHandles
    /\ DOMAIN wantedRender = ApiHandles
    /\ \A h \in ApiHandles : DOMAIN apiCall[h] = {"name", "param", "todo", "answers"}
    /\ \A h \in ApiHandles : apiCall[h].name = "none" => apiCall[h] = NoCall
    /\ ServiceTypes(srv)

\* The commands of amlsub_Open
OpenCommands(h, p) ==
    <<userDataOpenCmd, setSubTypeCmd(p.type), setSubPidCmd(p.pid), setChannelIdCmd(p.channel),
      setClosedCaptionVfmtCmd, applyRenderTypeCmd(h), openCmd([dmx |-> p.dmx]),
      setPageIdCmd(p.comp), setAncPageIdCmd(p.anc)>>

\* What the server s has of p after k of them, the seventh with success if
\* opened. Without a service, nothing is kept
HasOf(p, s, k, opened) ==
    /\ k >= 1 /\ s.session => s.afd
    /\ k >= 2 /\ s.session => s.dtvSubType = p.type
    /\ k >= 3 /\ s.session /\ p.type \in PidTypes => s.pid[p.type] = p.pid
    /\ opened => /\ s.session /\ s.started
                 /\ p.type \in PidTypes /\ p.dmx >= 0 => s.dmx[p.type] = p.dmx
    /\ k >= 8 /\ s.session => /\ p.type = "dvb" => s.comp = p.comp
                              /\ p.type = "teletext" => s.magazine = p.comp
    /\ k >= 9 /\ s.session => /\ p.type = "dvb" => s.anc = p.anc
                              /\ p.type = "teletext" => s.pageNo = p.anc

Answers == {-1, OK, FAIL}

Opened(ans) == Len(ans) >= 7 /\ ans[7] = OK

\* What the answers to h tell of the server
Outcome(h, p, ans) ==
    /\ ans \in Seq(Answers) /\ Len(ans) <= 9
    /\ IF h \in lostConnection THEN \A i \in 1 .. Len(ans) : ans[i] = -1
       ELSE HasOf(p, srv, Len(ans), Opened(ans))

OnItsWay(h) ==
    LET c == apiCall[h] IN
    /\ Outcome(h, c.param, c.answers)
    /\ c.todo = SubSeq(OpenCommands(h, c.param), Len(c.answers) + 1, 9)

HasEnded(h) ==
    LET r == returned[h] IN
    Outcome(h, r.param, r.answers) /\ Len(r.answers) = 9 /\ r.status = "OK"

OpenIsKept(h) ==
    /\ apiCall[h].name = "Open" => OnItsWay(h)
    /\ apiCall[h].name = "none" /\ returned[h].name = "Open" => HasEnded(h)

HandlesOnly == undisturbed \subseteq ApiHandles

ApiInv == ApiTypes /\ \A h \in undisturbed \cap ApiHandles : OpenIsKept(h)

LEMMA NewServiceTypes == ServiceTypes(NewService) /\ ServiceTypes([NewService EXCEPT !.session = FALSE])
BY DEF NewService, ServiceTypes, ServiceFields

LEMMA ApiInvInit == ApiInit => ApiInv
BY NewServiceTypes DEF ApiInit, ApiInv, ApiTypes, NoCall

(* Whatever the command, the server keeps the fields of its service.           *)
LEMMA ServiceStaysTyped ==
    ASSUME ServiceTypes(srv), NEW c
    PROVE  ServiceTypes(ParserSubtitleCommand(c).srv)
<1>1. ASSUME NEW event, NEW magazine, NEW page PROVE ServiceTypes(TtControl(event, magazine, page))
  BY DEF TtControl, ServiceTypes, ServiceFields
<1>2. ASSUME NEW s, ServiceTypes(s) PROVE ServiceTypes(Setter(s).srv) /\ ServiceTypes(With(s).srv)
  BY <1>2 DEF Setter, With, To
<1>3. ASSUME NEW id PROVE ServiceTypes(SetSubPageId(id).srv)
  <2>1. ServiceTypes(CASE srv.dtvSubType = "dvb" -> [srv EXCEPT !.comp = id]
                       [] srv.dtvSubType = "teletext" -> [srv EXCEPT !.magazine = id]
                       [] OTHER -> srv)
    BY DEF ServiceTypes, ServiceFields
  <2> QED BY <1>2, <2>1 DEF SetSubPageId
<1>4. ASSUME NEW id PROVE ServiceTypes(SetSubAncPageId(id).srv)
  <2>1. ServiceTypes(CASE srv.dtvSubType = "dvb" -> [srv EXCEPT !.anc = id]
                       [] srv.dtvSubType = "teletext" -> [srv EXCEPT !.pageNo = id]
                       [] OTHER -> srv)
    BY DEF ServiceTypes, ServiceFields
  <2> QED BY <1>2, <2>1 DEF SetSubAncPageId
<1>5. ASSUME NEW pid PROVE ServiceTypes(SetSubPid(pid).srv)
  <2>1. ServiceTypes(IF srv.dtvSubType \in PidTypes
                     THEN [srv EXCEPT !.pid[srv.dtvSubType] = pid] ELSE srv)
    BY DEF ServiceTypes, ServiceFields
  <2> QED BY <1>2, <2>1 DEF SetSubPid
<1>6. ASSUME NEW io PROVE ServiceTypes(ServerOpen(io).srv)
  BY DEF ServerOpen, To, ServiceTypes, ServiceFields
<1>7. ServiceTypes(ServerClose.srv)
  BY DEF ServerClose, To, stopSubtitle, ServiceTypes, ServiceFields
<1>8. ServiceTypes(ServerOpenConnection.srv) /\ ServiceTypes(ServerCloseConnection.srv)
  BY NewServiceTypes DEF ServerOpenConnection, ServerCloseConnection, To
<1>9. ServiceTypes(UpdateVideoPos.srv) /\ ServiceTypes(To(srv, 0).srv)
  BY DEF UpdateVideoPos, To
<1>10. ASSUME NEW v
       PROVE  /\ ServiceTypes([srv EXCEPT !.ChannelID = v]) /\ ServiceTypes([srv EXCEPT !.afd = v])
              /\ ServiceTypes([srv EXCEPT !.dtvSubType = v, !.subType = v])
              /\ ServiceTypes([srv EXCEPT !.renderType = v]) /\ ServiceTypes([srv EXCEPT !.player = v])
  BY DEF ServiceTypes, ServiceFields
<1> HIDE DEF ServiceTypes
<1>11. ServiceTypes(SetCmd(c).srv)
  BY <1>2, <1>3, <1>4, <1>5, <1>6, <1>7, <1>8, <1>9, <1>10 DEF SetCmd
<1>12. ServiceTypes(To(TtControl(Arg(c, 2), Arg(c, 3), Arg(c, 4)), 0).srv)
  BY <1>1 DEF To
<1> QED BY <1>11, <1>12 DEF ParserSubtitleCommand

(* What each of the nine commands of amlsub_Open leaves: none of them undoes   *)
(* an earlier one, as none makes or closes the service.                        *)
LEMMA OpenStep ==
    ASSUME NEW h, NEW p, NEW k \in 0 .. 8, NEW opened \in BOOLEAN, ServiceTypes(srv),
           HasOf(p, srv, k, opened), opened => k >= 7
    PROVE  LET r == ParserSubtitleCommand(OpenCommands(h, p)[k + 1])
           IN  /\ r.answer \in Answers
               /\ HasOf(p, r.srv, k + 1, IF k = 6 THEN r.answer = OK ELSE opened)
<1> DEFINE c == OpenCommands(h, p)[k + 1]
           r == ParserSubtitleCommand(c)
<1>1. CASE k = 0
  <2>1. c = userDataOpenCmd
    BY <1>1 DEF OpenCommands
  <2>2. r = With([srv EXCEPT !.afd = TRUE])
    BY <2>1 DEF userDataOpenCmd, Cmd, ParserSubtitleCommand, SetCmd
  <2> QED BY <1>1, <2>2 DEF With, To, OK, FAIL, Answers, HasOf, ServiceTypes, ServiceFields
<1>2. CASE k = 1
  <2>1. c = setSubTypeCmd(p.type)
    BY <1>2 DEF OpenCommands
  <2>2. r = Setter([srv EXCEPT !.dtvSubType = p.type, !.subType = p.type])
    BY <2>1 DEF setSubTypeCmd, Cmd, ParserSubtitleCommand, SetCmd, Arg
  <2> QED BY <1>2, <2>2 DEF Setter, To, OK, Answers, HasOf, ServiceTypes, ServiceFields
<1>3. CASE k = 2
  <2>1. c = setSubPidCmd(p.pid)
    BY <1>3 DEF OpenCommands
  <2>2. r = SetSubPid(p.pid)
    BY <2>1 DEF setSubPidCmd, Cmd, ParserSubtitleCommand, SetCmd, Arg
  <2> QED BY <1>3, <2>2 DEF SetSubPid, Setter, To, OK, Answers, HasOf, ServiceTypes, ServiceFields
<1>4. CASE k = 3 \/ k = 4
  <2>1. c = setChannelIdCmd(p.channel) \/ c = setClosedCaptionVfmtCmd
    BY <1>4 DEF OpenCommands
  <2>2. r = Setter([srv EXCEPT !.ChannelID = Arg(c, 2)])
    BY <2>1 DEF setChannelIdCmd, setClosedCaptionVfmtCmd, Cmd, ParserSubtitleCommand, SetCmd
  <2> QED BY <1>4, <2>2 DEF Setter, To, OK, Answers, HasOf, ServiceTypes, ServiceFields
<1>5. CASE k = 5
  <2>1. c = applyRenderTypeCmd(h)
    BY <1>5 DEF OpenCommands
  <2>2. r = With([srv EXCEPT !.renderType = wantedRender[h]])
    BY <2>1 DEF applyRenderTypeCmd, Cmd, ParserSubtitleCommand, SetCmd, Arg
  <2> QED BY <1>5, <2>2 DEF With, To, OK, FAIL, Answers, HasOf, ServiceTypes, ServiceFields
<1>6. CASE k = 6
  <2>1. c = openCmd([dmx |-> p.dmx])
    BY <1>6 DEF OpenCommands
  <2>2. r = ServerOpen([dmx |-> p.dmx])
    BY <2>1 DEF openCmd, Cmd, ParserSubtitleCommand, SetCmd, Arg
  <2> QED BY <1>6, <2>2 DEF ServerOpen, To, OK, FAIL, Answers, HasOf, ServiceTypes, ServiceFields
<1>7. CASE k = 7
  <2>1. c = setPageIdCmd(p.comp)
    BY <1>7 DEF OpenCommands
  <2>2. r = SetSubPageId(p.comp)
    BY <2>1 DEF setPageIdCmd, Cmd, ParserSubtitleCommand, SetCmd, Arg
  <2> QED BY <1>7, <2>2 DEF SetSubPageId, Setter, To, OK, Answers, HasOf, ServiceTypes, ServiceFields
<1>8. CASE k = 8
  <2>1. c = setAncPageIdCmd(p.anc)
    BY <1>8 DEF OpenCommands
  <2>2. r = SetSubAncPageId(p.anc)
    BY <2>1 DEF setAncPageIdCmd, Cmd, ParserSubtitleCommand, SetCmd, Arg
  <2> QED BY <1>8, <2>2 DEF SetSubAncPageId, Setter, To, OK, Answers, HasOf, ServiceTypes, ServiceFields
<1> QED BY <1>1, <1>2, <1>3, <1>4, <1>5, <1>6, <1>7, <1>8

LEMMA OpenCommandsAreNine ==
    ASSUME NEW h, NEW p
    PROVE  \E S : OpenCommands(h, p) \in Seq(S) /\ Len(OpenCommands(h, p)) = 9
<1> DEFINE S == {OpenCommands(h, p)[i] : i \in 1 .. 9}
<1>1. OpenCommands(h, p) \in Seq(S) /\ Len(OpenCommands(h, p)) = 9
  BY DEF OpenCommands
<1> QED BY <1>1

(* After k commands, the next is the one at k + 1, and what is left follows it. *)
LEMMA OpenLeft ==
    ASSUME NEW h, NEW p, NEW k \in Nat, k <= 9
    PROVE  /\ k = 9 <=> SubSeq(OpenCommands(h, p), k + 1, 9) = <<>>
           /\ k < 9 => /\ Head(SubSeq(OpenCommands(h, p), k + 1, 9)) = OpenCommands(h, p)[k + 1]
                       /\ Tail(SubSeq(OpenCommands(h, p), k + 1, 9))
                             = SubSeq(OpenCommands(h, p), (k + 1) + 1, 9)
<1> DEFINE o == OpenCommands(h, p)
<1>1. PICK S : o \in Seq(S) /\ Len(o) = 9
  BY OpenCommandsAreNine
<1> HIDE DEF o
<1>2. CASE k = 9
  <2>1. SubSeq(o, k + 1, 9) = <<>>
    BY <1>2, SubSeqEmpty
  <2> QED BY <1>2, <2>1 DEF o
<1>3. CASE k < 9
  <2>1. k + 1 \in 1 .. Len(o) /\ Len(o) \in k + 1 .. Len(o)
    BY <1>1, <1>3
  <2>2. /\ Head(SubSeq(o, k + 1, Len(o))) = o[k + 1]
        /\ Tail(SubSeq(o, k + 1, Len(o))) = SubSeq(o, (k + 1) + 1, Len(o))
    BY <1>1, <2>1, HeadTailOfSubSeq
  <2>3. ASSUME NEW i \in k + 1 .. 9 PROVE o[i] \in S
    <3>1. i \in 1 .. Len(o)
      BY <1>1
    <3> QED BY <1>1, <3>1, ElementOfSeq
  <2>4. Len(SubSeq(o, k + 1, 9)) # 0
    BY <1>3, <2>3, SubSeqProperties
  <2>5. SubSeq(o, k + 1, 9) # <<>>
    BY <2>4, EmptySeq
  <2> QED BY <1>1, <1>3, <2>2, <2>5 DEF o
<1> QED BY <1>2, <1>3

(* What a handle has been promised stays true as long as the server, the       *)
(* connections and the handle's own call and answer do.                        *)
LEMMA PromiseKept ==
    ASSUME NEW h \in ApiHandles, OpenIsKept(h), UNCHANGED <<srv, lostConnection>>,
           apiCall'[h] = apiCall[h], returned'[h] = returned[h], wantedRender'[h] = wantedRender[h]
    PROVE  OpenIsKept(h)'
BY DEF OpenIsKept, OnItsWay, HasEnded, Outcome, OpenCommands, applyRenderTypeCmd

(* A call begins: no answer has come, and nothing has been returned.           *)
LEMMA BeginKeepsInv ==
    ASSUME ApiInv, NEW h \in ApiHandles, NEW name, NEW p, NEW todo, Begin(h, name, p, todo),
           name # "none", name = "Open" => todo = OpenCommands(h, p),
           DOMAIN wantedRender' = ApiHandles,
           \A g \in ApiHandles : name = "Open" \/ g # h => wantedRender'[g] = wantedRender[g]
    PROVE  ApiInv'
<1> DEFINE new == [NoCall EXCEPT !.name = name, !.param = p, !.todo = todo]
<1>1. ApiTypes /\ \A g \in undisturbed \cap ApiHandles : OpenIsKept(g)
  BY DEF ApiInv
<1>2. /\ apiCall' = [apiCall EXCEPT ![h] = new] /\ returned' = [returned EXCEPT ![h] = NotYet]
      /\ undisturbed' = undisturbed \cup {h} /\ UNCHANGED <<lostConnection, srv>>
  BY DEF Begin
<1>3. /\ DOMAIN new = {"name", "param", "todo", "answers"} /\ new.name = name /\ new.param = p
      /\ new.todo = todo /\ new.answers = <<>>
  BY DEF NoCall
<1> HIDE DEF new
<1>4. apiCall'[h] = new /\ returned'[h] = NotYet
  BY <1>1, <1>2 DEF ApiTypes
<1>5. \A g \in ApiHandles \ {h} : apiCall'[g] = apiCall[g] /\ returned'[g] = returned[g]
  BY <1>1, <1>2 DEF ApiTypes
<1>6. ApiTypes'
  <2>1. \A g \in ApiHandles : DOMAIN apiCall'[g] = {"name", "param", "todo", "answers"}
    BY <1>1, <1>4, <1>5, <1>3 DEF ApiTypes
  <2>2. \A g \in ApiHandles : apiCall'[g].name = "none" => apiCall'[g] = NoCall
    BY <1>1, <1>4, <1>5, <1>3 DEF ApiTypes
  <2> QED BY <1>1, <1>2, <2>1, <2>2 DEF ApiTypes
<1>7. ASSUME NEW g \in undisturbed' \cap ApiHandles, g # h PROVE OpenIsKept(g)'
  BY <1>1, <1>2, <1>5, <1>7, PromiseKept
<1>8. OpenIsKept(h)'
  <2>1. CASE name = "Open"
    <3>1. OpenCommands(h, p)' = OpenCommands(h, p)
      BY <2>1 DEF OpenCommands, applyRenderTypeCmd
    <3>2. SubSeq(OpenCommands(h, p), 1, 9) = OpenCommands(h, p)
      BY OpenCommandsAreNine, SubSeqFull
    <3>3. Outcome(h, p, <<>>)'
      BY DEF Outcome, HasOf, Opened
    <3> QED BY <1>4, <1>3, <2>1, <3>1, <3>2, <3>3 DEF OpenIsKept, OnItsWay
  <2>2. CASE name # "Open"
    BY <1>4, <1>3, <2>2 DEF OpenIsKept
  <2> QED BY <2>1, <2>2
<1> QED BY <1>6, <1>7, <1>8 DEF ApiInv

(* A command of a call is answered. Unless the connection is gone, the others  *)
(* are no longer undisturbed; the handle itself is a command further.          *)
LEMMA SendKeepsInv ==
    ASSUME ApiInv, NEW h \in ApiHandles, SendMethodCall(h) PROVE ApiInv'
<1> DEFINE c == apiCall[h]
           r == IF h \in lostConnection THEN To(srv, -1) ELSE ParserSubtitleCommand(Head(c.todo))
           new == [c EXCEPT !.todo = Tail(c.todo), !.answers = Append(c.answers, r.answer)]
<1>1. /\ ApiTypes /\ \A g \in undisturbed \cap ApiHandles : OpenIsKept(g)
      /\ c.todo # <<>> /\ srv' = r.srv
      /\ undisturbed' = IF h \in lostConnection THEN undisturbed ELSE undisturbed \cap {h}
      /\ UNCHANGED <<gAvailContextMap, returned, lostConnection, wantedRender, apiCalls>>
  BY DEF ApiInv, SendMethodCall
<1>2. apiCall' = [apiCall EXCEPT ![h] = new]
  BY <1>1 DEF SendMethodCall, ApiTypes
<1>3. ServiceTypes(r.srv)
  BY <1>1, ServiceStaysTyped DEF To, ApiTypes
<1>4. DOMAIN c = {"name", "param", "todo", "answers"} /\ c.name # "none"
  BY <1>1 DEF ApiTypes, NoCall
<1>5. /\ DOMAIN new = {"name", "param", "todo", "answers"}
      /\ new.name = c.name /\ new.param = c.param /\ new.todo = Tail(c.todo)
      /\ new.answers = Append(c.answers, r.answer)
  BY <1>4
<1> HIDE DEF new, r, c
<1>6. apiCall'[h] = new /\ \A g \in ApiHandles \ {h} : apiCall'[g] = apiCall[g]
  BY <1>1, <1>2 DEF ApiTypes
<1>7. ApiTypes'
  <2>1. \A g \in ApiHandles : DOMAIN apiCall'[g] = {"name", "param", "todo", "answers"}
    BY <1>1, <1>5, <1>6 DEF ApiTypes
  <2>2. \A g \in ApiHandles : apiCall'[g].name = "none" => apiCall'[g] = NoCall
    BY <1>1, <1>4, <1>5, <1>6 DEF ApiTypes
  <2>3. DOMAIN apiCall' = ApiHandles
    BY <1>1, <1>2 DEF ApiTypes
  <2> QED BY <1>1, <1>3, <2>1, <2>2, <2>3 DEF ApiTypes
<1>8. ASSUME NEW g \in undisturbed' \cap ApiHandles, g # h PROVE OpenIsKept(g)'
  <2>1. h \in lostConnection /\ g \in undisturbed
    BY <1>1, <1>8
  <2>2. srv' = srv
    BY <1>1, <2>1 DEF r, To
  <2> QED BY <1>1, <1>6, <1>8, <2>1, <2>2, PromiseKept
<1>9. ASSUME h \in undisturbed, c.name = "Open" PROVE OpenIsKept(h)'
  <2>1. PICK p, ans, x : p = c.param /\ ans = c.answers /\ x = r.answer
    OBVIOUS
  <2> DEFINE k == Len(ans)
             more == Append(ans, x)
  <2>2. Outcome(h, p, ans) /\ c.todo = SubSeq(OpenCommands(h, p), k + 1, 9)
    BY <1>1, <1>9, <2>1 DEF OpenIsKept, OnItsWay, c
  <2>3. ans \in Seq(Answers) /\ k \in Nat /\ k <= 9
    BY <2>2 DEF Outcome
  <2>4. /\ k < 9 /\ Head(c.todo) = OpenCommands(h, p)[k + 1]
        /\ Tail(c.todo) = SubSeq(OpenCommands(h, p), (k + 1) + 1, 9)
    <3>1. k # 9
      BY <1>1, <2>2, <2>3, OpenLeft
    <3> HIDE DEF k
    <3>2. k < 9
      BY <2>3, <3>1
    <3> QED BY <2>2, <2>3, <3>2, OpenLeft
  <2>5. x \in Answers /\ Outcome(h, p, more)'
    <3>1. CASE h \in lostConnection
      <4>1. x = -1
        BY <2>1, <3>1 DEF r, To
      <4>2. more \in Seq(Answers) /\ Len(more) = k + 1 /\ \A i \in 1 .. Len(more) : more[i] = -1
        <5>1. x \in Answers
          BY <4>1 DEF Answers
        <5> QED BY <2>2, <2>3, <3>1, <4>1, <5>1 DEF Outcome
      <4> HIDE DEF more
      <4> QED BY <1>1, <2>4, <3>1, <4>1, <4>2 DEF Outcome, Answers
    <3>2. CASE h \notin lostConnection
      <4>1. HasOf(p, srv, k, Opened(ans)) /\ Opened(ans) \in BOOLEAN /\ (Opened(ans) => k >= 7)
        BY <2>2, <3>2 DEF Outcome, Opened
      <4>2. r = ParserSubtitleCommand(OpenCommands(h, p)[k + 1])
        BY <2>4, <3>2 DEF r
      <4>3. k \in 0 .. 8 /\ ServiceTypes(srv)
        <5>1. k \in 0 .. 8
          <6> HIDE DEF k
          <6> QED BY <2>3, <2>4
        <5> QED BY <1>1, <5>1 DEF ApiTypes
      <4>4. x \in Answers /\ HasOf(p, r.srv, k + 1, IF k = 6 THEN x = OK ELSE Opened(ans))
        <5> HIDE DEF k
        <5> QED BY <2>1, <4>1, <4>2, <4>3, OpenStep
      <4>5. more \in Seq(Answers) /\ Len(more) = k + 1 /\ more[k + 1] = x /\ \A i \in 1 .. k : more[i] = ans[i]
        BY <2>3, <4>4
      <4> HIDE DEF more
      <4>6. Opened(more) <=> IF k = 6 THEN x = OK ELSE Opened(ans)
        <5>1. CASE k < 6
          BY <2>3, <4>5, <5>1 DEF Opened
        <5>2. CASE k = 6
          BY <4>5, <5>2 DEF Opened
        <5>3. CASE k > 6
          BY <2>3, <4>5, <5>3 DEF Opened
        <5>4. k < 6 \/ k = 6 \/ k > 6
          <6> HIDE DEF k
          <6> QED BY <2>3
        <5> QED BY <5>1, <5>2, <5>3, <5>4
      <4>7. HasOf(p, srv', Len(more), Opened(more))
        BY <1>1, <4>4, <4>5, <4>6 DEF HasOf
      <4> QED BY <1>1, <2>3, <2>4, <3>2, <4>4, <4>5, <4>7 DEF Outcome
    <3> QED BY <3>1, <3>2
  <2>6. Len(more) = k + 1
    BY <2>3, <2>5
  <2>7. OpenCommands(h, p)' = OpenCommands(h, p)
    BY <1>1 DEF OpenCommands, applyRenderTypeCmd
  <2> HIDE DEF more
  <2>8. /\ apiCall'[h].name = "Open" /\ apiCall'[h].param = p /\ apiCall'[h].answers = more
        /\ apiCall'[h].todo = SubSeq(OpenCommands(h, p), Len(more) + 1, 9)
    BY <1>5, <1>6, <1>9, <2>1, <2>4, <2>6 DEF more
  <2> QED BY <2>5, <2>7, <2>8 DEF OpenIsKept, OnItsWay
<1>10. ASSUME c.name # "Open" PROVE OpenIsKept(h)'
  BY <1>4, <1>5, <1>6, <1>10 DEF OpenIsKept
<1>11. \A g \in undisturbed' \cap ApiHandles : OpenIsKept(g)'
  BY <1>1, <1>8, <1>9, <1>10
<1> QED BY <1>7, <1>11 DEF ApiInv

LEMMA EndKeepsInv ==
    ASSUME ApiInv, NEW h \in ApiHandles, CallEnds(h) PROVE ApiInv'
<1> DEFINE c == apiCall[h]
           r == returned'[h]
<1>1. /\ ApiTypes /\ \A g \in undisturbed \cap ApiHandles : OpenIsKept(g)
      /\ c.name # "none" /\ c.todo = <<>>
      /\ apiCall' = [apiCall EXCEPT ![h] = NoCall]
      /\ UNCHANGED <<gAvailContextMap, undisturbed, lostConnection, wantedRender, srv, apiCalls>>
  BY DEF ApiInv, CallEnds
<1>2. /\ r.name = c.name /\ r.param = c.param /\ r.answers = c.answers
      /\ r.status = StatusOf(c.name, c.answers[Len(c.answers)])
      /\ DOMAIN returned' = ApiHandles
      /\ \A g \in ApiHandles \ {h} : returned'[g] = returned[g]
  BY <1>1 DEF CallEnds, ApiTypes
<1>3. apiCall'[h] = NoCall /\ \A g \in ApiHandles \ {h} : apiCall'[g] = apiCall[g]
  BY <1>1 DEF ApiTypes
<1>4. ApiTypes'
  <2>1. \A g \in ApiHandles : DOMAIN apiCall'[g] = {"name", "param", "todo", "answers"}
    BY <1>1, <1>3 DEF ApiTypes, NoCall
  <2>2. \A g \in ApiHandles : apiCall'[g].name = "none" => apiCall'[g] = NoCall
    BY <1>1, <1>3 DEF ApiTypes
  <2> QED BY <1>1, <1>2, <2>1, <2>2 DEF ApiTypes
<1>5. ASSUME NEW g \in undisturbed \cap ApiHandles, g # h PROVE OpenIsKept(g)'
  BY <1>1, <1>2, <1>3, <1>5, PromiseKept
<1>6. ASSUME h \in undisturbed PROVE OpenIsKept(h)'
  <2>1. CASE c.name = "Open"
    <3>1. PICK p, ans : p = c.param /\ ans = c.answers
      OBVIOUS
    <3> DEFINE k == Len(ans)
    <3>2. Outcome(h, p, ans) /\ c.todo = SubSeq(OpenCommands(h, p), k + 1, 9)
      BY <1>1, <1>6, <2>1, <3>1 DEF OpenIsKept, OnItsWay
    <3>3. k \in Nat /\ k <= 9
      BY <3>2 DEF Outcome
    <3>4. k = 9
      <4> HIDE DEF k
      <4> QED BY <1>1, <3>2, <3>3, OpenLeft
    <3>5. Outcome(h, p, ans)'
      BY <1>1, <3>2 DEF Outcome
    <3>6. r.status = "OK"
      BY <1>2, <2>1 DEF StatusOf
    <3> QED BY <1>2, <1>3, <3>1, <3>4, <3>5, <3>6 DEF OpenIsKept, HasEnded, NoCall
  <2>2. CASE c.name # "Open"
    BY <1>2, <1>3, <2>2 DEF OpenIsKept, NoCall
  <2> QED BY <2>1, <2>2
<1>7. \A g \in undisturbed' \cap ApiHandles : OpenIsKept(g)'
  BY <1>1, <1>5, <1>6
<1> QED BY <1>4, <1>7 DEF ApiInv

LEMMA RemoteDeadKeepsInv ==
    ASSUME ApiInv, NEW h \in ApiHandles, onRemoteDead(h) PROVE ApiInv'
<1>1. /\ ApiTypes /\ undisturbed' = {}
      /\ UNCHANGED <<apiCall, returned, wantedRender>>
      /\ srv' = srv \/ srv' = [NewService EXCEPT !.session = FALSE]
  BY DEF ApiInv, onRemoteDead, ServerCloseConnection, To
<1>2. ServiceTypes(srv')
  BY <1>1, NewServiceTypes DEF ApiTypes
<1>3. ApiTypes'
  BY <1>1, <1>2 DEF ApiTypes
<1> QED BY <1>1, <1>3 DEF ApiInv

LEMMA ApiInvNext == ASSUME ApiInv, [ApiNext]_apiVars PROVE ApiInv'
<1>1. CASE UNCHANGED apiVars
  <2>1. ApiTypes'
    BY <1>1 DEF apiVars, ApiInv, ApiTypes
  <2>2. \A h \in undisturbed \cap ApiHandles : OpenIsKept(h)'
    BY <1>1, PromiseKept DEF apiVars, ApiInv
  <2> QED BY <1>1, <2>1, <2>2 DEF apiVars, ApiInv
<1>2. ASSUME NEW h \in ApiHandles,
             amlsub_Create(h) \/ amlsub_Destroy(h) \/ amlsub_Close(h) \/ amlsub_Reset(h)
             \/ amlsub_SetPip(h, 1) \/ amlsub_UpdateVideoPos(h)
             \/ (\E e \in ApiEvents : amlsub_TeletextControl(h, e))
             \/ (\E ch \in CcChannels : amlsub_SelectCcChannel(h, ch))
      PROVE  ApiInv'
  <2>1. DOMAIN wantedRender' = ApiHandles
    BY <1>2 DEF ApiInv, ApiTypes, amlsub_Create, amlsub_Destroy, amlsub_Close, amlsub_Reset,
                amlsub_SetPip, amlsub_UpdateVideoPos, amlsub_TeletextControl,
                amlsub_SelectCcChannel, Known
  <2>2. \A g \in ApiHandles \ {h} : wantedRender'[g] = wantedRender[g]
    BY <1>2 DEF ApiInv, ApiTypes, amlsub_Create, amlsub_Destroy, amlsub_Close, amlsub_Reset,
                amlsub_SetPip, amlsub_UpdateVideoPos, amlsub_TeletextControl,
                amlsub_SelectCcChannel, Known
  <2>3. \E name, p, todo : name \notin {"none", "Open"} /\ Begin(h, name, p, todo)
    BY <1>2, Zenon
    DEF amlsub_Create, amlsub_Destroy, amlsub_Close, amlsub_Reset,
                amlsub_SetPip, amlsub_UpdateVideoPos, amlsub_TeletextControl,
                amlsub_SelectCcChannel
  <2> QED BY <2>1, <2>2, <2>3, BeginKeepsInv
<1>3. ASSUME NEW h \in ApiHandles, NEW p \in OpenParams, amlsub_Open(h, p) PROVE ApiInv'
  <2>1. Begin(h, "Open", p, OpenCommands(h, p)) /\ wantedRender' = wantedRender
    BY <1>3 DEF amlsub_Open, OpenCommands, Known
  <2>2. DOMAIN wantedRender = ApiHandles
    BY DEF ApiInv, ApiTypes
  <2> QED BY <2>1, <2>2, BeginKeepsInv
<1>4. ASSUME NEW h \in ApiHandles, amlsub_RegistOnDataCB(h) PROVE ApiInv'
  <2>1. /\ ApiTypes /\ \A g \in undisturbed \cap ApiHandles : OpenIsKept(g)
        /\ apiCall[h].name = "none" /\ wantedRender' = [wantedRender EXCEPT ![h] = "callback"]
        /\ UNCHANGED <<gAvailContextMap, apiCall, returned, undisturbed, lostConnection, srv, apiCalls>>
    BY <1>4 DEF ApiInv, amlsub_RegistOnDataCB
  <2>2. ApiTypes'
    BY <2>1 DEF ApiTypes
  <2>3. \A g \in ApiHandles \ {h} : wantedRender'[g] = wantedRender[g]
    BY <2>1 DEF ApiTypes
  <2>4. ASSUME NEW g \in undisturbed \cap ApiHandles, g # h PROVE OpenIsKept(g)'
    BY <2>1, <2>3, <2>4, PromiseKept
  <2>5. ASSUME h \in undisturbed PROVE OpenIsKept(h)'
    BY <2>1, <2>5 DEF OpenIsKept, HasEnded, Outcome
  <2> QED BY <2>1, <2>2, <2>4, <2>5 DEF ApiInv
<1> QED BY <1>1, <1>2, <1>3, <1>4, SendKeepsInv, EndKeepsInv, RemoteDeadKeepsInv DEF ApiNext

(* When amlsub_Open has started subtitles and no other handle came between,    *)
(* the server has all that was asked for: for any handles, parameters and      *)
(* calls, with connections that are lost and services that are closed at any   *)
(* time (SubtitleNativeAPI.cpp, SubtitleServer.cpp).                           *)
THEOREM OpenHasItsEffect == ApiSpec => []OpenTakesEffect
<1>1. ApiInv /\ HandlesOnly => OpenTakesEffect
  <2> SUFFICES ASSUME ApiInv, NEW h \in undisturbed \cap ApiHandles,
                      apiCall[h] = NoCall, returned[h].name = "Open", returned[h].answers[7] = OK
               PROVE  LET r == returned[h] IN
                      /\ srv.session /\ srv.started /\ srv.afd /\ r.status = "OK"
                      /\ srv.dtvSubType = r.param.type
                      /\ r.param.type \in PidTypes =>
                            /\ srv.pid[r.param.type] = r.param.pid
                            /\ r.param.dmx >= 0 => srv.dmx[r.param.type] = r.param.dmx
                      /\ r.param.type = "dvb" => srv.comp = r.param.comp /\ srv.anc = r.param.anc
                      /\ r.param.type = "teletext" =>
                            srv.magazine = r.param.comp /\ srv.pageNo = r.param.anc
    BY DEF OpenTakesEffect, HandlesOnly
  <2> DEFINE r == returned[h]
  <2>1. Outcome(h, r.param, r.answers) /\ Len(r.answers) = 9 /\ r.status = "OK"
    BY DEF ApiInv, OpenIsKept, HasEnded, NoCall
  <2>2. h \notin lostConnection
    BY <2>1 DEF Outcome, OK
  <2>3. HasOf(r.param, srv, 9, TRUE)
    BY <2>1, <2>2 DEF Outcome, Opened, HasOf
  <2> QED BY <2>1, <2>3 DEF HasOf
<1>2. ApiInit => HandlesOnly
  BY DEF ApiInit, HandlesOnly
<1>3. HandlesOnly /\ [ApiNext]_apiVars => HandlesOnly'
  BY DEF HandlesOnly, ApiNext, apiVars, amlsub_Create, amlsub_Destroy, amlsub_Open, amlsub_Close, amlsub_Reset,
         amlsub_SetPip, amlsub_UpdateVideoPos, amlsub_TeletextControl, amlsub_SelectCcChannel,
         amlsub_RegistOnDataCB, SendMethodCall, CallEnds, onRemoteDead, Begin
<1> QED BY <1>1, <1>2, <1>3, ApiInvInit, ApiInvNext, PTL DEF ApiSpec

-----------------------------------------------------------------------------
(* The parts in one behaviour                                                  *)

LEMMA PartsInit == MCInit => IpcInit /\ ServiceInit /\ CallbackInit /\ RenderInit /\ ApiInit
BY DEF MCInit

\* A step of the whole is a step of each part, or leaves it as it is.
LEMMA PartsNext ==
    [MCNext]_MCVars => /\ [IpcNext]_vars /\ [ServiceNext]_serviceVars /\ [CallbackNext]_callbackVars
                       /\ [RenderNext]_renderVars /\ [ApiNext]_apiVars
BY DEF MCNext, MCVars

(* What is proved of the parts holds in every behaviour of the service: calls  *)
(* get their own answers and sessions end with their applications, and so do   *)
(* the parameters, the callbacks, the screen and the calls of the API what     *)
(* they promise.                                                               *)
THEOREM ServiceIsSafe ==
    MCSpec => /\ []IpcTypeOK /\ []AnswerIsOwn /\ []SessionHasClient
              /\ []SourceHasParameters /\ []EntriesHandedOver /\ []ScreenFollowsList /\ []OpenTakesEffect
<1>1. MCSpec => IpcSpec /\ ServiceSpec /\ CallbackSpec /\ RenderSpec /\ ApiSpec
  BY PartsInit, PartsNext, PTL DEF MCSpec, IpcSpec, ServiceSpec, CallbackSpec, RenderSpec, ApiSpec
<1> QED BY <1>1, IpcTypesCorrect, AnswersReachTheirCalls, SessionsHaveClients,
           SourceParametersCurrent, EntriesAreHandedOver, ScreenIsLastOfList, OpenHasItsEffect, PTL
=============================================================================
