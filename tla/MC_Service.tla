------------------------------ MODULE MC_Service ------------------------------
(* The server's side of an application, and what it shows and tells: the       *)
(* command sockets, the API with its commands and their dispatch, the source   *)
(* parameters of the service, the drawing thread and the queue of the          *)
(* callbacks. They share no state with each other: a behaviour is one of the   *)
(* part chosen at its start.                                                   *)
EXTENDS CommandIpc, ClientApi, ServiceParameters, RenderThread, CallbackQueue

CONSTANTS a, b      \* applications
VARIABLE part       \* the part of this behaviour

MCFaultSets == {{}, {"client"}, {"server"}}
\* Where the server may die at any moment there is one application: the others
\* are as without faults to it, and with {"client"} an application that dies in
\* its call takes the server, and so the calls of the other, with it
OneIfServerDies == "server" \in faults => at'[b] = "none"
MCOpenParams ==
    {[type |-> "dvb", pid |-> 6, channel |-> 1, comp |-> 3, anc |-> 0, dmx |-> 1],
     [type |-> "teletext", pid |-> 7, channel |-> 1, comp |-> 1, anc |-> 2, dmx |-> 0]}
MCDisplayItems == {[id |-> 1, object |-> 2, drawn |-> TRUE], [id |-> 2, object |-> 0, drawn |-> FALSE]}

MCInit ==
    /\ part \in {"ipc", "api", "parameters", "render", "callbacks"}
    /\ IpcInit /\ ApiInit /\ ServiceInit /\ RenderInit /\ CallbackInit
    /\ part # "ipc" => faults = CHOOSE f \in FaultSets : TRUE

MCNext ==
    \/ /\ part = "ipc" /\ IpcNext /\ OneIfServerDies
       /\ UNCHANGED <<part, apiVars, serviceVars, renderVars, callbackVars>>
    \/ /\ part = "api" /\ ApiNext
       /\ UNCHANGED <<part, vars, serviceVars, renderVars, callbackVars>>
    \/ /\ part = "parameters" /\ ServiceNext
       /\ UNCHANGED <<part, vars, apiVars, renderVars, callbackVars>>
    \/ /\ part = "render" /\ RenderNext
       /\ UNCHANGED <<part, vars, apiVars, serviceVars, callbackVars>>
    \/ /\ part = "callbacks" /\ CallbackNext
       /\ UNCHANGED <<part, vars, apiVars, serviceVars, renderVars>>

MCVars == <<part, vars, apiVars, serviceVars, renderVars, callbackVars>>

\* Only the calls need fairness; where their part rests no action of theirs is
\* enabled
MCSpec == MCInit /\ [][MCNext]_MCVars /\ IpcFairness

=============================================================================
