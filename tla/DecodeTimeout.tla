--------------------------- MODULE DecodeTimeout ---------------------------
(* The thread with which the DVB, TTML, SMPTE-TT and ARIB parsers report     *)
(* whether there are subtitles (callbackProcess): it waits for the parser's  *)
(* thread to signal an item, or for sixty seconds to pass. What a thread     *)
(* does with mMutex is one step. A tick is a part of those seconds; no tick  *)
(* passes while a thread can go on, nor before startParser, which follows    *)
(* the constructor at once.                                                  *)
EXTENDS Integers

CONSTANTS
    Paths,       \* a parser and how it gets its packets: <<"dvb", "hw">>
    Sixty        \* ticks in the time waited

ASSUME DecodeTimeoutAssumption == Sixty \in Nat \ {0}

VARIABLES
    path,
    life,            \* the parser: "new", "started", "joining", "destroying"
    mPendingAction,
    unsignalled,     \* an item was added and not signalled yet
    quiet,           \* ticks since the last item was added
    waited,          \* ticks since wait_for began
    waiter,          \* the thread: "test", "lock", "waiting", "woken", "done"
    signal,          \* "unspec", "none" or "has"
    reported         \* the last report: what, and what was true then

timeoutVars == <<path, life, mPendingAction, unsignalled, quiet, waited, waiter, signal, reported>>

Never == Sixty
\* The ARIB parser takes its sixty seconds from macros that no build defines
Timeout == IF path[1] = "arib" THEN 0 ELSE Sixty
\* Only softDemuxParse of the TTML parsers signals what it has decoded
Signals == path[1] \in {"dvb", "arib"} \/ path[2] = "soft"

\* The paths of which SilenceMeansSilence holds
PathsSignal == \A p \in Paths : p[1] = "dvb" \/ (p[1] # "arib" /\ p[2] = "soft")

TimeoutInit ==
    /\ path \in Paths /\ life = "new"
    /\ mPendingAction = -1 /\ unsignalled = FALSE /\ quiet = Never
    /\ waited = 0 /\ waiter = "test" /\ signal = "unspec"
    /\ reported = [what |-> "nothing", quiet |-> Never, fresh |-> FALSE, life |-> "new"]

-----------------------------------------------------------------------------
(* The thread of the session                                                 *)

startParser ==
    /\ life = "new" /\ life' = "started"
    /\ UNCHANGED <<path, mPendingAction, unsignalled, quiet, waited, waiter, signal, reported>>

stopParser ==
    /\ life = "started" /\ life' = "joining"
    /\ UNCHANGED <<path, mPendingAction, unsignalled, quiet, waited, waiter, signal, reported>>

Notified == IF waiter = "waiting" THEN "woken" ELSE waiter

\* The destructor, once the parser's thread has been joined
DestroyStopped ==
    /\ life = "joining" /\ ~unsignalled /\ life' = "destroying"
    /\ mPendingAction' = 1 /\ waiter' = Notified
    /\ UNCHANGED <<path, unsignalled, quiet, waited, signal, reported>>

-----------------------------------------------------------------------------
(* The parser's thread                                                       *)

AddItem ==
    /\ life = "started" /\ ~unsignalled
    /\ quiet' = 0 /\ unsignalled' = Signals
    /\ UNCHANGED <<path, life, mPendingAction, waited, waiter, signal, reported>>

SignalItem ==
    /\ unsignalled /\ unsignalled' = FALSE
    /\ mPendingAction' = 1 /\ waiter' = Notified
    /\ UNCHANGED <<path, life, quiet, waited, signal, reported>>

-----------------------------------------------------------------------------
(* The thread of callbackProcess                                             *)

ExitTest ==
    /\ waiter = "test"
    /\ waiter' = IF life \in {"joining", "destroying"} THEN "done" ELSE "lock"
    /\ UNCHANGED <<path, life, mPendingAction, unsignalled, quiet, waited, signal, reported>>

WaitFor ==
    /\ waiter = "lock" /\ waiter' = "waiting" /\ waited' = 0
    /\ UNCHANGED <<path, life, mPendingAction, unsignalled, quiet, signal, reported>>

TimedOut ==
    /\ waiter = "waiting" /\ waited = Timeout /\ waiter' = "woken"
    /\ UNCHANGED <<path, life, mPendingAction, unsignalled, quiet, waited, signal, reported>>

Reports(what) ==
    reported' = IF signal = what THEN reported
                ELSE [what |-> what, quiet |-> quiet, fresh |-> unsignalled, life |-> life]

callbackProcess ==
    /\ waiter = "woken" /\ waiter' = "test"
    /\ IF mPendingAction = 1
       THEN mPendingAction' = -1 /\ signal' = "has" /\ Reports("has")
       ELSE signal' = "none" /\ Reports("none") /\ UNCHANGED mPendingAction
    /\ UNCHANGED <<path, life, unsignalled, quiet, waited>>

TimePasses ==
    /\ life # "new" /\ ~unsignalled
    /\ waiter \in {"waiting", "done"} /\ waited < Timeout
    /\ waited' = waited + 1 /\ quiet' = IF quiet < Never THEN quiet + 1 ELSE Never
    /\ UNCHANGED <<path, life, mPendingAction, unsignalled, waiter, signal, reported>>

TimeoutNext ==
    \/ startParser
    \/ stopParser
    \/ DestroyStopped
    \/ AddItem
    \/ SignalItem
    \/ ExitTest
    \/ WaitFor
    \/ TimedOut
    \/ callbackProcess
    \/ TimePasses

TimeoutFair ==
    /\ WF_timeoutVars(SignalItem) /\ WF_timeoutVars(ExitTest) /\ WF_timeoutVars(WaitFor)
    /\ WF_timeoutVars(TimedOut) /\ WF_timeoutVars(callbackProcess) /\ WF_timeoutVars(TimePasses)

TimeoutSpec == TimeoutInit /\ [][TimeoutNext]_timeoutVars
TimeoutLiveSpec == TimeoutSpec /\ TimeoutFair

-----------------------------------------------------------------------------
(* That there are no subtitles is reported only after sixty seconds without  *)
(* an item, but for one whose signal is just coming, and to a parser that    *)
(* has its notifier (callbackProcess). The TTML parsers do not signal items  *)
(* of the hardware demux, and the ARIB parser does not wait: of these it     *)
(* does not hold.                                                            *)
SilenceMeansSilence ==
    reported.what = "none" =>
        reported.life # "new" /\ (reported.quiet = Never \/ reported.fresh)

(* The destructor's join returns: a notification that comes between the test *)
(* of the flag and the wait is lost, and the wait ends with its time.        *)
TimeoutThreadEnds == (life = "destroying") ~> (waiter = "done")
=============================================================================
