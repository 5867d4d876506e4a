-------------------------------- MODULE Launch --------------------------------
(***************************************************************************)
(* How the program instances come up (main.cpp): connecting the ring,      *)
(* loading, and agreeing on a query.  An instance has three threads here:  *)
(* main, the interaction thread that reads lines from the terminal, and    *)
(* the server thread (cases load and start of cpp/server.cpp).             *)
(*                                                                         *)
(* Main waits on the one condition variable, without a predicate, for      *)
(* load, then for start, and at last for its user to quit.  The others     *)
(* notify without the mutex, so that a notification that finds main        *)
(* elsewhere is lost, and one that was meant for another wait is taken.    *)
(* A wait may also end by itself.                                          *)
(*                                                                         *)
(* The server sets a flag, which the interaction thread tests, before it   *)
(* stores the query and before it notifies.                                *)
(*                                                                         *)
(* Every server accepts one connection and never looks at another.         *)
(* Instance 1 has no client until load is typed there or arrives there,    *)
(* and both its threads may create one.  What doCalculate does is the      *)
(* subject of FinalQuery; here it is one step, which all take together.    *)
(***************************************************************************)
EXTENDS Naturals, Sequences, FiniteSets

CONSTANTS N,         \* number of instances
          Targets,   \* the queries, a brand and a container each
          Typists,   \* the instances whose terminal somebody uses
          Disturbed, \* the instances where cv.wait may return by itself
          MaxLines   \* bound: lines typed altogether

ASSUME NAssumption == N \in Nat /\ N >= 2
ASSUME TypistsAssumption == Typists \subseteq 1..N
ASSUME DisturbedAssumption == Disturbed \subseteq 1..N
ASSUME MaxLinesAssumption == MaxLines \in Nat

\* A query is told from the other lines and from the positions of a thread.
ASSUME TargetsAssumption ==
  Targets \cap {"load", "q", "select", "read", "connect", "start", "done"} = {}

Procs == 1..N

Down(p) == IF p = 1 THEN N ELSE p - 1

VARIABLES
  main,        \* position of the main thread
  interact,    \* position of the interaction thread; a target: about to set it
  server,      \* position of the server thread in the cases load and start
  sendMessager,\* the client of the instance: a connection, or None
  accepted,    \* the servers that have accepted a connection
  wire,        \* wire[p]: the stream of the connection p's server has accepted
  load_flag, select_flag,
  select_idx,  \* Unset: not initialised, the declaration leaves it open
  target,      \* targetBrand and targetContainer
  typed,       \* history: the lines typed, in order
  hasty,       \* history: the lines typed before main's prompt for them
  disturbed,   \* history: instances where a wait ended by itself
  missed,      \* history: instances whose main thread missed a notification
  refused      \* history: instances that connected to one that was not up

linkVars == <<accepted, refused>>
streamVars == <<linkVars, wire>>
typedVars == <<typed, hasty>>
flagVars == <<load_flag, select_flag, select_idx>>
wakeVars == <<missed, disturbed>>
vars == <<main, interact, server, sendMessager, streamVars, flagVars, target,
          typedVars, wakeVars>>

None == [to |-> 0, live |-> FALSE]

\* A select_idx that nobody has stored, and one that is no instance's number.
Unset == 0
Stray == N + 1
Numbers == Procs \cup {Stray}

Load == [head |-> "load"]
Start(idx, t) == [head |-> "start", idx |-> idx, target |-> t]

\* The lines the interaction thread tells apart.  A "select" that
\* dealInputParm does not understand leaves the target as it is.
Lines == {"load", "q", "select"} \cup Targets

Init ==
  /\ main = [p \in Procs |-> "off"]
  /\ interact = [p \in Procs |-> "read"]
  /\ server = [p \in Procs |-> "read"]
  /\ sendMessager = [p \in Procs |-> None]
  /\ accepted = {}
  /\ wire = [p \in Procs |-> << >>]
  /\ load_flag = [p \in Procs |-> FALSE]
  /\ select_flag = [p \in Procs |-> FALSE]
  /\ select_idx = [p \in Procs |-> Unset]
  /\ target \in [Procs -> Targets]   \* getRandomBrand, getRandomContainer
  /\ typed = << >>
  /\ hasty = {}
  /\ missed = {}
  /\ disturbed = {}
  /\ refused = {}

-------------------------------------------------------------------------------
(***************************************************************************)
(* Sockets and the condition variable.                                     *)
(***************************************************************************)

\* new client(serverPort[q], ...): the connection is refused when q is not up,
\* and never served when q's server has another one; the client is made anyway.
NewClient(p, q) ==
  LET ok == main[q] # "off" /\ q \notin accepted IN
    /\ sendMessager' = [sendMessager EXCEPT ![p] = [to |-> q, live |-> ok]]
    /\ accepted' = IF ok THEN accepted \cup {q} ELSE accepted
    /\ refused' = IF main[q] = "off" THEN refused \cup {p} ELSE refused

Send(p, m) ==
  LET c == sendMessager[p] IN
    /\ c # None
    /\ wire' = IF c.live THEN [wire EXCEPT ![c.to] = Append(@, m)] ELSE wire

\* The wait that main is in, if any, ends.
Waiting(p) == main[p] \in {"loadWait", "startWait", "quitWait"}

WakeUp(p) ==
  /\ Waiting(p)
  /\ main' = [main EXCEPT ![p] = CASE @ = "loadWait" -> "loadWoken"
                                   [] @ = "startWait" -> "startWoken"
                                   [] OTHER -> "ended"]

\* cv.notify_one()
Notify(p) ==
  /\ \/ WakeUp(p) /\ UNCHANGED missed
     \/ ~ Waiting(p) /\ missed' = missed \cup {p} /\ UNCHANGED main
  /\ UNCHANGED disturbed

-------------------------------------------------------------------------------
(***************************************************************************)
(* The main thread.                                                        *)
(***************************************************************************)

Calculating == {"calculating", "calculated", "quitWait", "over", "ended"}
Loading == {"loading", "loaded", "startWait", "startWoken"} \cup Calculating

Everybody(positions) == \A p \in Procs : main[p] \in positions

Goes(p, from, to) ==
  /\ main[p] = from
  /\ main' = [main EXCEPT ![p] = to]

\* The server is constructed and listens; instance 1 connects later.
StartUp(p) ==
  /\ Goes(p, "off", IF p = 1 THEN "connected" ELSE "up")
  /\ UNCHANGED <<interact, server, sendMessager, streamVars, flagVars,
                 target, typedVars, wakeVars>>

Connect(p) ==
  /\ Goes(p, "up", "connected")
  /\ NewClient(p, Down(p))
  /\ UNCHANGED <<interact, server, wire, flagVars, target, typedVars, wakeVars>>

\* cv.wait(lck), for load, for start or for `q': it begins, and ends by WakeUp.
Wait(p) ==
  /\ \/ Goes(p, "connected", "loadWait")
     \/ Goes(p, "loaded", "startWait")
     \/ Goes(p, "calculated", "quitWait")
  /\ UNCHANGED <<interact, server, sendMessager, streamVars, flagVars,
                 target, typedVars, wakeVars>>

\* Mutant: instance 1 always makes its client when the load arrives.
TestClientNever(p) ==
  /\ Goes(p, "loadWoken", IF p = 1 THEN "connecting" ELSE "loadSend")
  /\ UNCHANGED <<interact, server, sendMessager, streamVars, flagVars,
                 target, typedVars, wakeVars>>

\* Mutant: instance 1's main makes no client of its own.
TestClientNone(p) ==
  /\ Goes(p, "loadWoken", "loadSend")
  /\ UNCHANGED <<interact, server, sendMessager, streamVars, flagVars,
                 target, typedVars, wakeVars>>

\* sendMessager == nullptr, at instance 1
TestClient(p) ==
  /\ Goes(p, "loadWoken",
          IF p = 1 /\ sendMessager[p] = None THEN "connecting" ELSE "loadSend")
  /\ UNCHANGED <<interact, server, sendMessager, streamVars, flagVars,
                 target, typedVars, wakeVars>>

ConnectLate(p) ==
  /\ Goes(p, "connecting", "loadSend")
  /\ NewClient(p, N)
  /\ UNCHANGED <<interact, server, wire, flagVars, target, typedVars, wakeVars>>

\* Mutant: main does not pass the load on.
SendLoadNot(p) ==
  /\ Goes(p, "loadSend", "loading")
  /\ UNCHANGED <<interact, server, sendMessager, streamVars, flagVars,
                 target, typedVars, wakeVars>>

SendLoad(p) ==
  /\ Goes(p, "loadSend", "loading")
  /\ Send(p, Load)
  /\ UNCHANGED <<interact, server, sendMessager, linkVars, flagVars, target,
                 typedVars, wakeVars>>

LoadDatas(p) ==
  /\ Goes(p, "loading", "loaded")
  /\ UNCHANGED <<interact, server, sendMessager, streamVars, flagVars,
                 target, typedVars, wakeVars>>

\* Mutant: the start passed on names the instance itself.
SendStartOwn(p) ==
  /\ Goes(p, "startWoken", "calculating")
  /\ Send(p, Start(p, target[p]))
  /\ select_idx' = [select_idx EXCEPT ![p] = p]
  /\ UNCHANGED <<interact, server, sendMessager, linkVars, load_flag,
                 select_flag, target, typedVars, wakeVars>>

\* If no start has stored a number, main reads what happens to be there; from
\* then on it is known.
SendStart(p) ==
  /\ Goes(p, "startWoken", "calculating")
  /\ \E idx \in Numbers :
       /\ select_idx[p] \in {Unset, idx}
       /\ Send(p, Start(idx, target[p]))
       /\ select_idx' = [select_idx EXCEPT ![p] = idx]
  /\ UNCHANGED <<interact, server, sendMessager, linkVars, load_flag,
                 select_flag, target, typedVars, wakeVars>>

\* doCalculate returns, which its barriers allow when everybody calculates and
\* its chain when it ends at an instance.  The instance where the query was typed
\* waits for its user, the others pause.
Calculated(p) ==
  /\ Everybody(Calculating) /\ select_idx[p] # Stray
  /\ Goes(p, "calculating", IF select_idx[p] = p THEN "calculated" ELSE "over")
  /\ UNCHANGED <<interact, server, sendMessager, streamVars, flagVars,
                 target, typedVars, wakeVars>>

\* A wait ends that nobody has ended.
Disturb(p) ==
  /\ p \in Disturbed
  /\ WakeUp(p)
  /\ disturbed' = disturbed \cup {p}
  /\ UNCHANGED <<interact, server, sendMessager, streamVars, flagVars, target,
                 typedVars, missed>>

Main(p) ==
  \/ Connect(p) \/ Wait(p) \/ TestClient(p) \/ ConnectLate(p)
  \/ SendLoad(p) \/ LoadDatas(p) \/ SendStart(p)

-------------------------------------------------------------------------------
(***************************************************************************)
(* The interaction thread.  It decides by the flags what a line means, and *)
(* acts in later steps.                                                    *)
(***************************************************************************)

\* main's prompts: "input 'load' ..." and "input 'select' ..."
Prompted(p, line) ==
  CASE line = "load" -> main[p] \in {"connected", "loadWait"}
    [] line = "q" -> main[p] \in Calculating
    [] OTHER -> main[p] \in {"loaded", "startWait"}

Types(p, line) ==
  /\ p \in Typists
  /\ main[p] \notin {"off", "ended"} /\ interact[p] = "read"
  /\ Len(typed) < MaxLines
  /\ typed' = Append(typed, line)
  /\ hasty' = IF Prompted(p, line) THEN hasty ELSE hasty \cup {line}

InteractGoes(p, to) == interact' = [interact EXCEPT ![p] = to]

TypeLoad(p) ==
  /\ ~ load_flag[p]
  /\ Types(p, "load")
  /\ InteractGoes(p, IF sendMessager[p] = None THEN "connect" ELSE "load")
  /\ UNCHANGED <<main, server, sendMessager, streamVars, flagVars, target,
                 wakeVars>>

\* new client(serverPort[n], ...), whatever the instance
InteractConnect(p) ==
  /\ interact[p] = "connect"
  /\ NewClient(p, N)
  /\ InteractGoes(p, "load")
  /\ UNCHANGED <<main, server, wire, flagVars, target, typedVars, wakeVars>>

InteractLoad(p) ==
  /\ interact[p] = "load"
  /\ Send(p, Load)
  /\ InteractGoes(p, "read")
  /\ UNCHANGED <<main, server, sendMessager, linkVars, flagVars, target,
                 typedVars, wakeVars>>

TypeSelect(p) ==
  /\ load_flag[p] /\ ~ select_flag[p]
  /\ \/ Types(p, "select") /\ InteractGoes(p, "start")
     \/ \E t \in Targets : Types(p, t) /\ InteractGoes(p, t)
  /\ UNCHANGED <<main, server, sendMessager, streamVars, flagVars, target,
                 wakeVars>>

InteractSet(p) ==
  /\ \E t \in Targets :
       /\ interact[p] = t
       /\ target' = [target EXCEPT ![p] = t]
  /\ InteractGoes(p, "start")
  /\ UNCHANGED <<main, server, sendMessager, streamVars, flagVars, typedVars,
                 wakeVars>>

\* Mutant: instances are counted from 0.
InteractStartFromZero(p) ==
  /\ interact[p] = "start"
  /\ Send(p, Start(p - 1, target[p]))
  /\ InteractGoes(p, "read")
  /\ UNCHANGED <<main, server, sendMessager, linkVars, flagVars, target,
                 typedVars, wakeVars>>

InteractStart(p) ==
  /\ interact[p] = "start"
  /\ Send(p, Start(p, target[p]))
  /\ InteractGoes(p, "read")
  /\ UNCHANGED <<main, server, sendMessager, linkVars, flagVars, target,
                 typedVars, wakeVars>>

\* Mutant: the thread ends before it notifies.
TypeQuitSilent(p) ==
  /\ load_flag[p] /\ select_flag[p]
  /\ Types(p, "q")
  /\ InteractGoes(p, "done")
  /\ UNCHANGED <<main, server, sendMessager, streamVars, flagVars, target,
                 wakeVars>>

TypeQuit(p) ==
  /\ load_flag[p] /\ select_flag[p]
  /\ Types(p, "q")
  /\ Notify(p)
  /\ InteractGoes(p, "done")
  /\ UNCHANGED <<server, sendMessager, streamVars, flagVars, target>>

User(p) == TypeLoad(p) \/ TypeSelect(p) \/ TypeQuit(p)

Interact(p) ==
  InteractConnect(p) \/ InteractLoad(p) \/ InteractSet(p) \/ InteractStart(p)

-------------------------------------------------------------------------------
(***************************************************************************)
(* The server thread.  The message it works on stays at the front of the   *)
(* stream, which nobody else looks at, until the handler is done.          *)
(***************************************************************************)

Receives(p, head) ==
  /\ server[p] = "read"
  /\ wire[p] # << >> /\ Head(wire[p]).head = head

ServerGoes(p, to) == server' = [server EXCEPT ![p] = to]

Consume(p) == wire' = [wire EXCEPT ![p] = Tail(@)]

\* continue: the flag was set before
Ignore(p) ==
  /\ Consume(p)
  /\ UNCHANGED <<server, flagVars>>

\* Mutant: every load notifies.
ReceiveLoadAgain(p) ==
  /\ Receives(p, "load")
  /\ load_flag' = [load_flag EXCEPT ![p] = TRUE]
  /\ ServerGoes(p, "notify")
  /\ UNCHANGED <<main, interact, sendMessager, streamVars, select_flag,
                 select_idx, target, typedVars, wakeVars>>

ReceiveLoad(p) ==
  /\ Receives(p, "load")
  /\ \/ load_flag[p] /\ Ignore(p)
     \/ /\ ~ load_flag[p]
        /\ load_flag' = [load_flag EXCEPT ![p] = TRUE]
        /\ ServerGoes(p, "notify")
        /\ UNCHANGED <<wire, select_flag, select_idx>>
  /\ UNCHANGED <<main, interact, sendMessager, linkVars, target, typedVars,
                 wakeVars>>

ReceiveStart(p) ==
  /\ Receives(p, "start")
  /\ \/ select_flag[p] /\ Ignore(p)
     \/ /\ ~ select_flag[p]
        /\ select_flag' = [select_flag EXCEPT ![p] = TRUE]
        /\ ServerGoes(p, "idx")
        /\ UNCHANGED <<wire, load_flag, select_idx>>
  /\ UNCHANGED <<main, interact, sendMessager, linkVars, target, typedVars,
                 wakeVars>>

StoreIdx(p) ==
  /\ server[p] = "idx"
  /\ select_idx' = [select_idx EXCEPT ![p] = Head(wire[p]).idx]
  /\ ServerGoes(p, "target")
  /\ UNCHANGED <<main, interact, sendMessager, streamVars, load_flag, select_flag,
                 target, typedVars, wakeVars>>

\* targetBrand and targetContainer: a query is one value here
StoreTarget(p) ==
  /\ server[p] = "target"
  /\ target' = [target EXCEPT ![p] = Head(wire[p]).target]
  /\ ServerGoes(p, "notify")
  /\ UNCHANGED <<main, interact, sendMessager, streamVars, flagVars, typedVars,
                 wakeVars>>

NotifyMain(p) ==
  /\ server[p] = "notify"
  /\ Notify(p)
  /\ Consume(p)
  /\ ServerGoes(p, "read")
  /\ UNCHANGED <<interact, sendMessager, linkVars, flagVars, target, typedVars>>

Server(p) ==
  \/ ReceiveLoad(p) \/ ReceiveStart(p)
  \/ StoreIdx(p) \/ StoreTarget(p) \/ NotifyMain(p)

Next ==
  \E p \in Procs :
    \/ StartUp(p) \/ Main(p) \/ Calculated(p) \/ Disturb(p) \/ User(p)
    \/ main[p] # "ended" /\ (Interact(p) \/ Server(p))

Spec == Init /\ [][Next]_vars

\* All instances are started, and the operating system schedules their threads;
\* nobody has to type anything.  That a calculation ends is not for this module
\* to say.
Fairness ==
  \A p \in Procs :
    /\ WF_vars(StartUp(p)) /\ WF_vars(Main(p))
    /\ WF_vars(Interact(p)) /\ WF_vars(Server(p))

FairSpec == Spec /\ Fairness

-------------------------------------------------------------------------------
(***************************************************************************)
(* Properties.                                                             *)
(***************************************************************************)

MainPos == {"off", "up", "connected", "loadWait", "loadWoken", "connecting",
            "loadSend"} \cup Loading

Messages == {Load} \cup {Start(q, t) : q \in Numbers, t \in Targets}

TypeOK ==
  /\ main \in [Procs -> MainPos]
  /\ interact \in [Procs -> {"read", "connect", "load", "start", "done"}
                            \cup Targets]
  /\ server \in [Procs -> {"read", "idx", "target", "notify"}]
  /\ sendMessager \in [Procs -> [to : 0..N, live : BOOLEAN]]
  /\ accepted \subseteq Procs
  /\ wire \in [Procs -> Seq(Messages)]
  /\ load_flag \in [Procs -> BOOLEAN] /\ select_flag \in [Procs -> BOOLEAN]
  /\ select_idx \in [Procs -> Numbers \cup {Unset}]
  /\ target \in [Procs -> Targets]
  /\ typed \in Seq(Lines) /\ hasty \subseteq Lines
  /\ missed \subseteq Procs /\ refused \subseteq Procs
  /\ disturbed \subseteq Disturbed

Count(line) == Cardinality({i \in DOMAIN typed : typed[i] = line})
Selects == Cardinality({i \in DOMAIN typed : typed[i] \notin {"load", "q"}})

\* What may have led an instance on: a load that was typed, a wait that ended by
\* itself.
Loads == Count("load") + Cardinality(disturbed)

\* The query that came with the start that set select_flag is stored.
Stored(p) == select_flag[p] /\ server[p] \notin {"idx", "target"}

\* An instance whose waits only end by notifications calculates after a start has
\* arrived, however often load is typed and forwarded; and with the query of that
\* start, unless a `q' was typed before the calculation: the one that comes between
\* select_flag and the query also ends the wait.
CalculatesSelected ==
  \A p \in Procs \ disturbed : main[p] \in {"startWoken"} \cup Calculating =>
    select_flag[p] /\ ("q" \notin hasty => Stored(p))

\* Once one query has been typed, on whatever terminal, all instances that
\* calculate have the same target and report to the same instance, and the
\* query is the one typed, unless a wait ended by itself or by an early `q'.
AgreeOnQuery ==
  Selects <= 1 /\ disturbed = {} /\ "q" \notin hasty =>
    \A p, q \in Procs :
      main[p] \in Calculating /\ main[q] \in Calculating =>
        /\ select_idx[p] = select_idx[q]
        /\ target[p] = target[q]
        /\ \A t \in Targets : Count(t) = 1 => target[p] = t

\* When a single load is typed, after its prompt, or a single instance goes on by
\* itself, the instances that load form the ring, unless one of them came up
\* before its neighbour: in particular the two threads of instance 1 do not both
\* make a client.
RingComplete ==
  hasty = {} /\ Loads <= 1 /\ refused = {} =>
    \A p \in Procs : main[p] \in Loading =>
      sendMessager[p] = [to |-> Down(p), live |-> TRUE]

\* When lines come after their prompts, a thread that is about to send, whichever
\* thread of the instance had to make the client, has one: at instance 1 both
\* may, each late, and neither tests again.
ClientBeforeSend ==
  hasty = {} => \A p \in Procs :
    main[p] \in {"loadSend", "startWoken"} \/ interact[p] \in {"load", "start"} =>
      sendMessager[p] # None

\* What may keep a line from its effect: it came before the prompt, a client was
\* refused, some main thread was not waiting when it was notified, or one went on
\* by itself and was past the wait that the line ends.
Excused == hasty # {} \/ refused # {} \/ missed # {} \/ disturbed # {}

\* A load reaches everybody, and so does a select after it, unless there is an
\* excuse or the line is typed again.  A second load may leave the first
\* instance with a new client nobody serves, so that a select is not sent on.
StuckOnlyIfMissed ==
  /\ Count("load") > 0 ~> Everybody(Loading) \/ Count("load") > 1 \/ Excused
  /\ Selects > 0 ~> \/ Everybody(Calculating)
                    \/ Selects > 1 \/ Count("load") > 1 \/ Excused

\* A `q' ends the interaction thread, whatever it did: an instance that waits for
\* one when it has been typed cannot be left, unless the server is about to notify.
\* That happens only if a notification was missed, this `q' or, when it ended
\* another wait, what that wait was for.
QuitIsHeard ==
  \A p \in Procs : main[p] = "quitWait" /\ interact[p] = "done" =>
    p \in missed \/ server[p] # "read"

\* What main's prompt promises when it waits for start (main.cpp:161)
SelectStartsCalculation ==
  Selects > 0 ~> Everybody(Calculating) \/ refused # {} \/ hasty # {}

===============================================================================
