----------------------------- MODULE LaunchProofs -----------------------------
(***************************************************************************)
(* For any number of instances, queries, terminals and lines typed: what   *)
(* Launch promises of the flags, of the clients and of the query.          *)
(***************************************************************************)
EXTENDS Launch, SequenceTheorems, FiniteSetTheorems, TLAPS

-------------------------------------------------------------------------------
(***************************************************************************)
(* The inductive invariant.                                                *)
(***************************************************************************)

One(b) == IF b THEN 1 ELSE 0

\* The flags that are set at p, and the `q' that has been typed: what main is
\* notified of.
Signals(p) ==
  One(load_flag[p]) + One(select_flag[p]) + One(interact[p] = "done")

\* The notification that the server is on its way to.
Pending(p) == One(server[p] # "read")

\* The waits that have ended.
Stage(position) ==
  IF position = "ended" THEN 3
  ELSE IF position \in {"startWoken"} \cup Calculating THEN 2
  ELSE IF position \in {"loadWoken", "connecting", "loadSend"} \cup Loading THEN 1
  ELSE 0

\* A main thread that has missed nothing has left a wait for every signal, and one
\* that was not disturbed has left no wait without one.
FlagsAt(p) ==
  /\ p \notin missed => Signals(p) <= Stage(main[p]) + Pending(p)
  /\ p \notin disturbed => Stage(main[p]) + Pending(p) <= Signals(p)
  /\ interact[p] = "done" => load_flag[p] /\ select_flag[p]
  /\ server[p] \in {"idx", "target"} => select_flag[p]
  /\ interact[p] = "done" /\ "q" \notin hasty /\ p \notin disturbed => Stored(p)

FlagInv == \A p \in Procs : FlagsAt(p)

\* The message the server works on is at the front of the stream.
HandlerInv ==
  \A p \in Procs :
    /\ server[p] # "read" => 1 \in 1..Len(wire[p])
    /\ server[p] \in {"idx", "target"} => wire[p][1].head = "start"

\* Who has a client, whoever made it.
ClientMade ==
  \A p \in Procs :
    /\ main[p] \in {"loadSend"} \cup Loading => sendMessager[p] # None
    /\ p # 1 /\ main[p] \notin {"off", "up"} => sendMessager[p] # None
    /\ main[p] = "up" => p # 1
    /\ interact[p] = "load" => sendMessager[p] # None
    /\ hasty = {} /\ interact[p] \in {"start"} \cup Targets =>
         sendMessager[p] # None

\* Nothing has come of any line.
Quiet ==
  \A p \in Procs :
    /\ main[p] \in {"off", "up", "connected", "loadWait"}
    /\ ~ load_flag[p] /\ ~ select_flag[p] /\ wire[p] = << >>

\* Before a load is sent for the first time nothing else happens.
BeforeLoad ==
  /\ Loads = 0 => Quiet /\ \A p \in Procs : interact[p] = "read"
  /\ Loads <= 1 => \A p \in Procs : interact[p] \in {"connect", "load"} =>
       Quiet /\ disturbed = {} /\ \A q \in Procs \ {p} : interact[q] = "read"

\* Every instance has one client or none, and no two to the same server.
ClientDown ==
  \A p \in Procs :
    /\ sendMessager[p] = None => Down(p) \notin accepted
    /\ sendMessager[p] # None /\ p \notin refused =>
         sendMessager[p] = [to |-> Down(p), live |-> TRUE]

\* Who is about to make a client has none.
NoneYet ==
  \A p \in Procs :
    /\ interact[p] = "connect" => p = 1 /\ sendMessager[p] = None
    /\ main[p] = "connecting" => p = 1 /\ sendMessager[p] = None
    /\ p # 1 /\ main[p] \in {"off", "up"} => sendMessager[p] = None

\* When a single load is typed, after its prompt, an instance makes one client.
OneClientEach == hasty = {} /\ Loads <= 1 => ClientDown /\ NoneYet

ClientInv == ClientMade /\ BeforeLoad /\ OneClientEach

\* No select has been sent.
NoStart ==
  \A p \in Procs :
    /\ ~ select_flag[p]
    /\ \A i \in 1..Len(wire[p]) : wire[p][i] = Load

Selecting(p) == interact[p] \in {"start"} \cup Targets

\* The query typed at o is the only one there is.
QueryOf(o) ==
  /\ \A p \in Procs \ {o} : ~ Selecting(p)
  /\ Selecting(o) => NoStart
  /\ \A p \in Procs :
       /\ Stored(p) => select_idx[p] = o /\ target[p] = target[o]
       /\ server[p] = "target" => select_idx[p] = o
       /\ \A i \in 1..Len(wire[p]) : wire[p][i] \in {Load, Start(o, target[o])}
  /\ \A t \in Targets : Count(t) = 1 =>
       IF interact[o] \in Targets THEN interact[o] = t ELSE target[o] = t

\* Every wait has ended by a notification, and none by an early `q'.
Orderly == disturbed = {} /\ "q" \notin hasty

QueryInv ==
  Orderly =>
    /\ Selects = 0 => NoStart /\ \A p \in Procs : ~ Selecting(p)
    /\ Selects = 1 => \E o \in Procs : QueryOf(o)

IInv == TypeOK /\ HandlerInv /\ FlagInv /\ ClientInv /\ QueryInv

-------------------------------------------------------------------------------
(***************************************************************************)
(* The ring, the sockets and the condition variable.                       *)
(***************************************************************************)

\* Every instance is connected to one other, and no two to the same.
LEMMA Neighbours ==
  /\ 1 \in Procs /\ N \in Procs /\ N \in Nat /\ Down(1) = N
  /\ \A p \in Procs : Down(p) \in Procs
  /\ \A p, q \in Procs : Down(p) = Down(q) => p = q
  BY NAssumption DEF Down, Procs

\* Who makes a client has one; a new connection is to a server that had none.
LEMMA ClientMakes ==
  ASSUME TypeOK, NEW p \in Procs, NEW q \in Procs, NewClient(p, q)
  PROVE  /\ sendMessager' \in [Procs -> [to : 0..N, live : BOOLEAN]]
         /\ accepted' \subseteq accepted \cup {q}
         /\ accepted' \subseteq Procs /\ refused' \subseteq Procs
         /\ refused \subseteq refused'
         /\ sendMessager'[p] # None
         /\ \A r \in Procs \ {p} : sendMessager'[r] = sendMessager[r]
         /\ q \notin accepted /\ p \notin refused' =>
              sendMessager'[p] = [to |-> q, live |-> TRUE]
  <1> DEFINE ok == main[q] # "off" /\ q \notin accepted
             c == [to |-> q, live |-> ok]
  <1>1. N \in Nat /\ q \in 0..N /\ q # 0
    BY NAssumption DEF Procs
  <1>2. c \in [to : 0..N, live : BOOLEAN] /\ c # None
    BY <1>1 DEF None
  <1>3. sendMessager' = [sendMessager EXCEPT ![p] = c]
    BY DEF NewClient
  <1> HIDE DEF c
  <1>4. /\ sendMessager' \in [Procs -> [to : 0..N, live : BOOLEAN]]
        /\ sendMessager'[p] = c
        /\ \A r \in Procs \ {p} : sendMessager'[r] = sendMessager[r]
    BY <1>2, <1>3 DEF TypeOK
  <1>5. /\ accepted' = IF ok THEN accepted \cup {q} ELSE accepted
        /\ refused' = IF main[q] = "off" THEN refused \cup {p} ELSE refused
    BY DEF NewClient
  <1>6. q \notin accepted /\ p \notin refused' => ok
    BY <1>5
  <1> QED
    BY <1>2, <1>4, <1>5, <1>6 DEF TypeOK, c

\* What is sent comes to the end of one stream, or of none.
LEMMA Sends ==
  ASSUME TypeOK, NEW p \in Procs, NEW m \in Messages, Send(p, m)
  PROVE  /\ sendMessager[p] # None
         /\ wire' \in [Procs -> Seq(Messages)]
         /\ \A q \in Procs : wire'[q] = wire[q] \/ wire'[q] = Append(wire[q], m)
  <1>1. \A q \in Procs : wire[q] \in Seq(Messages)
                         /\ Append(wire[q], m) \in Seq(Messages)
    BY AppendProperties DEF TypeOK
  <1> QED
    BY <1>1 DEF Send, TypeOK

\* The elements of a stream after a send.
LEMMA Appended ==
  ASSUME NEW S, NEW s \in Seq(S), NEW e \in S,
         NEW i \in 1..Len(Append(s, e))
  PROVE  Append(s, e)[i] = e \/ (i \in 1..Len(s) /\ Append(s, e)[i] = s[i])
  BY AppendProperties, LenProperties

\* The first message of a stream.
LEMMA Front ==
  ASSUME TypeOK, NEW p \in Procs, wire[p] # << >> \/ 1 \in 1..Len(wire[p])
  PROVE  /\ wire[p] # << >> /\ wire[p] \in Seq(Messages)
         /\ 1 \in 1..Len(wire[p]) /\ Head(wire[p]) = wire[p][1]
         /\ Head(wire[p]) \in Messages
  <1>1. wire[p] \in Seq(Messages) /\ wire[p] # << >>
    BY EmptySeq DEF TypeOK
  <1>2. 1 \in 1..Len(wire[p]) /\ Head(wire[p]) = wire[p][1]
    BY <1>1, EmptySeq
  <1> QED
    BY <1>1, <1>2, HeadTailProperties

\* What is consumed is the first message of the stream; the others stay.
LEMMA Consumed ==
  ASSUME TypeOK, NEW p \in Procs, wire[p] # << >>, Consume(p)
  PROVE  /\ wire' \in [Procs -> Seq(Messages)]
         /\ \A q \in Procs \ {p} : wire'[q] = wire[q]
         /\ \A i \in 1..Len(wire'[p]) :
              i + 1 \in 1..Len(wire[p]) /\ wire'[p][i] = wire[p][i + 1]
  <1>1. wire[p] \in Seq(Messages)
    BY DEF TypeOK
  <1>2. /\ wire' = [wire EXCEPT ![p] = Tail(wire[p])]
        /\ wire'[p] = Tail(wire[p]) /\ wire' \in [Procs -> Seq(Messages)]
    BY <1>1, HeadTailProperties DEF TypeOK, Consume
  <1>3. \A i \in 1..Len(Tail(wire[p])) :
          i + 1 \in 1..Len(wire[p]) /\ Tail(wire[p])[i] = wire[p][i + 1]
    BY <1>1, HeadTailProperties, LenProperties
  <1> QED
    BY <1>2, <1>3 DEF TypeOK

\* A start carries a number and a query; a load is no start.
LEMMA Starts ==
  /\ \A p \in Numbers, t \in Targets :
       /\ Start(p, t) \in Messages /\ Start(p, t).idx = p
       /\ Start(p, t).target = t /\ Start(p, t) # Load
       /\ Start(p, t).head = "start"
  /\ Load \in Messages /\ Load.head = "load"
  /\ \A m \in Messages : m.head = "start" =>
       /\ m.idx \in Numbers /\ m.target \in Targets /\ m # Load
  <1>1. Load \in Messages /\ Load.head = "load"
    BY DEF Load, Messages
  <1>2. ASSUME NEW p \in Numbers, NEW t \in Targets
        PROVE  /\ Start(p, t) \in Messages /\ Start(p, t).idx = p
               /\ Start(p, t).target = t /\ Start(p, t) # Load
               /\ Start(p, t).head = "start"
    BY DEF Start, Load, Messages
  <1>3. ASSUME NEW m \in Messages, m.head = "start"
        PROVE  m.idx \in Numbers /\ m.target \in Targets /\ m # Load
    <2>1. m # Load
      BY <1>1, <1>3
    <2>2. PICK p \in Numbers, t \in Targets : m = Start(p, t)
      BY <2>1 DEF Messages
    <2> QED
      BY <1>2, <2>1, <2>2
  <1> QED
    BY <1>1, <1>2, <1>3

\* The main thread goes on from its wait.
LEMMA Woken ==
  ASSUME TypeOK, NEW p \in Procs, WakeUp(p)
  PROVE  /\ main' \in [Procs -> MainPos]
         /\ \A q \in Procs \ {p} : main'[q] = main[q]
         /\ \/ main[p] = "loadWait" /\ main'[p] = "loadWoken"
            \/ main[p] = "startWait" /\ main'[p] = "startWoken"
            \/ main[p] = "quitWait" /\ main'[p] = "ended"
  BY DEF TypeOK, WakeUp, Waiting, MainPos, Loading, Calculating

\* A notification wakes the main thread or is missed.
LEMMA Notified ==
  ASSUME TypeOK, NEW p \in Procs, Notify(p)
  PROVE  /\ main' \in [Procs -> MainPos] /\ missed' \subseteq Procs
         /\ \A q \in Procs \ {p} : main'[q] = main[q]
         /\ missed \subseteq missed' /\ missed' \subseteq missed \cup {p}
         /\ UNCHANGED disturbed
         /\ \/ main[p] = "loadWait" /\ main'[p] = "loadWoken"
            \/ main[p] = "startWait" /\ main'[p] = "startWoken"
            \/ main[p] = "quitWait" /\ main'[p] = "ended"
            \/ main'[p] = main[p] /\ p \in missed'
  <1>1. CASE WakeUp(p)
    BY <1>1, Woken DEF TypeOK, Notify, WakeUp
  <1>2. CASE ~ WakeUp(p)
    BY <1>2 DEF TypeOK, Notify
  <1> QED
    BY <1>1, <1>2

-------------------------------------------------------------------------------
(***************************************************************************)
(* Types.                                                                  *)
(***************************************************************************)

LEMMA InitType == Init => TypeOK
  <1> SUFFICES ASSUME Init PROVE TypeOK
    OBVIOUS
  <1>1. wire \in [Procs -> Seq(Messages)] /\ typed \in Seq(Lines)
    BY EmptySeq DEF Init
  <1>2. None \in [to : 0..N, live : BOOLEAN]
    BY NAssumption DEF None
  <1> QED
    BY <1>1, <1>2 DEF Init, TypeOK, MainPos

\* The main thread, and lines read and acted on, but for what is sent.
LEMMA QuietTypes ==
  ASSUME TypeOK, NEW p \in Procs,
         \/ StartUp(p) \/ Connect(p) \/ Wait(p) \/ TestClient(p)
         \/ ConnectLate(p) \/ LoadDatas(p) \/ Calculated(p) \/ Disturb(p)
         \/ TypeLoad(p) \/ TypeSelect(p) \/ TypeQuit(p)
         \/ InteractConnect(p) \/ InteractSet(p)
  PROVE  TypeOK'
  <1> USE DEF linkVars, streamVars, typedVars, flagVars, wakeVars
  <1>a. ASSUME NEW line \in Lines, Types(p, line)
        PROVE  typed' \in Seq(Lines) /\ hasty' \subseteq Lines
    BY <1>a, AppendProperties DEF Types, TypeOK
  <1>b. ASSUME NEW q \in Procs, NewClient(p, q)
        PROVE  /\ sendMessager' \in [Procs -> [to : 0..N, live : BOOLEAN]]
               /\ accepted' \subseteq Procs /\ refused' \subseteq Procs
    BY <1>b, ClientMakes
  <1>1. CASE StartUp(p) \/ Wait(p) \/ TestClient(p) \/ LoadDatas(p) \/ Calculated(p)
    <2>1. main' \in [Procs -> MainPos]
      BY <1>1 DEF StartUp, Wait, TestClient, LoadDatas, Calculated, Goes, TypeOK,
                  MainPos, Loading, Calculating
    <2> QED
      BY <1>1, <2>1 DEF StartUp, Wait, TestClient, LoadDatas, Calculated, TypeOK
  <1>2. CASE Connect(p) \/ ConnectLate(p)
    <2>1. main' \in [Procs -> MainPos]
      BY <1>2 DEF Connect, ConnectLate, Goes, TypeOK, MainPos
    <2>2. \E q \in Procs : NewClient(p, q)
      BY <1>2, Neighbours DEF Connect, ConnectLate
    <2> QED
      BY <1>2, <1>b, <2>1, <2>2 DEF Connect, ConnectLate, TypeOK
  <1>3. CASE TypeLoad(p) \/ TypeSelect(p)
    <2>1. \E line \in Lines : Types(p, line)
      BY <1>3 DEF TypeLoad, TypeSelect, Lines
    <2>2. /\ interact' \in [Procs -> {"read", "connect", "load", "start", "done"}
                                     \cup Targets]
      BY <1>3 DEF TypeLoad, TypeSelect, InteractGoes, TypeOK
    <2> QED
      BY <1>3, <1>a, <2>1, <2>2 DEF TypeLoad, TypeSelect, TypeOK
  <1>4. CASE TypeQuit(p)
    <2>1. Types(p, "q") /\ Notify(p) /\ "q" \in Lines
      BY <1>4 DEF TypeQuit, Lines
    <2>2. interact' \in [Procs -> {"read", "connect", "load", "start", "done"}
                                  \cup Targets]
      BY <1>4 DEF TypeQuit, InteractGoes, TypeOK
    <2> QED
      BY <1>4, <1>a, <2>1, <2>2, Notified DEF TypeQuit, TypeOK
  <1>5. CASE InteractConnect(p)
    <2>1. NewClient(p, N) /\ N \in Procs
      BY <1>5, Neighbours DEF InteractConnect
    <2>2. interact' \in [Procs -> {"read", "connect", "load", "start", "done"}
                                  \cup Targets]
      BY <1>5 DEF InteractConnect, InteractGoes, TypeOK
    <2> QED
      BY <1>5, <1>b, <2>1, <2>2 DEF InteractConnect, TypeOK
  <1>6. CASE InteractSet(p)
    <2>1. /\ interact' \in [Procs -> {"read", "connect", "load", "start", "done"}
                                     \cup Targets]
          /\ target' \in [Procs -> Targets]
      BY <1>6 DEF InteractSet, InteractGoes, TypeOK
    <2> QED
      BY <1>6, <2>1 DEF InteractSet, TypeOK
  <1>7. CASE Disturb(p)
    <2>1. disturbed' \subseteq Disturbed
      BY <1>7 DEF Disturb, TypeOK
    <2> QED
      BY <1>7, <2>1, Woken DEF Disturb, TypeOK
  <1> QED
    BY <1>1, <1>2, <1>3, <1>4, <1>5, <1>6, <1>7

\* What is sent is a message, of whatever number the instance has.
LEMMA SendTypes ==
  ASSUME TypeOK, NEW p \in Procs,
         SendLoad(p) \/ SendStart(p) \/ InteractLoad(p) \/ InteractStart(p)
  PROVE  TypeOK'
  <1> USE DEF linkVars, streamVars, typedVars, flagVars, wakeVars
  <1>1. target[p] \in Targets /\ p \in Numbers
    BY DEF TypeOK, Numbers
  <1>2. PICK m \in Messages : Send(p, m)
    BY <1>1, Starts DEF SendLoad, InteractLoad, SendStart, InteractStart
  <1>3. wire' \in [Procs -> Seq(Messages)]
    BY <1>2, Sends
  <1>4. main' \in [Procs -> MainPos]
    BY DEF SendLoad, SendStart, InteractLoad, InteractStart, Goes, TypeOK,
           MainPos, Loading, Calculating
  <1>5. interact' \in [Procs -> {"read", "connect", "load", "start", "done"}
                                \cup Targets]
    BY DEF SendLoad, SendStart, InteractLoad, InteractStart, InteractGoes, TypeOK
  <1>6. select_idx' \in [Procs -> Numbers \cup {Unset}]
    BY DEF SendLoad, SendStart, InteractLoad, InteractStart, TypeOK
  <1> QED
    BY <1>3, <1>4, <1>5, <1>6
       DEF SendLoad, SendStart, InteractLoad, InteractStart, TypeOK

LEMMA ReceiveTypes ==
  ASSUME TypeOK, HandlerInv, NEW p \in Procs, Server(p)
  PROVE  TypeOK'
  <1> USE DEF linkVars, streamVars, typedVars, flagVars, wakeVars
  <1>1. server' \in [Procs -> {"read", "idx", "target", "notify"}]
    BY DEF Server, ReceiveLoad, ReceiveStart, Ignore, StoreIdx, StoreTarget,
           NotifyMain, ServerGoes, TypeOK
  <1>2. wire' \in [Procs -> Seq(Messages)]
    <2>1. CASE UNCHANGED wire
      BY <2>1 DEF TypeOK
    <2>2. CASE Consume(p)
      <3>1. wire[p] # << >>
        BY Front DEF Server, ReceiveLoad, ReceiveStart, Receives, StoreIdx,
                     StoreTarget, NotifyMain, HandlerInv
      <3> QED
        BY <2>2, <3>1, Consumed
    <2> QED
      BY <2>1, <2>2 DEF Server, ReceiveLoad, ReceiveStart, Ignore, StoreIdx,
                        StoreTarget, NotifyMain
  <1>3. CASE ReceiveLoad(p) \/ ReceiveStart(p)
    BY <1>1, <1>2, <1>3 DEF ReceiveLoad, ReceiveStart, Ignore, TypeOK
  <1>4. CASE StoreIdx(p) \/ StoreTarget(p)
    <2>1. Head(wire[p]).idx \in Numbers /\ Head(wire[p]).target \in Targets
      BY <1>4, Front, Starts DEF StoreIdx, StoreTarget, HandlerInv
    <2> QED
      BY <1>1, <1>4, <2>1 DEF StoreIdx, StoreTarget, TypeOK
  <1>5. CASE NotifyMain(p)
    BY <1>1, <1>2, <1>5, Notified DEF NotifyMain, TypeOK
  <1> QED
    BY <1>3, <1>4, <1>5 DEF Server

LEMMA NextType == TypeOK /\ HandlerInv /\ [Next]_vars => TypeOK'
  <1> SUFFICES ASSUME TypeOK, HandlerInv, [Next]_vars PROVE TypeOK'
    OBVIOUS
  <1>1. CASE UNCHANGED vars
    BY <1>1 DEF vars, streamVars, linkVars, flagVars, typedVars, wakeVars, TypeOK
  <1>2. ASSUME NEW p \in Procs,
               \/ StartUp(p) \/ Main(p) \/ Calculated(p) \/ Disturb(p) \/ User(p)
               \/ main[p] # "ended" /\ (Interact(p) \/ Server(p))
        PROVE  TypeOK'
    BY <1>2, QuietTypes, SendTypes, ReceiveTypes DEF Main, User, Interact
  <1> QED
    BY <1>1, <1>2 DEF Next

-------------------------------------------------------------------------------
(***************************************************************************)
(* The flags, and the threads that wait for and notify each other.         *)
(***************************************************************************)

\* A step that notifies nobody and receives nothing leaves the flags alone.
LEMMA FlagsKept ==
  ASSUME NEW p \in Procs,
         \/ StartUp(p) \/ Main(p) \/ Calculated(p) \/ TypeLoad(p)
         \/ TypeSelect(p) \/ Interact(p)
  PROVE  UNCHANGED <<server, load_flag, select_flag, missed, disturbed>>
  BY DEF StartUp, Main, Connect, Wait, TestClient, ConnectLate, SendLoad,
         LoadDatas, SendStart, Calculated, TypeLoad, TypeSelect, Interact,
         InteractConnect, InteractLoad, InteractSet, InteractStart, flagVars,
         wakeVars

\* The main thread only comes to need a flag by a notification.
LEMMA MainSteps ==
  ASSUME TypeOK, NEW p \in Procs,
         StartUp(p) \/ Main(p) \/ Calculated(p)
  PROVE  /\ UNCHANGED interact
         /\ \A q \in Procs \ {p} : main'[q] = main[q]
         /\ \/ /\ main[p] \in {"off", "up", "connected"}
               /\ main'[p] \in {"up", "connected", "loadWait"}
            \/ /\ main[p] \in {"loadWoken", "connecting", "loadSend", "loading",
                               "loaded"}
               /\ main'[p] \in {"connecting", "loadSend", "loading", "loaded",
                                "startWait"}
            \/ /\ main[p] \in {"startWoken", "calculating", "calculated"}
               /\ main'[p] \in {"calculating", "calculated", "over", "quitWait"}
  <1> USE DEF Goes, TypeOK
  <1>1. CASE StartUp(p)
    BY <1>1 DEF StartUp
  <1>2. CASE Connect(p) \/ Wait(p) \/ SendLoad(p) \/ LoadDatas(p)
    BY <1>2 DEF Connect, Wait, SendLoad, LoadDatas
  <1>3. CASE TestClient(p) \/ ConnectLate(p)
    BY <1>3 DEF TestClient, ConnectLate
  <1>4. CASE SendStart(p) \/ Calculated(p)
    BY <1>4 DEF SendStart, Calculated
  <1> QED
    BY <1>1, <1>2, <1>3, <1>4 DEF Main

\* The interaction thread leaves main alone but for its last line.
LEMMA InteractSteps ==
  ASSUME TypeOK, NEW p \in Procs,
         TypeLoad(p) \/ TypeSelect(p) \/ Interact(p)
  PROVE  /\ UNCHANGED main
         /\ \A q \in Procs \ {p} : interact'[q] = interact[q]
         /\ interact'[p] # "done"
  <1> USE DEF InteractGoes, TypeOK
  <1>1. CASE TypeLoad(p)
    BY <1>1 DEF TypeLoad
  <1>2. CASE TypeSelect(p)
    BY <1>2, TargetsAssumption DEF TypeSelect
  <1>3. CASE Interact(p)
    BY <1>3 DEF Interact, InteractConnect, InteractLoad, InteractSet,
                InteractStart
  <1> QED
    BY <1>1, <1>2, <1>3

\* The server only works for its own instance, and leaves main alone until it
\* notifies.
LEMMA ServerSteps ==
  ASSUME TypeOK, NEW p \in Procs, Server(p)
  PROVE  /\ UNCHANGED <<interact, disturbed, typed, hasty, sendMessager, accepted,
                        refused>>
         /\ \A q \in Procs \ {p} :
              /\ load_flag'[q] = load_flag[q] /\ select_flag'[q] = select_flag[q]
              /\ select_idx'[q] = select_idx[q] /\ target'[q] = target[q]
              /\ server'[q] = server[q] /\ main'[q] = main[q]
         /\ NotifyMain(p) \/ UNCHANGED <<main, missed>>
  <1> USE DEF TypeOK, linkVars, flagVars, streamVars, typedVars, wakeVars, ServerGoes
  <1>1. CASE ReceiveLoad(p)
    BY <1>1 DEF ReceiveLoad, Ignore
  <1>2. CASE ReceiveStart(p)
    BY <1>2 DEF ReceiveStart, Ignore
  <1>3. CASE StoreIdx(p) \/ StoreTarget(p)
    BY <1>3 DEF StoreIdx, StoreTarget
  <1>4. CASE NotifyMain(p)
    BY <1>4, Notified DEF NotifyMain
  <1> QED
    BY <1>1, <1>2, <1>3, <1>4 DEF Server

\* Lines are typed by users only.
LEMMA LinesKept ==
  ASSUME NEW p \in Procs,
         \/ StartUp(p) \/ Main(p) \/ Calculated(p) \/ Disturb(p) \/ Interact(p)
         \/ Server(p)
  PROVE  UNCHANGED typedVars
  BY DEF StartUp, Main, Connect, Wait, TestClient, ConnectLate, SendLoad,
         LoadDatas, SendStart, Calculated, Interact, InteractConnect,
         InteractLoad, InteractSet, InteractStart, Server, ReceiveLoad,
         ReceiveStart, StoreIdx, StoreTarget, NotifyMain, Disturb

\* A line typed before its prompt is never forgotten.
LEMMA HastyStays ==
  ASSUME TypeOK, [Next]_vars
  PROVE  hasty \subseteq hasty'
  <1>1. CASE UNCHANGED vars
    BY <1>1 DEF vars, typedVars
  <1>2. ASSUME NEW p \in Procs, User(p) PROVE hasty \subseteq hasty'
    BY <1>2 DEF User, TypeLoad, TypeSelect, TypeQuit, Types
  <1> QED
    BY <1>1, <1>2, LinesKept DEF Next, typedVars

\* Where no thread has moved that others wait for, the account is kept.
LEMMA FlagsAtKept ==
  ASSUME NEW q \in Procs, FlagsAt(q), hasty \subseteq hasty',
         q \in missed => q \in missed', q \in disturbed => q \in disturbed',
         Stage(main'[q]) = Stage(main[q]),
         load_flag'[q] = load_flag[q], select_flag'[q] = select_flag[q],
         server'[q] = server[q],
         (interact'[q] = "done") = (interact[q] = "done")
  PROVE  FlagsAt(q)'
  <1>1. Signals(q)' = Signals(q) /\ Pending(q)' = Pending(q)
    BY DEF Signals, Pending
  <1>2. Stage(main[q])' = Stage(main[q])
    BY DEF Stage
  <1> QED
    BY <1>1, <1>2 DEF FlagsAt, Stored

\* What the numbers range over.
LEMMA Numbered ==
  ASSUME TypeOK, NEW p \in Procs
  PROVE  /\ Signals(p) \in 0..3 /\ Pending(p) \in 0..1
         /\ Stage(main[p]) \in 0..3
         /\ load_flag[p] \in BOOLEAN /\ select_flag[p] \in BOOLEAN
  BY DEF TypeOK, Signals, Pending, Stage, One

LEMMA FlagsAtNotified ==
  ASSUME TypeOK, NEW p \in Procs, FlagsAt(p), Notify(p),
         load_flag'[p] = load_flag[p], select_flag'[p] = select_flag[p],
         hasty \subseteq hasty',
         \/ /\ NotifyMain(p) /\ interact'[p] = interact[p]
         \/ /\ TypeQuit(p) /\ interact[p] # "done" /\ interact'[p] = "done"
            /\ load_flag[p] /\ select_flag[p] /\ server'[p] = server[p]
            /\ "q" \notin hasty' => main[p] \in Calculating
  PROVE  FlagsAt(p)'
  <1>0. Signals(p) \in 0..3 /\ Pending(p) \in 0..1 /\ Stage(main[p]) \in 0..3
    BY Numbered
  <1>1. /\ UNCHANGED disturbed
        /\ \/ p \in missed' /\ Stage(main[p])' = Stage(main[p])
           \/ Stage(main[p])' = Stage(main[p]) + 1 /\ (p \in missed <=> p \in missed')
    BY Notified DEF Notify, WakeUp, Waiting, Stage, Loading, Calculating, TypeOK
  <1>2. Signals(p)' - Pending(p)' = Signals(p) - Pending(p) + 1
    <2>1. CASE NotifyMain(p) /\ interact'[p] = interact[p]
      BY <2>1 DEF NotifyMain, ServerGoes, Signals, Pending, One, TypeOK
    <2>2. CASE interact[p] # "done" /\ interact'[p] = "done" /\ server'[p] = server[p]
      BY <2>2 DEF Signals, Pending, One, TypeOK
    <2> QED
      BY <2>1, <2>2
  <1>3. Signals(p)' \in Int /\ Pending(p)' \in Int /\ Stage(main[p])' \in Int
    BY <1>0, <1>1 DEF Signals, Pending, One
  <1>4. /\ p \notin missed' => Signals(p)' <= Stage(main[p])' + Pending(p)'
        /\ p \notin disturbed' => Stage(main[p])' + Pending(p)' <= Signals(p)'
    BY <1>0, <1>1, <1>2, <1>3 DEF FlagsAt
  <1>5. server'[p] \in {"idx", "target"} => select_flag[p]
    BY DEF FlagsAt, NotifyMain, ServerGoes, TypeOK
  <1>6. interact'[p] = "done" /\ "q" \notin hasty' /\ p \notin disturbed' => Stored(p)'
    <2>1. CASE NotifyMain(p)
      BY <1>1, <2>1 DEF FlagsAt, NotifyMain, ServerGoes, Stored, TypeOK
    <2>2. ASSUME interact[p] # "done", main[p] \in Calculating, p \notin disturbed
          PROVE  select_flag[p] /\ server[p] \notin {"idx", "target"}
      <3>1. Stage(main[p]) >= 2 /\ Signals(p) <= 2
        BY <2>2 DEF Stage, Signals, One
      <3>2. Pending(p) = 0 /\ Signals(p) = 2
        BY <1>0, <2>2, <3>1 DEF FlagsAt
      <3> QED
        BY <2>2, <3>2 DEF Signals, Pending, One, FlagsAt, TypeOK
    <2> QED
      BY <1>1, <2>1, <2>2 DEF Stored
  <1>7. interact'[p] = "done" => load_flag'[p] /\ select_flag'[p]
    BY DEF FlagsAt
  <1> QED
    BY <1>4, <1>5, <1>6, <1>7 DEF FlagsAt

LEMMA NextFlagInv == TypeOK /\ FlagInv /\ [Next]_vars => FlagInv'
  <1> SUFFICES ASSUME TypeOK, FlagInv, [Next]_vars, NEW q \in Procs
               PROVE  FlagsAt(q)'
    BY DEF FlagInv
  <1> USE HastyStays
  <1>0. FlagsAt(q)
    BY DEF FlagInv
  <1>1. CASE UNCHANGED vars
    BY <1>0, <1>1, FlagsAtKept DEF vars, flagVars, wakeVars
  <1>2. ASSUME NEW p \in Procs, StartUp(p) \/ Main(p) \/ Calculated(p)
        PROVE  FlagsAt(q)'
    <2>1. Stage(main'[q]) = Stage(main[q])
      BY <1>2, MainSteps DEF Stage, Loading, Calculating
    <2> QED
      BY <1>0, <1>2, <2>1, FlagsKept, MainSteps, FlagsAtKept
  <1>3. ASSUME NEW p \in Procs, TypeLoad(p) \/ TypeSelect(p) \/ Interact(p)
        PROVE  FlagsAt(q)'
    <2>1. (interact'[q] = "done") = (interact[q] = "done")
      BY <1>3, InteractSteps, TargetsAssumption
         DEF TypeLoad, TypeSelect, Types, Interact, InteractConnect, InteractLoad,
             InteractSet, InteractStart
    <2> QED
      BY <1>0, <1>3, <2>1, FlagsKept, InteractSteps, FlagsAtKept
  <1>4. ASSUME NEW p \in Procs, TypeQuit(p) PROVE FlagsAt(q)'
    <2>1. /\ interact[p] = "read" /\ interact' = [interact EXCEPT ![p] = "done"]
          /\ load_flag[p] /\ select_flag[p] /\ Notify(p)
          /\ UNCHANGED <<load_flag, select_flag, server>>
          /\ "q" \notin hasty' => main[p] \in Calculating
      BY <1>4 DEF TypeQuit, Types, InteractGoes, flagVars, Prompted
    <2>2. CASE q = p
      BY <1>0, <1>4, <2>1, <2>2, FlagsAtNotified DEF TypeOK
    <2>3. CASE q # p
      BY <1>0, <2>1, <2>3, Notified, FlagsAtKept DEF TypeOK
    <2> QED
      BY <2>2, <2>3
  <1>5. ASSUME NEW p \in Procs, Server(p) PROVE FlagsAt(q)'
    <2>1. CASE q # p
      <3>1. missed \subseteq missed'
        BY <1>5, ServerSteps, Notified DEF NotifyMain
      <3> QED
        BY <1>0, <1>5, <2>1, <3>1, ServerSteps, FlagsAtKept
    <2>2. CASE q = p /\ NotifyMain(p)
      BY <1>0, <1>5, <2>2, ServerSteps, FlagsAtNotified DEF NotifyMain, flagVars
    <2>3. CASE q = p /\ ~ NotifyMain(p)
      <3>1. UNCHANGED <<main, missed, disturbed, interact, hasty>>
        BY <1>5, <2>3, ServerSteps
      <3>2. /\ Signals(p)' - Pending(p)' = Signals(p) - Pending(p)
            /\ server'[p] \in {"idx", "target"} => select_flag'[p]
            /\ load_flag[p] => load_flag'[p]
            /\ select_flag[p] => select_flag'[p]
            /\ Stored(p) => Stored(p)'
        <4> USE DEF Signals, Pending, One, ServerGoes, Stored, TypeOK, flagVars
        <4>1. CASE ReceiveLoad(p)
          BY <3>1, <4>1 DEF ReceiveLoad, Receives, Ignore
        <4>2. CASE ReceiveStart(p)
          BY <3>1, <4>2 DEF ReceiveStart, Receives, Ignore
        <4>3. CASE StoreIdx(p) \/ StoreTarget(p)
          BY <1>0, <2>3, <3>1, <4>3 DEF StoreIdx, StoreTarget, FlagsAt
        <4> QED
          BY <1>5, <2>3, <4>1, <4>2, <4>3 DEF Server
      <3>3. Stage(main[p])' = Stage(main[p])
        BY <3>1 DEF Stage
      <3>4. /\ Signals(p) \in Int /\ Pending(p) \in Int /\ Stage(main[p]) \in Int
            /\ Signals(p)' \in Int /\ Pending(p)' \in Int
        BY Numbered DEF Signals, Pending, One
      <3>5. /\ p \notin missed' => Signals(p)' <= Stage(main[p])' + Pending(p)'
            /\ p \notin disturbed' => Stage(main[p])' + Pending(p)' <= Signals(p)'
        BY <1>0, <2>3, <3>1, <3>2, <3>3, <3>4 DEF FlagsAt
      <3> QED
        BY <1>0, <2>3, <3>1, <3>2, <3>5 DEF FlagsAt
    <2> QED
      BY <2>1, <2>2, <2>3
  <1>6. ASSUME NEW p \in Procs, Disturb(p) PROVE FlagsAt(q)'
    <2>1. /\ WakeUp(p) /\ disturbed' = disturbed \cup {p}
          /\ UNCHANGED <<interact, server, load_flag, select_flag, missed, hasty>>
      BY <1>6 DEF Disturb, flagVars, typedVars
    <2>2. CASE q # p
      BY <1>0, <2>1, <2>2, Woken, FlagsAtKept
    <2>3. CASE q = p
      <3>1. Stage(main[p])' = Stage(main[p]) + 1
        BY <2>1, Woken DEF Stage, Loading, Calculating
      <3>2. Signals(p)' = Signals(p) /\ Pending(p)' = Pending(p)
        BY <2>1 DEF Signals, Pending
      <3>3. Signals(p) \in Int /\ Pending(p) \in Int /\ Stage(main[p]) \in Int
        BY Numbered
      <3>4. p \notin missed' => Signals(p)' <= Stage(main[p])' + Pending(p)'
        BY <1>0, <2>1, <2>3, <3>1, <3>2, <3>3 DEF FlagsAt
      <3> QED
        BY <1>0, <2>1, <2>3, <3>4 DEF FlagsAt
    <2> QED
      BY <2>2, <2>3
  <1> QED
    BY <1>1, <1>2, <1>3, <1>4, <1>5, <1>6 DEF Next, User

-------------------------------------------------------------------------------
(***************************************************************************)
(* The streams.                                                            *)
(***************************************************************************)

\* Nothing happens to the streams but by what is sent and received.
LEMMA StreamsKept ==
  ASSUME NEW p \in Procs,
         \/ StartUp(p) \/ Connect(p) \/ Wait(p) \/ TestClient(p)
         \/ ConnectLate(p) \/ LoadDatas(p) \/ Calculated(p) \/ Disturb(p)
         \/ User(p)
         \/ InteractConnect(p) \/ InteractSet(p)
  PROVE  UNCHANGED wire
  BY DEF StartUp, Connect, Wait, TestClient, ConnectLate, LoadDatas, Calculated,
         User, TypeLoad, TypeSelect, TypeQuit, InteractConnect, InteractSet,
         streamVars, Disturb

\* A stream only loses what its server consumes.
LEMMA StreamGrows ==
  ASSUME TypeOK, NEW p \in Procs, NEW q \in Procs, wire[q] # << >>,
         \/ StartUp(p) \/ Main(p) \/ Calculated(p) \/ Disturb(p) \/ User(p)
         \/ Interact(p)
  PROVE  1 \in 1..Len(wire'[q]) /\ wire'[q][1] = wire[q][1]
  <1>1. wire[q] \in Seq(Messages) /\ 1 \in 1..Len(wire[q])
    BY Front
  <1>2. CASE UNCHANGED wire
    BY <1>1, <1>2
  <1>3. ASSUME NEW m \in Messages, Send(p, m)
        PROVE  1 \in 1..Len(wire'[q]) /\ wire'[q][1] = wire[q][1]
    <2>1. wire'[q] = wire[q] \/ wire'[q] = Append(wire[q], m)
      BY <1>3, Sends
    <2>2. /\ Len(Append(wire[q], m)) = Len(wire[q]) + 1 /\ Len(wire[q]) \in Nat
          /\ Append(wire[q], m)[1] = wire[q][1]
      BY <1>1, AppendProperties, LenProperties
    <2> QED
      BY <1>1, <2>1, <2>2
  <1>4. ASSUME SendLoad(p) \/ SendStart(p) \/ InteractLoad(p) \/ InteractStart(p)
        PROVE  \E m \in Messages : Send(p, m)
    <2>1. target[p] \in Targets /\ p \in Numbers
      BY DEF TypeOK, Numbers
    <2> QED
      BY <1>4, <2>1, Starts DEF SendLoad, SendStart, InteractLoad, InteractStart
  <1> QED
    BY <1>2, <1>3, <1>4, StreamsKept DEF Main, Interact

LEMMA NextHandlerInv == TypeOK /\ HandlerInv /\ [Next]_vars => HandlerInv'
  <1> SUFFICES ASSUME TypeOK, HandlerInv, [Next]_vars PROVE HandlerInv'
    OBVIOUS
  <1>1. CASE UNCHANGED vars
    BY <1>1 DEF vars, streamVars, HandlerInv
  <1>2. ASSUME NEW p \in Procs,
               \/ StartUp(p) \/ Main(p) \/ Calculated(p) \/ Disturb(p) \/ User(p)
               \/ Interact(p)
        PROVE  HandlerInv'
    <2>1. UNCHANGED server
      BY <1>2, FlagsKept DEF User, TypeQuit, Disturb
    <2>2. ASSUME NEW q \in Procs, server[q] # "read"
          PROVE  1 \in 1..Len(wire'[q]) /\ wire'[q][1] = wire[q][1]
      <3>1. wire[q] # << >>
        BY <2>2, Front DEF HandlerInv
      <3> QED
        BY <1>2, <3>1, StreamGrows
    <2> QED
      BY <2>1, <2>2 DEF HandlerInv
  <1>3. ASSUME NEW p \in Procs, Server(p) PROVE HandlerInv'
    <2>1. \A q \in Procs \ {p} : server'[q] = server[q]
      BY <1>3, ServerSteps
    <2>2. CASE UNCHANGED wire
      <3>1. server'[p] # "read" => wire[p] # << >> \/ 1 \in 1..Len(wire[p])
        BY <1>3, <2>2 DEF Server, ReceiveLoad, ReceiveStart, Ignore, StoreIdx,
           StoreTarget, NotifyMain, Receives, ServerGoes, TypeOK, HandlerInv
      <3>2. server'[p] \in {"idx", "target"} => Head(wire[p]).head = "start"
        <4>1. CASE ReceiveStart(p)
          BY <4>1 DEF ReceiveStart, Receives
        <4>2. CASE StoreIdx(p)
          BY <4>2, Front DEF StoreIdx, HandlerInv
        <4>3. CASE ReceiveLoad(p) \/ StoreTarget(p) \/ NotifyMain(p)
          BY <4>3 DEF ReceiveLoad, Receives, Ignore, StoreTarget, NotifyMain,
                      ServerGoes, TypeOK
        <4> QED
          BY <1>3, <4>1, <4>2, <4>3 DEF Server
      <3>3. /\ server'[p] # "read" => 1 \in 1..Len(wire'[p])
            /\ server'[p] \in {"idx", "target"} => wire'[p][1].head = "start"
        BY <2>2, <3>1, <3>2, Front
      <3> QED
        BY <2>1, <2>2, <3>3 DEF HandlerInv
    <2>3. CASE Consume(p) /\ server'[p] = "read"
      <3>1. wire[p] # << >>
        BY <1>3, Front DEF Server, ReceiveLoad, ReceiveStart, Receives, StoreIdx,
                           StoreTarget, NotifyMain, HandlerInv
      <3>2. \A q \in Procs \ {p} : wire'[q] = wire[q]
        BY <2>3, <3>1, Consumed
      <3> QED
        BY <2>1, <2>3, <3>2 DEF HandlerInv
    <2> QED
      BY <1>3, <2>2, <2>3 DEF Server, ReceiveLoad, ReceiveStart, Receives, Ignore,
         StoreIdx, StoreTarget, NotifyMain, ServerGoes, streamVars, TypeOK
  <1> QED
    BY <1>1, <1>2, <1>3 DEF Next

-------------------------------------------------------------------------------
(***************************************************************************)
(* The lines typed.                                                        *)
(***************************************************************************)

Positions(L) == {i \in DOMAIN typed : typed[i] \in L}

\* A line adds itself to the lines of its kinds.
LEMMA Positioned ==
  ASSUME TypeOK, NEW line \in Lines, typed' = Append(typed, line), NEW L
  PROVE  /\ Cardinality(Positions(L)) \in Nat
         /\ Cardinality(Positions(L))' =
              Cardinality(Positions(L)) + (IF line \in L THEN 1 ELSE 0)
  <1> DEFINE n == Len(typed)
  <1>1. typed \in Seq(Lines) /\ n \in Nat /\ DOMAIN typed = 1..n
    BY LenProperties DEF TypeOK
  <1>2. /\ DOMAIN typed' = 1..(n + 1) /\ typed'[n + 1] = line
        /\ \A i \in 1..n : typed'[i] = typed[i]
    BY <1>1, AppendProperties, LenProperties
  <1>3. IsFiniteSet(1..n)
    BY <1>1, FS_Interval
  <1>4. IsFiniteSet(Positions(L)) /\ n + 1 \notin Positions(L)
    BY <1>1, <1>3, FS_Subset DEF Positions
  <1>5. Cardinality(Positions(L)) \in Nat
    BY <1>4, FS_CardinalityType
  <1>6. CASE line \in L
    <2>1. Positions(L)' = Positions(L) \cup {n + 1}
      BY <1>1, <1>2, <1>6 DEF Positions
    <2>2. Cardinality(Positions(L) \cup {n + 1}) = Cardinality(Positions(L)) + 1
      BY <1>4, FS_AddElement
    <2> QED
      BY <1>5, <1>6, <2>1, <2>2
  <1>7. CASE line \notin L
    <2>1. Positions(L)' = Positions(L)
      BY <1>1, <1>2, <1>7 DEF Positions
    <2> QED
      BY <1>5, <1>7, <2>1
  <1> QED
    BY <1>6, <1>7

\* How often a line has been typed, as a number of positions.
LEMMA Counts ==
  ASSUME TypeOK
  PROVE  /\ \A l : Count(l) = Cardinality(Positions({l}))
         /\ Selects = Cardinality(Positions(Lines \ {"load", "q"}))
         /\ \A l \in Lines : Count(l) \in Nat
         /\ Selects \in Nat
         /\ \A t \in Targets : Count(t) <= Selects
  <1>1. \A l : Positions({l}) = {i \in DOMAIN typed : typed[i] = l}
    BY DEF Positions
  <1>2. typed \in Seq(Lines) /\ DOMAIN typed = 1..Len(typed) /\ Len(typed) \in Nat
    BY LenProperties DEF TypeOK
  <1>3. Positions(Lines \ {"load", "q"}) =
          {i \in DOMAIN typed : typed[i] \notin {"load", "q"}}
    BY <1>2, ElementOfSeq DEF Positions
  <1>4. IsFiniteSet(1..Len(typed))
    BY <1>2, FS_Interval
  <1>5. \A L : IsFiniteSet(Positions(L)) /\ Cardinality(Positions(L)) \in Nat
    <2> TAKE L
    <2>1. Positions(L) \subseteq 1..Len(typed)
      BY <1>2 DEF Positions
    <2> QED
      BY <1>4, <2>1, FS_Subset, FS_CardinalityType
  <1>6. ASSUME NEW t \in Targets
        PROVE  Cardinality(Positions({t})) <=
                 Cardinality(Positions(Lines \ {"load", "q"}))
    <2>1. Positions({t}) \subseteq Positions(Lines \ {"load", "q"})
      BY TargetsAssumption DEF Positions, Lines
    <2> QED
      BY <1>5, <2>1, FS_Subset
  <1>7. \A l : Count(l) = Cardinality(Positions({l}))
    BY <1>1 DEF Count
  <1>8. Selects = Cardinality(Positions(Lines \ {"load", "q"}))
    BY <1>3 DEF Selects
  <1> HIDE DEF Positions
  <1> QED
    BY <1>5, <1>6, <1>7, <1>8

\* What a typed line changes.
LEMMA Typed ==
  ASSUME TypeOK, TypeOK', NEW p \in Procs, NEW line \in Lines, Types(p, line)
  PROVE  /\ \A l \in Lines : Count(l)' = Count(l) + (IF line = l THEN 1 ELSE 0)
         /\ Selects' = Selects + (IF line \in {"load", "q"} THEN 0 ELSE 1)
         /\ interact[p] = "read"
         /\ hasty' = {} => hasty = {} /\ Prompted(p, line)
  <1>1. typed' = Append(typed, line)
    BY DEF Types
  <1>2. \A l : Count(l)' = Cardinality(Positions({l}))'
    <2> TAKE l
    <2>1. Positions({l})' = {i \in DOMAIN typed' : typed'[i] = l}
      BY DEF Positions
    <2> QED
      BY <2>1 DEF Count
  <1>3. Selects' = Cardinality(Positions(Lines \ {"load", "q"}))'
    <2>1. typed' \in Seq(Lines) /\ DOMAIN typed' = 1..Len(typed')
      BY LenProperties DEF TypeOK
    <2>2. Positions(Lines \ {"load", "q"})' =
            {i \in DOMAIN typed' : typed'[i] \notin {"load", "q"}}
      BY <2>1, ElementOfSeq DEF Positions
    <2> QED
      BY <2>2 DEF Selects
  <1>4. ASSUME NEW l \in Lines
        PROVE  Count(l)' = Count(l) + (IF line = l THEN 1 ELSE 0)
    BY <1>1, <1>2, Counts, Positioned
  <1>5. Selects' = Selects + (IF line \in {"load", "q"} THEN 0 ELSE 1)
    BY <1>1, <1>3, Counts, Positioned
  <1> QED
    BY <1>4, <1>5 DEF Types

-------------------------------------------------------------------------------
(***************************************************************************)
(* The clients.                                                            *)
(***************************************************************************)

Connects(p) ==
  \/ Connect(p) \/ ConnectLate(p) \/ InteractConnect(p)

\* Only a step that makes a client changes the clients.
LEMMA ClientsKept ==
  ASSUME NEW p \in Procs,
         \/ StartUp(p) \/ Wait(p) \/ TestClient(p) \/ SendLoad(p)
         \/ LoadDatas(p) \/ SendStart(p) \/ Calculated(p) \/ Disturb(p) \/ User(p)
         \/ InteractLoad(p) \/ InteractSet(p) \/ InteractStart(p) \/ Server(p)
  PROVE  UNCHANGED <<sendMessager, linkVars>>
  BY DEF StartUp, Wait, TestClient, SendLoad, LoadDatas, SendStart, Calculated,
         User, TypeLoad, TypeSelect, TypeQuit, InteractLoad, InteractSet,
         InteractStart, Server, ReceiveLoad, ReceiveStart, StoreIdx, StoreTarget,
         NotifyMain, Disturb, streamVars, linkVars

\* A client that was made is there.
LEMMA ClientStays ==
  ASSUME TypeOK, [Next]_vars, NEW q \in Procs, sendMessager[q] # None
  PROVE  sendMessager'[q] # None
  <1>1. CASE UNCHANGED vars
    BY <1>1 DEF vars
  <1>2. ASSUME NEW p \in Procs, Connects(p) PROVE sendMessager'[q] # None
    <2>1. PICK r \in Procs : NewClient(p, r)
      BY <1>2, Neighbours DEF Connects, Connect, ConnectLate, InteractConnect
    <2> QED
      BY <2>1, ClientMakes
  <1>3. ASSUME NEW p \in Procs, UNCHANGED <<sendMessager, linkVars>>
        PROVE  sendMessager'[q] # None
    BY <1>3
  <1> QED
    BY <1>1, <1>2, <1>3, ClientsKept DEF Next, Main, Interact, Connects

LEMMA NextClientMade ==
  TypeOK /\ ClientMade /\ [Next]_vars => ClientMade'
  <1> SUFFICES ASSUME TypeOK, ClientMade, [Next]_vars PROVE ClientMade'
    OBVIOUS
  <1> USE DEF Loading, Calculating
  <1>0. /\ \A q \in Procs : sendMessager[q] # None => sendMessager'[q] # None
        /\ hasty' = {} => hasty = {}
    BY ClientStays, HastyStays
  <1>1. CASE UNCHANGED vars
    BY <1>1 DEF vars, typedVars, ClientMade
  <1>2. ASSUME NEW p \in Procs, StartUp(p) \/ Main(p) \/ Calculated(p)
        PROVE  ClientMade'
    <2>1. /\ \A q \in Procs \ {p} : main'[q] = main[q]
          /\ UNCHANGED interact
      BY <1>2, MainSteps
    <2>2. CASE StartUp(p) \/ Wait(p) \/ SendLoad(p) \/ LoadDatas(p)
               \/ SendStart(p) \/ Calculated(p)
      BY <1>0, <2>1, <2>2
         DEF StartUp, Wait, SendLoad, LoadDatas, SendStart, Calculated, Goes,
             Send, TypeOK, ClientMade
    <2>3. CASE TestClient(p)
      BY <1>0, <2>1, <2>3 DEF TestClient, Goes, TypeOK, ClientMade
    <2>4. CASE Connect(p) \/ ConnectLate(p)
      <3>1. sendMessager'[p] # None
        BY <2>4, Neighbours, ClientMakes DEF Connect, ConnectLate
      <3>2. main'[p] # "up"
        BY <2>4 DEF Connect, ConnectLate, Goes, TypeOK
      <3> QED
        BY <1>0, <2>1, <3>1, <3>2 DEF ClientMade
    <2> QED
      BY <1>2, <2>2, <2>3, <2>4 DEF Main
  <1>3. ASSUME NEW p \in Procs, TypeLoad(p) \/ TypeSelect(p) \/ Interact(p)
        PROVE  ClientMade'
    <2>1. /\ \A q \in Procs \ {p} : interact'[q] = interact[q]
          /\ UNCHANGED main
      BY <1>3, InteractSteps
    <2>2. /\ interact'[p] = "load" => sendMessager'[p] # None
          /\ hasty' = {} /\ interact'[p] \in {"start"} \cup Targets =>
               sendMessager'[p] # None
      <3>1. CASE TypeLoad(p)
        BY <1>0, <3>1, TargetsAssumption DEF TypeLoad, InteractGoes, TypeOK
      <3>2. CASE TypeSelect(p)
        <4>1. PICK line \in {"select"} \cup Targets : Types(p, line)
          BY <3>2 DEF TypeSelect
        <4>2. hasty' = {} => Prompted(p, line)
          BY <4>1 DEF Types
        <4>3. hasty' = {} => main[p] \in {"loaded", "startWait"}
          BY <4>2, TargetsAssumption DEF Prompted
        <4>4. interact'[p] # "load"
          BY <3>2, TargetsAssumption DEF TypeSelect, InteractGoes, TypeOK
        <4> QED
          BY <1>0, <4>3, <4>4 DEF ClientMade
      <3>3. CASE InteractConnect(p)
        BY <3>3, Neighbours, ClientMakes DEF InteractConnect
      <3>4. CASE InteractLoad(p) \/ InteractStart(p)
        BY <1>0, <3>4, TargetsAssumption
           DEF InteractLoad, InteractStart, InteractGoes, TypeOK
      <3>5. CASE InteractSet(p)
        BY <1>0, <3>5 DEF InteractSet, InteractGoes, TypeOK, ClientMade
      <3> QED
        BY <1>3, <3>1, <3>2, <3>3, <3>4, <3>5 DEF Interact
    <2> QED
      BY <1>0, <2>1, <2>2 DEF ClientMade
  <1>4. ASSUME NEW p \in Procs, TypeQuit(p) PROVE ClientMade'
    <2>1. /\ \A q \in Procs : interact'[q] \in {"done", interact[q]}
      BY <1>4 DEF TypeQuit, InteractGoes, TypeOK
    <2> QED
      BY <1>0, <1>4, <2>1, Notified, TargetsAssumption DEF TypeQuit, ClientMade
  <1>5. ASSUME NEW p \in Procs, Server(p) PROVE ClientMade'
    <2>1. UNCHANGED main \/ Notify(p)
      BY <1>5, ServerSteps DEF NotifyMain
    <2> QED
      BY <1>0, <1>5, <2>1, ServerSteps, Notified DEF ClientMade
  <1>6. ASSUME NEW p \in Procs, Disturb(p) PROVE ClientMade'
    BY <1>0, <1>6, Woken DEF Disturb, ClientMade
  <1> QED
    BY <1>1, <1>2, <1>3, <1>4, <1>5, <1>6 DEF Next, User

\* What counts as a load.
LoadsSum ==
  /\ Loads \in Nat /\ Count("load") \in Nat /\ "load" \in Lines
  /\ IsFiniteSet(disturbed)
  /\ disturbed # {} => Count("load") < Loads

LEMMA LoadsCounted == TypeOK => LoadsSum
  <1> SUFFICES ASSUME TypeOK PROVE LoadsSum
    OBVIOUS
  <1>1. Disturbed \subseteq 1..N /\ disturbed \subseteq 1..N /\ IsFiniteSet(1..N)
    BY DisturbedAssumption, NAssumption, FS_Interval DEF TypeOK
  <1>2. IsFiniteSet(disturbed) /\ Cardinality(disturbed) \in Nat
    BY <1>1, FS_Subset, FS_CardinalityType
  <1>3. Cardinality(disturbed) = 0 <=> disturbed = {}
    BY <1>2, FS_EmptySet
  <1>4. Count("load") \in Nat /\ "load" \in Lines
    BY Counts DEF Lines
  <1> QED
    BY <1>2, <1>3, <1>4 DEF Loads, LoadsSum

\* Lines and waits that end by themselves are only counted up.
LEMMA LoadsGrow ==
  ASSUME TypeOK, TypeOK', NEW p \in Procs
  PROVE  /\ Disturb(p) => Loads <= Loads' /\ (disturbed' = disturbed \/ Loads < Loads')
         /\ TypeLoad(p) => Loads' = Loads + 1
         /\ TypeSelect(p) \/ TypeQuit(p) => Loads' = Loads
         /\ UNCHANGED <<typed, disturbed>> => Loads' = Loads
  <1>1. Loads \in Nat /\ IsFiniteSet(disturbed) /\ Cardinality(disturbed) \in Nat
    BY LoadsCounted, FS_CardinalityType DEF LoadsSum
  <1>2. UNCHANGED typed => Count("load")' = Count("load")
    BY DEF Count
  <1>3. UNCHANGED disturbed => Cardinality(disturbed)' = Cardinality(disturbed)
    OBVIOUS
  <1>4. CASE Disturb(p)
    <2>1. UNCHANGED typed /\ disturbed' = disturbed \cup {p}
      BY <1>4 DEF Disturb, typedVars
    <2>2. CASE p \in disturbed
      <3>1. disturbed' = disturbed
        BY <2>1, <2>2
      <3> QED
        BY <1>1, <1>2, <1>3, <1>4, <2>1, <3>1
           DEF Loads, Disturb, TypeLoad, TypeSelect, TypeQuit, Types, wakeVars
    <2>3. CASE p \notin disturbed
      <3>1. Cardinality(disturbed)' = Cardinality(disturbed) + 1
        BY <1>1, <2>1, <2>3, FS_AddElement
      <3>2. disturbed' # disturbed /\ Count("load") \in Nat
        BY <2>1, <2>3, LoadsCounted DEF LoadsSum
      <3>3. Loads' = Loads + 1
        BY <1>1, <1>2, <2>1, <3>1, <3>2 DEF Loads
      <3>4. ~ TypeLoad(p) /\ ~ TypeSelect(p) /\ ~ TypeQuit(p)
        BY <3>2 DEF TypeLoad, TypeSelect, TypeQuit, Notify, wakeVars
      <3> QED
        BY <1>1, <3>2, <3>3, <3>4
    <2> QED
      BY <2>2, <2>3
  <1>5. ASSUME TypeLoad(p) PROVE Loads' = Loads + 1
    <2>1. Types(p, "load") /\ "load" \in Lines /\ UNCHANGED disturbed
      BY <1>5 DEF TypeLoad, Lines, wakeVars
    <2>2. Count("load")' = Count("load") + 1
      BY <2>1, Typed
    <2> QED
      BY <1>1, <1>3, <2>1, <2>2, LoadsCounted DEF Loads, LoadsSum
  <1>6. ASSUME TypeSelect(p) \/ TypeQuit(p) PROVE Loads' = Loads
    <2>1. PICK line \in Lines \ {"load"} : Types(p, line)
      BY <1>6, TargetsAssumption DEF TypeSelect, TypeQuit, Lines
    <2>2. UNCHANGED disturbed /\ "load" \in Lines
      BY <1>6 DEF TypeSelect, TypeQuit, Notify, wakeVars, Lines
    <2>3. Count("load")' = Count("load")
      BY <2>1, <2>2, Typed, LoadsCounted DEF LoadsSum
    <2> QED
      BY <1>3, <2>2, <2>3 DEF Loads
  <1> QED
    BY <1>2, <1>3, <1>4, <1>5, <1>6 DEF Loads

LEMMA NextBeforeLoad ==
  TypeOK /\ TypeOK' /\ HandlerInv /\ BeforeLoad /\ [Next]_vars => BeforeLoad'
  <1> SUFFICES ASSUME TypeOK, TypeOK', HandlerInv, BeforeLoad, [Next]_vars
               PROVE  BeforeLoad'
    OBVIOUS
  <1>0. Loads \in Nat /\ (Loads = 0 => disturbed = {}) /\ Loads' \in Nat
    <2>1. Loads \in Nat /\ (Loads = 0 => disturbed = {})
      BY LoadsCounted DEF LoadsSum
    <2>2. Loads' \in Nat
      <3>1. LoadsSum'
        BY LoadsCounted, PTL
      <3> QED
        BY <3>1 DEF LoadsSum
    <2> QED
      BY <2>1, <2>2
  <1>1. CASE UNCHANGED vars
    <2>1. UNCHANGED <<main, interact, wire, load_flag, select_flag, typed, disturbed>>
      BY <1>1 DEF vars, streamVars, flagVars, typedVars, wakeVars
    <2> QED
      BY <2>1 DEF BeforeLoad, Quiet, Loads, Count
  <1>2. ASSUME NEW p \in Procs, StartUp(p) \/ Main(p) \/ Calculated(p)
        PROVE  BeforeLoad'
    <2>1. /\ UNCHANGED <<interact, load_flag, select_flag, disturbed>>
          /\ Loads' = Loads
      BY <1>2, MainSteps, LinesKept, FlagsKept DEF typedVars, Loads, Count
    <2>2. Quiet => Quiet'
      <3> SUFFICES ASSUME Quiet PROVE Quiet'
        OBVIOUS
      <3>1. main[p] \in {"off", "up", "connected", "loadWait"}
        BY DEF Quiet
      <3>2. UNCHANGED wire
        BY <1>2, <3>1, StreamsKept DEF Main, SendLoad, SendStart, Goes
      <3>3. main'[p] \in {"up", "connected", "loadWait"}
        BY <1>2, <3>1, MainSteps
      <3> QED
        BY <1>2, <2>1, <3>2, <3>3, MainSteps DEF Quiet
    <2> QED
      BY <2>1, <2>2 DEF BeforeLoad
  <1>3. ASSUME NEW p \in Procs, User(p) PROVE BeforeLoad'
    <2>1. UNCHANGED wire
      BY <1>3, StreamsKept
    <2>2. CASE TypeLoad(p)
      <3>2. Loads' = Loads + 1
        BY <2>2, LoadsGrow
      <3>3. Loads' <= 1 => Quiet' /\ disturbed' = {} /\ \A q \in Procs \ {p} : interact'[q] = "read"
        <4>1. UNCHANGED <<main, load_flag, select_flag, disturbed>>
          BY <2>2 DEF TypeLoad, flagVars, wakeVars
        <4>2. \A q \in Procs \ {p} : interact'[q] = interact[q]
          BY <2>2, InteractSteps
        <4> QED
          BY <1>0, <2>1, <3>2, <4>1, <4>2 DEF BeforeLoad, Quiet
      <3> QED
        BY <1>0, <3>2, <3>3 DEF BeforeLoad
    <2>3. CASE TypeSelect(p) \/ TypeQuit(p)
      <3>1. load_flag[p] /\ ~ Quiet
        BY <2>3 DEF TypeSelect, TypeQuit, Quiet
      <3>3. Loads' = Loads
        BY <2>3, LoadsGrow
      <3>4. \A q \in Procs : interact'[q] \in {"connect", "load"} =>
              interact[q] \in {"connect", "load"}
        BY <2>3, TargetsAssumption DEF TypeSelect, TypeQuit, InteractGoes, TypeOK
      <3> QED
        BY <3>1, <3>3, <3>4 DEF BeforeLoad
    <2> QED
      BY <1>3, <2>2, <2>3 DEF User
  <1>4. ASSUME NEW p \in Procs, Interact(p) PROVE BeforeLoad'
    <2>1. /\ UNCHANGED <<main, load_flag, select_flag, disturbed>>
          /\ Loads' = Loads
      BY <1>4, InteractSteps, LinesKept, FlagsKept DEF typedVars, Loads, Count
    <2>2. interact[p] # "read"
      BY <1>4, TargetsAssumption
         DEF Interact, InteractConnect, InteractLoad, InteractSet, InteractStart
    <2>3. \A q \in Procs \ {p} : interact'[q] = interact[q]
      BY <1>4, InteractSteps
    <2>4. CASE InteractConnect(p)
      <3>1. interact[p] = "connect" /\ UNCHANGED wire
        BY <2>4, StreamsKept DEF InteractConnect
      <3> QED
        BY <2>1, <2>2, <2>3, <3>1 DEF BeforeLoad, Quiet
    <2>5. CASE InteractLoad(p) \/ InteractSet(p) \/ InteractStart(p)
      <3>1. interact'[p] \in {"read", "start"}
        BY <2>5 DEF InteractLoad, InteractSet, InteractStart, InteractGoes, TypeOK
      <3>2. Loads' <= 1 =>
              \A q \in Procs : interact'[q] \notin {"connect", "load"}
        BY <2>1, <2>2, <2>3, <3>1 DEF BeforeLoad
      <3> QED
        BY <2>1, <2>2, <3>2 DEF BeforeLoad
    <2> QED
      BY <1>4, <2>4, <2>5 DEF Interact
  <1>5. ASSUME NEW p \in Procs, Server(p) PROVE BeforeLoad'
    <2>1. UNCHANGED interact /\ Loads' = Loads
      BY <1>5, ServerSteps DEF Loads, Count
    <2>2. ~ Quiet
      <3>1. wire[p] # << >>
        BY <1>5, Front DEF Server, ReceiveLoad, ReceiveStart, Receives, StoreIdx,
                           StoreTarget, NotifyMain, HandlerInv
      <3> QED
        BY <3>1 DEF Quiet
    <2> QED
      BY <2>1, <2>2 DEF BeforeLoad
  <1>6. ASSUME NEW p \in Procs, Disturb(p) PROVE BeforeLoad'
    <2>1. /\ p \in disturbed' /\ UNCHANGED interact
          /\ Loads <= Loads' /\ (disturbed' = disturbed \/ Loads < Loads')
      BY <1>6, LoadsGrow DEF Disturb
    <2>2. Loads' # 0
      <3>1. LoadsSum'
        BY LoadsCounted, PTL
      <3> QED
        BY <2>1, <3>1 DEF LoadsSum
    <2>3. Loads' <= 1 => \A q \in Procs : interact[q] \notin {"connect", "load"}
      <3>1. CASE disturbed' = disturbed
        BY <1>0, <2>1, <3>1 DEF BeforeLoad
      <3>2. CASE Loads < Loads'
        BY <1>0, <2>1, <3>2 DEF BeforeLoad
      <3> QED
        BY <2>1, <3>1, <3>2
    <2> QED
      BY <2>1, <2>2, <2>3 DEF BeforeLoad
  <1> QED
    BY <1>1, <1>2, <1>3, <1>4, <1>5, <1>6 DEF Next


\* A first client is to the neighbour that nobody else is connected to.
LEMMA ConnectsDown ==
  ASSUME TypeOK, NEW p \in Procs, NewClient(p, Down(p)),
         sendMessager[p] = None, ClientDown
  PROVE  ClientDown'
  <1>1. Down(p) \in Procs
    BY Neighbours
  <1>2. /\ accepted' \subseteq accepted \cup {Down(p)}
        /\ refused \subseteq refused'
        /\ sendMessager'[p] # None
        /\ \A r \in Procs \ {p} : sendMessager'[r] = sendMessager[r]
        /\ Down(p) \notin accepted /\ p \notin refused' =>
             sendMessager'[p] = [to |-> Down(p), live |-> TRUE]
    BY <1>1, ClientMakes
  <1> QED
    BY <1>2, Neighbours DEF ClientDown

LEMMA NextOneClientEach ==
  TypeOK /\ TypeOK' /\ ClientInv /\ [Next]_vars => OneClientEach'
  <1> SUFFICES ASSUME TypeOK, TypeOK', ClientInv, [Next]_vars, hasty' = {},
                      Loads' <= 1
               PROVE  OneClientEach'
    BY DEF OneClientEach
  <1> USE DEF ClientInv, ClientDown, NoneYet
  <1>0. Loads \in Nat /\ hasty = {}
    BY LoadsCounted, HastyStays DEF LoadsSum
  <1>a. Loads <= 1
    <2>1. CASE UNCHANGED <<typed, disturbed>>
      BY <2>1 DEF Loads, Count
    <2>2. ASSUME NEW p \in Procs, User(p) \/ Disturb(p)
          PROVE  Loads <= 1
      <3>1. Loads' \in Int
        <4>1. LoadsSum'
          BY LoadsCounted, PTL
        <4> QED
          BY <4>1 DEF LoadsSum
      <3> QED
        BY <1>0, <2>2, <3>1, LoadsGrow DEF User
    <2>3. ASSUME NEW p \in Procs,
                 StartUp(p) \/ Main(p) \/ Calculated(p) \/ Interact(p) \/ Server(p)
          PROVE  UNCHANGED <<typed, disturbed>>
      BY <2>3, LinesKept, FlagsKept, ServerSteps DEF typedVars
    <2> QED
      BY <2>1, <2>2, <2>3 DEF Next, vars, typedVars, wakeVars
  <1>b. ClientDown /\ NoneYet
    BY <1>0, <1>a DEF OneClientEach
  <1> SUFFICES ClientDown' /\ NoneYet'
    BY DEF OneClientEach
  <1>1. CASE UNCHANGED vars
    BY <1>1, <1>b, <1>b DEF vars, streamVars, linkVars
  <1>2. ASSUME NEW p \in Procs, StartUp(p) \/ Wait(p) \/ TestClient(p)
               \/ SendLoad(p) \/ LoadDatas(p) \/ SendStart(p) \/ Calculated(p)
        PROVE  ClientDown' /\ NoneYet'
    <2>1. UNCHANGED <<sendMessager, accepted, refused>>
      BY <1>2, ClientsKept DEF linkVars
    <2>2. /\ \A q \in Procs \ {p} : main'[q] = main[q]
          /\ UNCHANGED interact
      BY <1>2, MainSteps DEF Main
    <2>3. main'[p] = "connecting" => p = 1 /\ sendMessager[p] = None
      BY <1>2 DEF StartUp, Wait, TestClient, SendLoad, LoadDatas, SendStart,
                  Calculated, Goes, TypeOK
    <2>4. main'[p] \in {"off", "up"} => main[p] = "off"
      BY <1>2 DEF StartUp, Wait, TestClient, SendLoad, LoadDatas, SendStart,
                  Calculated, Goes, TypeOK
    <2> QED
      BY <1>b, <2>1, <2>2, <2>3, <2>4
  <1>3. ASSUME NEW p \in Procs, Connect(p) \/ ConnectLate(p) \/ InteractConnect(p)
        PROVE  ClientDown' /\ NoneYet'
    <2>1. NewClient(p, Down(p)) /\ sendMessager[p] = None
      BY <1>3, <1>b, Neighbours
         DEF Connect, ConnectLate, InteractConnect, Goes, ClientMade
    <2>2. ClientDown'
      BY <1>b, <2>1, ConnectsDown
    <2>3. \A q \in Procs \ {p} : sendMessager'[q] = sendMessager[q]
      BY <2>1, Neighbours, ClientMakes
    <2>4. CASE Connect(p) \/ ConnectLate(p)
      <3>1. /\ UNCHANGED interact
            /\ \A q \in Procs \ {p} : main'[q] = main[q]
            /\ main'[p] \in {"connected", "loadSend"}
            /\ main[p] \in {"up", "connecting"}
        BY <2>4 DEF Connect, ConnectLate, Goes, TypeOK
      <3>2. interact[p] # "connect"
        BY <1>a, <1>b, <3>1 DEF BeforeLoad, Quiet, ClientMade
      <3> QED
        BY <1>b, <2>2, <2>3, <3>1, <3>2
    <2>5. CASE InteractConnect(p)
      <3>1. /\ UNCHANGED main /\ interact[p] = "connect"
            /\ \A q \in Procs \ {p} : interact'[q] = interact[q]
            /\ interact'[p] = "load"
        BY <2>5 DEF InteractConnect, InteractGoes, TypeOK
      <3>2. main[p] # "connecting" /\ p = 1
        BY <1>a, <1>b, <3>1 DEF BeforeLoad, Quiet
      <3> QED
        BY <1>b, <2>2, <2>3, <3>1, <3>2
    <2> QED
      BY <1>3, <2>4, <2>5
  <1>4. ASSUME NEW p \in Procs, User(p) PROVE ClientDown' /\ NoneYet'
    <2>1. UNCHANGED <<sendMessager, accepted, refused>>
      BY <1>4, ClientsKept DEF linkVars
    <2>2. \A q \in Procs : main'[q] # main[q] => main'[q] \notin {"off", "up", "connecting"}
      BY <1>4, Notified DEF User, TypeLoad, TypeSelect, TypeQuit
    <2>3. \A q \in Procs \ {p} : interact'[q] = interact[q]
      BY <1>4 DEF User, TypeLoad, TypeSelect, TypeQuit, InteractGoes, TypeOK
    <2>4. interact'[p] = "connect" => p = 1 /\ sendMessager[p] = None
      <3>1. CASE TypeLoad(p)
        <4>1. main[p] \in {"connected", "loadWait"}
          BY <3>1 DEF TypeLoad, Types, Prompted
        <4>2. interact'[p] = "connect" => sendMessager[p] = None
          BY <3>1 DEF TypeLoad, InteractGoes, TypeOK
        <4> QED
          BY <4>1, <4>2 DEF ClientMade
      <3>2. CASE TypeSelect(p) \/ TypeQuit(p)
        BY <3>2, TargetsAssumption DEF TypeSelect, TypeQuit, InteractGoes, TypeOK
      <3> QED
        BY <1>4, <3>1, <3>2 DEF User
    <2> QED
      BY <1>b, <2>1, <2>2, <2>3, <2>4
  <1>5. ASSUME NEW p \in Procs,
               InteractLoad(p) \/ InteractSet(p) \/ InteractStart(p)
        PROVE  ClientDown' /\ NoneYet'
    <2>1. UNCHANGED <<sendMessager, accepted, refused, main>>
      BY <1>5, ClientsKept, InteractSteps DEF linkVars, Interact
    <2>2. \A q \in Procs : interact'[q] = interact[q] \/ interact'[q] # "connect"
      BY <1>5 DEF InteractLoad, InteractSet, InteractStart, InteractGoes, TypeOK
    <2> QED
      BY <1>b, <2>1, <2>2
  <1>6. ASSUME NEW p \in Procs, Server(p) PROVE ClientDown' /\ NoneYet'
    <2>1. UNCHANGED <<sendMessager, accepted, refused, interact>>
      BY <1>6, ClientsKept, ServerSteps DEF linkVars
    <2>2. \A q \in Procs : main'[q] # main[q] => main'[q] \notin {"off", "up", "connecting"}
      BY <1>6, ServerSteps, Notified DEF NotifyMain
    <2> QED
      BY <1>b, <2>1, <2>2
  <1>7. ASSUME NEW p \in Procs, Disturb(p) PROVE ClientDown' /\ NoneYet'
    <2>1. UNCHANGED <<sendMessager, accepted, refused, interact>>
      BY <1>7, ClientsKept DEF linkVars, Disturb
    <2>2. \A q \in Procs : main'[q] # main[q] => main'[q] \notin {"off", "up", "connecting"}
      BY <1>7, Woken DEF Disturb
    <2> QED
      BY <1>b, <2>1, <2>2
  <1> QED
    BY <1>1, <1>2, <1>3, <1>4, <1>5, <1>6, <1>7 DEF Next, Main, Interact

-------------------------------------------------------------------------------
(***************************************************************************)
(* The query.                                                              *)
(***************************************************************************)

\* A main thread that was not disturbed is past its second wait after two
\* signals, one of them select_flag; the other is load_flag, unless the query is
\* stored already.
LEMMA Selected == TypeOK /\ FlagInv => CalculatesSelected
  <1> SUFFICES ASSUME TypeOK, FlagInv, NEW p \in Procs \ disturbed,
                      main[p] \in {"startWoken"} \cup Calculating
               PROVE  select_flag[p] /\ ("q" \notin hasty => Stored(p))
    BY DEF CalculatesSelected
  <1>1. Stage(main[p]) >= 2
    BY DEF Stage
  <1>2. /\ Signals(p) \in 0..3 /\ Pending(p) \in 0..1 /\ Stage(main[p]) \in 0..3
        /\ load_flag[p] \in BOOLEAN /\ select_flag[p] \in BOOLEAN
    BY Numbered
  <1>3. FlagsAt(p) /\ Stage(main[p]) + Pending(p) <= Signals(p)
    BY DEF FlagInv, FlagsAt
  <1>4. select_flag[p]
    <2> SUFFICES ASSUME ~ select_flag[p] PROVE FALSE
      OBVIOUS
    <2>1. Signals(p) <= 1
      BY <1>3 DEF FlagsAt, Signals, One
    <2> QED
      BY <1>1, <1>2, <1>3, <2>1
  <1>5. ASSUME "q" \notin hasty PROVE Stored(p)
    <2>1. CASE interact[p] = "done"
      BY <1>3, <1>5, <2>1 DEF FlagsAt
    <2>2. CASE interact[p] # "done"
      <3>1. Signals(p) <= 2
        BY <2>2 DEF Signals, One
      <3>2. Pending(p) = 0
        BY <1>1, <1>2, <1>3, <3>1
      <3> QED
        BY <1>4, <3>2 DEF Pending, One, Stored
    <2> QED
      BY <2>1, <2>2
  <1> QED
    BY <1>4, <1>5

\* Who passes a start on has stored it.
LEMMA StartSenders ==
  ASSUME TypeOK, FlagInv, Orderly, NEW p \in Procs, SendStart(p)
  PROVE  select_flag[p] /\ Stored(p)
  BY Selected DEF SendStart, Goes, CalculatesSelected, Orderly

\* Disorder stays.
LEMMA OrderlyBefore ==
  ASSUME TypeOK, [Next]_vars, Orderly'
  PROVE  Orderly /\ \A p \in Procs : ~ Disturb(p)
  <1>1. "q" \notin hasty
    BY HastyStays DEF Orderly
  <1>2. disturbed \subseteq disturbed'
    <2>1. CASE UNCHANGED vars
      BY <2>1 DEF vars, wakeVars
    <2>2. ASSUME NEW p \in Procs,
                 StartUp(p) \/ Main(p) \/ Calculated(p) \/ Interact(p) \/ Server(p)
          PROVE  disturbed \subseteq disturbed'
      BY <2>2, FlagsKept, ServerSteps
    <2>3. ASSUME NEW p \in Procs, User(p) \/ Disturb(p)
          PROVE  disturbed \subseteq disturbed'
      BY <2>3 DEF User, TypeLoad, TypeSelect, TypeQuit, Notify, Disturb, wakeVars
    <2> QED
      BY <2>1, <2>2, <2>3 DEF Next
  <1> QED
    BY <1>1, <1>2 DEF Orderly, Disturb

\* What is sent, and by whom.
LEMMA Sent ==
  ASSUME TypeOK, NEW p \in Procs,
         SendLoad(p) \/ SendStart(p) \/ InteractLoad(p) \/ InteractStart(p)
  PROVE  \E m : /\ Send(p, m)
                /\ \/ m = Load
                   \/ /\ SendStart(p)
                      /\ \E idx \in Numbers :
                           /\ select_idx[p] \in {Unset, idx}
                           /\ m = Start(idx, target[p])
                           /\ select_idx' = [select_idx EXCEPT ![p] = idx]
                   \/ m = Start(p, target[p]) /\ InteractStart(p)
  BY DEF SendLoad, SendStart, InteractLoad, InteractStart

\* Queries are set by their terminal or by a start that is received.
LEMMA QueriesKept ==
  ASSUME NEW p \in Procs,
         \/ StartUp(p) \/ Connect(p) \/ Wait(p) \/ TestClient(p) \/ ConnectLate(p)
         \/ SendLoad(p) \/ LoadDatas(p) \/ Calculated(p) \/ User(p)
         \/ InteractConnect(p) \/ InteractLoad(p) \/ InteractStart(p)
  PROVE  UNCHANGED <<server, select_flag, select_idx, target>>
  BY DEF StartUp, Connect, Wait, TestClient, ConnectLate, SendLoad,
         LoadDatas, Calculated, User, TypeLoad, TypeSelect, TypeQuit,
         InteractConnect, InteractLoad, InteractStart, flagVars

\* Who is about to send a select, before and after a step.
LEMMA Selectors ==
  ASSUME TypeOK, NEW p \in Procs,
         \/ StartUp(p) \/ Main(p) \/ Calculated(p) \/ User(p)
         \/ Interact(p) \/ Server(p)
  PROVE  /\ \A q \in Procs \ {p} : interact'[q] = interact[q]
         /\ interact'[p] # interact[p] /\ ~ TypeSelect(p) /\ ~ InteractSet(p) =>
              ~ Selecting(p)'
         /\ InteractSet(p) =>
              /\ interact[p] \in Targets /\ interact'[p] = "start"
              /\ target' = [target EXCEPT ![p] = interact[p]]
              /\ UNCHANGED <<server, select_flag, select_idx, wire>>
         /\ InteractStart(p) => Selecting(p) /\ ~ Selecting(p)'
  <1> USE TargetsAssumption DEF InteractGoes, TypeOK, Selecting
  <1>1. CASE StartUp(p) \/ Main(p) \/ Calculated(p)
    <2>1. UNCHANGED interact /\ ~ InteractSet(p) /\ ~ InteractStart(p)
      BY <1>1, MainSteps, LinesKept
         DEF StartUp, Main, Connect, Wait, TestClient, ConnectLate, SendLoad,
             LoadDatas, SendStart, Calculated, Goes, InteractSet, InteractStart
    <2> QED
      BY <2>1
  <1>2. CASE TypeLoad(p) \/ TypeQuit(p)
    BY <1>2 DEF TypeLoad, TypeQuit, Types, InteractSet, InteractStart
  <1>3. CASE TypeSelect(p)
    BY <1>3 DEF TypeSelect, Types, InteractSet, InteractStart
  <1>4. CASE InteractConnect(p) \/ InteractLoad(p) \/ InteractStart(p)
    BY <1>4 DEF InteractConnect, InteractLoad, InteractSet, InteractStart
  <1>5. CASE InteractSet(p)
    BY <1>5 DEF InteractSet, InteractStart, flagVars, streamVars
  <1>6. CASE Server(p)
    <2>1. UNCHANGED interact
      BY <1>6, ServerSteps
    <2>2. ~ InteractSet(p) /\ ~ InteractStart(p)
      BY <2>1 DEF InteractSet, InteractStart
    <2> QED
      BY <2>1, <2>2
  <1> QED
    BY <1>1, <1>2, <1>3, <1>4, <1>5, <1>6 DEF User, Interact

\* Without a select nothing but loads is sent.
LEMMA NoStartKept ==
  ASSUME TypeOK, HandlerInv, FlagInv, Orderly, NoStart, NEW p \in Procs,
         \/ StartUp(p) \/ Main(p) \/ Calculated(p) \/ User(p)
         \/ Interact(p) /\ ~ InteractStart(p)
         \/ Server(p)
  PROVE  NoStart'
  <1>1. ~ SendStart(p)
    BY StartSenders DEF NoStart
  <1>2. CASE SendLoad(p) \/ InteractLoad(p)
    <2>1. Send(p, Load)
      BY <1>2 DEF SendLoad, InteractLoad
    <2>2. \A q \in Procs : wire'[q] = wire[q] \/ wire'[q] = Append(wire[q], Load)
      BY <2>1, Sends, Starts
    <2>3. ASSUME NEW q \in Procs, NEW i \in 1..Len(wire'[q])
          PROVE  wire'[q][i] = Load
      <3>1. wire[q] \in Seq(Messages) /\ Load \in Messages
        BY Starts DEF TypeOK
      <3>2. CASE wire'[q] = wire[q]
        BY <2>3, <3>2 DEF NoStart
      <3>3. CASE wire'[q] = Append(wire[q], Load)
        <4>1. \A j \in 1..Len(wire[q]) : wire[q][j] = Load
          BY DEF NoStart
        <4> QED
          BY <2>3, <3>1, <3>3, <4>1, Appended
      <3> QED
        BY <2>2, <3>2, <3>3
    <2>4. UNCHANGED select_flag
      BY <1>2, QueriesKept
    <2> QED
      BY <2>3, <2>4 DEF NoStart
  <1>3. CASE Server(p)
    <2>1. wire[p] # << >> /\ 1 \in 1..Len(wire[p]) /\ Head(wire[p]) = wire[p][1]
          /\ Head(wire[p]) \in Messages
      <3>1. wire[p] # << >> \/ 1 \in 1..Len(wire[p])
        BY <1>3 DEF Server, ReceiveLoad, ReceiveStart, Receives, StoreIdx,
                    StoreTarget, NotifyMain, HandlerInv
      <3> QED
        BY <3>1, Front
    <2>2. UNCHANGED wire \/ Consume(p)
      BY <1>3 DEF Server, ReceiveLoad, ReceiveStart, Ignore, StoreIdx, StoreTarget,
                  NotifyMain, streamVars
    <2>3. UNCHANGED select_flag
      <3>1. ~ ReceiveStart(p)
        BY <2>1, Starts DEF NoStart, ReceiveStart, Receives
      <3>2. ~ StoreIdx(p) /\ ~ StoreTarget(p)
        BY DEF NoStart, FlagInv, FlagsAt, StoreIdx, StoreTarget
      <3> QED
        BY <1>3, <3>1, <3>2 DEF Server, ReceiveLoad, Ignore, NotifyMain, flagVars
    <2>4. CASE UNCHANGED wire
      BY <2>3, <2>4 DEF NoStart
    <2>5. CASE Consume(p)
      <3>1. /\ \A q \in Procs \ {p} : wire'[q] = wire[q]
            /\ \A i \in 1..Len(wire'[p]) :
                 i + 1 \in 1..Len(wire[p]) /\ wire'[p][i] = wire[p][i + 1]
        BY <2>1, <2>5, Consumed
      <3> QED
        BY <2>3, <3>1 DEF NoStart
    <2> QED
      BY <2>2, <2>4, <2>5
  <1>4. CASE UNCHANGED <<select_flag, wire>>
    BY <1>4 DEF NoStart
  <1>5. InteractSet(p) => UNCHANGED <<select_flag, wire>>
    BY DEF InteractSet, flagVars, streamVars
  <1> QED
    BY <1>1, <1>2, <1>3, <1>4, <1>5, QueriesKept, StreamsKept DEF Main, Interact


\* The one query: its terminal sends it, the others pass on what they received.
LEMMA QueryKept ==
  ASSUME TypeOK, TypeOK', HandlerInv, FlagInv, Orderly,
         NEW o \in Procs, QueryOf(o), NEW p \in Procs,
         \/ StartUp(p) \/ Main(p) \/ Calculated(p) \/ Interact(p) \/ Server(p)
         \/ TypeLoad(p) \/ TypeQuit(p),
         \A t \in Targets : Count(t)' = Count(t)
  PROVE  QueryOf(o)'
  <1> DEFINE Query == Start(o, target[o])
  <1>0. /\ target[o] \in Targets /\ Query \in Messages /\ Query # Load
        /\ Query.idx = o /\ Query.target = target[o]
        /\ Load \in Messages /\ Load.head = "load"
    BY Starts DEF TypeOK, Numbers
  <1> HIDE DEF Query
  <1>a. /\ \A q \in Procs \ {o} : ~ Selecting(q)
        /\ \A q \in Procs :
             /\ Stored(q) => select_idx[q] = o /\ target[q] = target[o]
             /\ server[q] = "target" => select_idx[q] = o
             /\ \A i \in 1..Len(wire[q]) : wire[q][i] \in {Load, Query}
        /\ Selecting(o) => NoStart
        /\ \A t \in Targets : Count(t) = 1 =>
             IF interact[o] \in Targets THEN interact[o] = t ELSE target[o] = t
    BY DEF QueryOf, Query
  <1>b. ~ TypeSelect(p)
    <2>1. CASE UNCHANGED typed
      BY <2>1, AppendProperties, LenProperties DEF TypeSelect, Types, TypeOK
    <2>2. CASE TypeLoad(p) \/ TypeQuit(p)
      BY <2>2 DEF TypeLoad, TypeQuit, TypeSelect
    <2> QED
      BY <2>1, <2>2, LinesKept DEF typedVars
  <1>1. \A q \in Procs \ {o} : ~ Selecting(q)'
    <2>1. ~ InteractSet(p) \/ p = o
      BY <1>a, Selectors DEF Selecting, User
    <2>2. \A q \in Procs : interact'[q] = interact[q] => Selecting(q)' = Selecting(q)
      BY DEF Selecting
    <2> QED
      BY <1>a, <1>b, <2>1, <2>2, Selectors DEF User
  <1>2. Selecting(o)' => Selecting(o)
    <2>1. InteractSet(p) => Selecting(p)
      BY Selectors DEF Selecting, User
    <2>2. interact'[o] = interact[o] => Selecting(o)' = Selecting(o)
      BY DEF Selecting
    <2> QED
      BY <1>b, <2>1, <2>2, Selectors DEF User
  <1>3. Selecting(o)' => NoStart'
    <2> SUFFICES ASSUME Selecting(o)' PROVE NoStart'
      OBVIOUS
    <2>1. NoStart
      BY <1>2, <1>a
    <2>2. ~ InteractStart(p)
      <3>1. SUFFICES ASSUME InteractStart(p) PROVE FALSE
        OBVIOUS
      <3>2. Selecting(p) /\ ~ Selecting(p)'
        BY <3>1, Selectors DEF Interact
      <3> QED
        BY <1>a, <3>2
    <2> QED
      BY <2>1, <2>2, NoStartKept DEF User
  <1>4. CASE InteractSet(p)
    <2>1. /\ p = o /\ interact[o] \in Targets /\ interact'[o] = "start"
          /\ target' = [target EXCEPT ![o] = interact[o]]
          /\ UNCHANGED <<server, select_flag, select_idx, wire>>
          /\ NoStart
      BY <1>4, <1>a, Selectors DEF Selecting, Interact
    <2>2. \A q \in Procs :
            /\ ~ select_flag'[q] /\ server'[q] # "target"
            /\ \A i \in 1..Len(wire'[q]) : wire'[q][i] = Load
      BY <2>1 DEF NoStart, FlagInv, FlagsAt
    <2>3. \A t \in Targets : Count(t)' = 1 => target'[o] = t
      BY <1>a, <2>1 DEF TypeOK
    <2>4. interact'[o] \notin Targets
      BY <2>1, TargetsAssumption
    <2> QED
      BY <1>1, <1>3, <2>2, <2>3, <2>4 DEF QueryOf, Stored
  <1>5. ASSUME ~ InteractSet(p),
               target'[o] = target[o],
               \A q \in Procs :
                 /\ Stored(q)' => select_idx'[q] = o /\ target'[q] = target[o]
                 /\ server'[q] = "target" => select_idx'[q] = o
                 /\ \A i \in 1..Len(wire'[q]) : wire'[q][i] \in {Load, Query}
        PROVE  QueryOf(o)'
    <2>1. \A t \in Targets : Count(t)' = 1 =>
            IF interact'[o] \in Targets THEN interact'[o] = t ELSE target'[o] = t
      <3>1. interact'[o] = interact[o] \/ (interact'[o] \notin Targets)
        BY <1>5, <1>b, Selectors DEF Selecting, User
      <3>2. interact'[o] # interact[o] => interact[o] \notin Targets
        <4> SUFFICES ASSUME interact[o] \in Targets, interact'[o] # interact[o]
                     PROVE  FALSE
          OBVIOUS
        <4>1. p = o
          BY Selectors DEF User
        <4> QED
          BY <1>5, <4>1, InteractSteps, MainSteps, ServerSteps, TargetsAssumption
             DEF Interact, InteractConnect, InteractLoad, InteractStart,
                 TypeLoad, TypeQuit, Types
      <3> QED
        BY <1>5, <1>a, <3>1, <3>2
    <2> QED
      BY <1>1, <1>3, <1>5, <2>1 DEF QueryOf, Query
  <1>6. CASE SendLoad(p) \/ SendStart(p) \/ InteractLoad(p) \/ InteractStart(p)
    <2>0. ASSUME SendStart(p) PROVE select_idx[p] = o /\ target[p] = target[o]
      BY <1>a, <2>0, StartSenders
    <2>1. UNCHANGED <<server, select_flag, select_idx, target>> /\ ~ InteractSet(p)
      <3>1. CASE SendStart(p)
        <4>1. PICK idx \in Numbers : /\ select_idx[p] \in {Unset, idx}
                                     /\ select_idx' = [select_idx EXCEPT ![p] = idx]
          BY <3>1 DEF SendStart
        <4>2. o # Unset
          BY DEF Unset, Procs
        <4>3. select_idx' = select_idx
          BY <2>0, <3>1, <4>1, <4>2 DEF TypeOK
        <4> QED
          BY <3>1, <4>3, TargetsAssumption
             DEF SendStart, InteractSet, InteractGoes, Goes, TypeOK
      <3>2. CASE ~ SendStart(p)
        BY <1>6, <3>2, QueriesKept, TargetsAssumption
           DEF InteractSet, InteractLoad, InteractStart, SendLoad,
               InteractGoes, TypeOK
      <3> QED
        BY <3>1, <3>2
    <2>2. PICK m \in {Load, Query} : Send(p, m)
      <3>2. InteractStart(p) => p = o
        BY <1>a, Selectors DEF Interact
      <3>3. CASE SendStart(p)
        <4>1. PICK idx \in Numbers : /\ select_idx[p] \in {Unset, idx}
                                     /\ Send(p, Start(idx, target[p]))
          BY <3>3 DEF SendStart
        <4>2. idx = o
          BY <2>0, <3>3, <4>1 DEF Unset, Procs
        <4> QED
          BY <2>0, <3>3, <4>1, <4>2 DEF Query
      <3>4. CASE ~ SendStart(p)
        BY <1>6, <3>2, <3>4, Sent DEF Query
      <3> QED
        BY <3>3, <3>4
    <2>3. ASSUME NEW q \in Procs, NEW i \in 1..Len(wire'[q])
          PROVE  wire'[q][i] \in {Load, Query}
      <3>1. m \in Messages /\ wire[q] \in Seq(Messages)
        BY <1>0 DEF TypeOK
      <3>2. wire'[q] = wire[q] \/ wire'[q] = Append(wire[q], m)
        BY <2>2, <3>1, Sends
      <3> QED
        BY <1>a, <2>3, <3>1, <3>2, Appended
    <2>4. \A q \in Procs : Stored(q)' => Stored(q)
      BY <2>1 DEF Stored
    <2> QED
      BY <1>a, <1>5, <2>1, <2>3, <2>4
  <1>7. CASE Server(p)
    <2>1. /\ wire[p] # << >> /\ Head(wire[p]) = wire[p][1]
          /\ Head(wire[p]) \in {Load, Query}
      <3>1. wire[p] # << >> \/ 1 \in 1..Len(wire[p])
        BY <1>7 DEF Server, ReceiveLoad, ReceiveStart, Receives, StoreIdx,
                    StoreTarget, NotifyMain, HandlerInv
      <3> QED
        BY <1>a, <3>1, Front
    <2>2. \A q \in Procs : \A i \in 1..Len(wire'[q]) : wire'[q][i] \in {Load, Query}
      <3>1. CASE UNCHANGED wire
        BY <1>a, <3>1
      <3>2. CASE Consume(p)
        <4>1. /\ \A q \in Procs \ {p} : wire'[q] = wire[q]
              /\ \A i \in 1..Len(wire'[p]) :
                   i + 1 \in 1..Len(wire[p]) /\ wire'[p][i] = wire[p][i + 1]
          BY <2>1, <3>2, Consumed
        <4> QED
          BY <1>a, <4>1
      <3> QED
        BY <1>7, <3>1, <3>2 DEF Server, ReceiveLoad, ReceiveStart, Ignore, StoreIdx,
                                StoreTarget, NotifyMain, streamVars
    <2>3. ~ InteractSet(p)
      BY <1>7, ServerSteps, TargetsAssumption DEF InteractSet, InteractGoes, TypeOK
    <2>4. \A q \in Procs \ {p} :
            /\ Stored(q)' => Stored(q) /\ server'[q] = server[q]
            /\ select_idx'[q] = select_idx[q] /\ target'[q] = target[q]
      BY <1>7, ServerSteps DEF Stored
    <2>9. ASSUME \/ target'[p] = target[o]
                 \/ target'[p] = target[p],
                 Stored(p)' => \/ Stored(p) /\ UNCHANGED <<select_idx, target>>
                               \/ select_idx'[p] = o /\ target'[p] = target[o],
                 server'[p] = "target" => select_idx'[p] = o
          PROVE  QueryOf(o)'
      <3>1. target'[o] = target[o]
        BY <2>4, <2>9
      <3>2. ASSUME NEW q \in Procs
            PROVE  /\ Stored(q)' => select_idx'[q] = o /\ target'[q] = target[o]
                   /\ server'[q] = "target" => select_idx'[q] = o
        <4>1. CASE q = p
          BY <1>a, <2>9, <4>1
        <4>2. CASE q # p
          <5>1. /\ Stored(q) => select_idx[q] = o /\ target[q] = target[o]
                /\ server[q] = "target" => select_idx[q] = o
            BY <1>a
          <5>2. /\ Stored(q)' => Stored(q)
                /\ server'[q] = server[q]
            BY <1>7, <4>2, ServerSteps DEF Stored
          <5>3. select_idx'[q] = select_idx[q] /\ target'[q] = target[q]
            BY <2>4, <4>2
          <5>4. Stored(q)' => select_idx'[q] = o /\ target'[q] = target[o]
            BY ONLY <5>1, <5>2, <5>3
          <5> QED
            BY ONLY <5>1, <5>2, <5>3, <5>4
        <4> QED
          BY <4>1, <4>2
      <3> QED
        BY <1>5, <2>2, <2>3, <3>1, <3>2
    <2>5. CASE ReceiveLoad(p) \/ NotifyMain(p)
      <3>1. /\ UNCHANGED <<select_flag, select_idx, target>>
            /\ server[p] \notin {"idx", "target"} /\ server'[p] \notin {"idx", "target"}
        BY <2>5 DEF ReceiveLoad, Receives, Ignore, NotifyMain, ServerGoes, flagVars,
                    TypeOK
      <3>2. Stored(p)' => Stored(p)
        BY <3>1 DEF Stored
      <3> QED
        BY <2>9, <3>1, <3>2
    <2>6. CASE ReceiveStart(p)
      <3>1. UNCHANGED <<select_idx, target>> /\ server'[p] # "target"
        BY <2>6 DEF ReceiveStart, Receives, Ignore, ServerGoes, flagVars, TypeOK
      <3>2. Stored(p)' => Stored(p)
        BY <2>6 DEF ReceiveStart, Receives, Ignore, ServerGoes, flagVars, TypeOK,
                    Stored
      <3> QED
        BY <2>9, <3>1, <3>2
    <2>7. CASE StoreIdx(p)
      <3>1. Head(wire[p]) = Query
        BY <1>0, <2>1, <2>7 DEF StoreIdx, HandlerInv, Load
      <3>2. UNCHANGED target /\ select_idx'[p] = o /\ server'[p] = "target"
        BY <1>0, <2>7, <3>1 DEF StoreIdx, ServerGoes, TypeOK
      <3>3. ~ Stored(p)'
        BY <3>2 DEF Stored
      <3> QED
        BY <2>9, <3>2, <3>3
    <2>8. CASE StoreTarget(p)
      <3>1. Head(wire[p]) = Query
        BY <1>0, <2>1, <2>8 DEF StoreTarget, HandlerInv, Load
      <3>2. /\ UNCHANGED select_idx /\ server[p] = "target" /\ server'[p] = "notify"
            /\ target'[p] = target[o]
        BY <1>0, <2>8, <3>1 DEF StoreTarget, ServerGoes, flagVars, TypeOK
      <3>3. server[p] = "target" => select_idx[p] = o
        BY <1>a
      <3> QED
        BY <2>9, <3>2, <3>3
    <2> QED
      BY <1>7, <2>5, <2>6, <2>7, <2>8 DEF Server
  <1>8. CASE StartUp(p) \/ Connect(p) \/ Wait(p) \/ TestClient(p)
             \/ ConnectLate(p) \/ LoadDatas(p) \/ Calculated(p) \/ TypeLoad(p)
             \/ TypeQuit(p) \/ InteractConnect(p)
    <2>1. UNCHANGED <<server, select_flag, select_idx, target, wire>>
      BY <1>8, QueriesKept, StreamsKept DEF User
    <2>2. \A q \in Procs : Stored(q)' => Stored(q)
      BY <2>1 DEF Stored
    <2> QED
      BY <1>a, <1>4, <1>5, <2>1, <2>2
  <1> QED
    BY <1>4, <1>6, <1>7, <1>8 DEF Main, Interact

LEMMA NextQueryInv ==
  TypeOK /\ TypeOK' /\ HandlerInv /\ FlagInv /\ QueryInv /\ [Next]_vars => QueryInv'
  <1> SUFFICES ASSUME TypeOK, TypeOK', HandlerInv, FlagInv, QueryInv, [Next]_vars,
                      Orderly'
               PROVE  QueryInv'
    BY DEF QueryInv
  <1>b. Orderly /\ \A p \in Procs : ~ Disturb(p)
    BY OrderlyBefore
  <1>0. /\ Selects \in Nat /\ \A t \in Targets : Count(t) \in Nat
        /\ \A t \in Targets : Count(t) <= Selects
    BY Counts DEF Lines
  <1>1. CASE UNCHANGED vars
    <2>1. UNCHANGED <<interact, server, wire, select_flag, select_idx, target, typed>>
      BY <1>1 DEF vars, streamVars, flagVars, typedVars
    <2> QED
      BY <1>b, <2>1 DEF QueryInv, NoStart, Selecting, QueryOf, Selects, Count, Stored
  <1>2. ASSUME NEW p \in Procs,
               \/ StartUp(p) \/ Main(p) \/ Calculated(p) \/ Interact(p)
               \/ Server(p) \/ TypeLoad(p) \/ TypeQuit(p)
        PROVE  QueryInv'
    <2>1. Selects' = Selects /\ \A t \in Targets : Count(t)' = Count(t)
      <3>1. ASSUME NEW line \in {"load", "q"}, Types(p, line)
            PROVE  Selects' = Selects /\ \A t \in Targets : Count(t)' = Count(t)
        <4>1. line \in Lines /\ line \notin Targets /\ Targets \subseteq Lines
          BY TargetsAssumption DEF Lines
        <4> QED
          BY <1>0, <3>1, <4>1, Typed
      <3>2. UNCHANGED typed =>
              Selects' = Selects /\ \A t \in Targets : Count(t)' = Count(t)
        BY DEF Selects, Count
      <3> QED
        BY <1>2, <3>1, <3>2, LinesKept DEF typedVars, TypeLoad, TypeQuit
    <2>2. CASE Selects = 0
      <3>1. NoStart /\ \A q \in Procs : ~ Selecting(q)
        BY <1>b, <2>2 DEF QueryInv
      <3>2. ~ InteractStart(p) /\ ~ InteractSet(p)
        BY <3>1 DEF Selecting, InteractStart, InteractSet
      <3>3. NoStart'
        BY <1>2, <1>b, <3>1, <3>2, NoStartKept DEF User
      <3>4. ~ TypeSelect(p)
        <4>1. TypeSelect(p) => \E line \in Lines \ {"load", "q"} : Types(p, line)
          BY TargetsAssumption DEF TypeSelect, Lines
        <4> QED
          BY <1>0, <2>1, <4>1, Typed
      <3>5. \A q \in Procs : interact'[q] = interact[q] => Selecting(q)' = Selecting(q)
        BY DEF Selecting
      <3>6. \A q \in Procs : ~ Selecting(q)'
        BY <1>2, <3>1, <3>2, <3>4, <3>5, Selectors DEF User
      <3> QED
        BY <2>1, <2>2, <3>3, <3>6 DEF QueryInv
    <2>3. CASE Selects = 1
      <3>1. PICK o \in Procs : QueryOf(o)
        BY <1>b, <2>3 DEF QueryInv
      <3>2. QueryOf(o)'
        BY <1>2, <1>b, <2>1, <3>1, QueryKept
      <3> QED
        BY <2>1, <2>3, <3>2 DEF QueryInv
    <2> QED
      BY <2>1, <2>2, <2>3 DEF QueryInv
  <1>3. ASSUME NEW p \in Procs, TypeSelect(p) PROVE QueryInv'
    <2>1. PICK line \in {"select"} \cup Targets :
            /\ Types(p, line)
            /\ interact' = [interact EXCEPT ![p] = IF line = "select" THEN "start"
                                                   ELSE line]
      BY <1>3, TargetsAssumption DEF TypeSelect, InteractGoes
    <2>2. line \in Lines /\ line \notin {"load", "q"} /\ Targets \subseteq Lines
      BY TargetsAssumption DEF Lines
    <2>3. /\ Selects' = Selects + 1
          /\ \A t \in Targets : Count(t)' = Count(t) + (IF line = t THEN 1 ELSE 0)
      BY <2>1, <2>2, Typed
    <2>4. ASSUME Selects = 0 PROVE QueryOf(p)'
      <3>1. NoStart /\ \A q \in Procs : ~ Selecting(q)
        BY <1>b, <2>4 DEF QueryInv
      <3>2. NoStart'
        BY <1>3, <1>b, <3>1, NoStartKept DEF User
      <3>5. \A q \in Procs : server'[q] # "target"
        BY <1>3, <3>1, QueriesKept DEF NoStart, FlagInv, FlagsAt, User
      <3>3. \A q \in Procs \ {p} : ~ Selecting(q)'
        BY <2>1, <3>1 DEF Selecting, TypeOK
      <3>4. ASSUME NEW t \in Targets, Count(t)' = 1
            PROVE  IF interact'[p] \in Targets THEN interact'[p] = t
                                               ELSE target'[p] = t
        <4>1. Count(t) = 0
          BY <1>0, <2>4
        <4>2. line = t
          BY <2>3, <3>4, <4>1
        <4>3. interact'[p] = t
          BY <2>1, <4>2, TargetsAssumption DEF TypeOK
        <4> QED
          BY <4>3
      <3> QED
        BY <3>2, <3>3, <3>4, <3>5 DEF QueryOf, NoStart, Stored
    <2> QED
      BY <1>0, <2>3, <2>4 DEF QueryInv
  <1> QED
    BY <1>1, <1>2, <1>3, <1>b DEF Next, User

-------------------------------------------------------------------------------
(***************************************************************************)
(* Theorems.                                                               *)
(***************************************************************************)

LEMMA InitIInv == Init => IInv
  <1> SUFFICES ASSUME Init PROVE IInv
    OBVIOUS
  <1>1. TypeOK
    BY InitType
  <1>2. FlagInv /\ HandlerInv
    BY DEF Init, FlagInv, FlagsAt, Signals, Pending, One, Stage, HandlerInv,
           Loading, Calculating
  <1>3. \A p \in Procs : wire[p] = << >> /\ Len(wire[p]) = 0
    BY DEF Init
  <1>4. Quiet /\ NoStart /\ \A p \in Procs : interact[p] = "read" /\ ~ Selecting(p)
    BY <1>3, TargetsAssumption DEF Init, Quiet, NoStart, Selecting
  <1>5. ClientInv
    BY <1>4, TargetsAssumption
       DEF Init, ClientInv, ClientMade, BeforeLoad, OneClientEach, ClientDown,
           NoneYet, Loading, Calculating
  <1>6. Selects = 0
    <2>1. {i \in DOMAIN typed : typed[i] \notin {"load", "q"}} = {}
      BY DEF Init
    <2> QED
      BY <2>1, FS_EmptySet DEF Selects
  <1> QED
    BY <1>1, <1>2, <1>4, <1>5, <1>6 DEF IInv, QueryInv

LEMMA NextIInv == IInv /\ [Next]_vars => IInv'
  BY NextType, NextHandlerInv, NextFlagInv, NextClientMade, NextBeforeLoad,
     NextOneClientEach, NextQueryInv DEF IInv, ClientInv

LEMMA Invariant == Spec => []IInv
  BY InitIInv, NextIInv, PTL DEF Spec

\* The variables keep their types; what the server takes from the front of its
\* stream after it has set select_flag is a start (cpp/server.cpp, case start).
THEOREM TypeCorrect == Spec => []TypeOK
  BY Invariant, PTL DEF IInv

\* Of main's two waits the second is not left before a start has arrived, unless
\* one of them ended by itself, whatever notifications they take from each other;
\* and only an early `q' ends it before the query is stored.
THEOREM CalculatesAreSelected == Spec => []CalculatesSelected
  <1>1. IInv => CalculatesSelected
    BY Selected DEF IInv
  <1> QED
    BY <1>1, Invariant, PTL

\* An instance whose interaction thread has ended is not left waiting for `q'
\* unless its main thread missed a notification or has one to come.
THEOREM QuitsAreHeard == Spec => []QuitIsHeard
  <1>1. IInv => QuitIsHeard
    <2> SUFFICES ASSUME IInv, NEW p \in Procs \ missed, main[p] = "quitWait",
                        interact[p] = "done"
                 PROVE  server[p] # "read"
      BY DEF QuitIsHeard
    <2>1. Stage(main[p]) = 2 /\ Signals(p) <= Stage(main[p]) + Pending(p)
      BY DEF IInv, FlagInv, FlagsAt, Stage, Calculating
    <2>2. Signals(p) = 3
      BY DEF IInv, FlagInv, FlagsAt, Signals, One
    <2> QED
      BY <2>1, <2>2 DEF Pending, One
  <1> QED
    BY <1>1, Invariant, PTL

\* A thread that sends has a client, which either thread of instance 1 made.
THEOREM ClientsBeforeSends == Spec => []ClientBeforeSend
  <1>1. IInv => ClientBeforeSend
    BY DEF IInv, ClientInv, ClientMade, ClientBeforeSend, Loading
  <1> QED
    BY <1>1, Invariant, PTL

\* With a single load, typed after its prompt, or a single instance that goes on by
\* itself, the instances that load form the ring: the two threads of instance 1 do not both connect.
THEOREM RingIsComplete == Spec => []RingComplete
  <1>1. IInv => RingComplete
    BY DEF IInv, ClientInv, ClientMade, OneClientEach, ClientDown, RingComplete
  <1> QED
    BY <1>1, Invariant, PTL

\* All that calculate after a single select calculate the query that was typed
\* and report to the instance where it was typed.
THEOREM QueriesAgree == Spec => []AgreeOnQuery
  <1>1. IInv => AgreeOnQuery
    <2> SUFFICES ASSUME IInv, Selects <= 1, Orderly, NEW p \in Procs, NEW q \in Procs,
                        main[p] \in Calculating, main[q] \in Calculating
                 PROVE  /\ select_idx[p] = select_idx[q]
                        /\ target[p] = target[q]
                        /\ \A t \in Targets : Count(t) = 1 => target[p] = t
      BY DEF AgreeOnQuery, Orderly
    <2>1. Stored(p) /\ Stored(q) /\ select_flag[p] /\ ~ NoStart
      BY Selected DEF IInv, CalculatesSelected, NoStart, Orderly
    <2>2. Selects = 1
      BY <2>1, Counts DEF IInv, QueryInv, Orderly
    <2>3. PICK o \in Procs : QueryOf(o)
      BY <2>2 DEF IInv, QueryInv, Orderly
    <2> QED
      BY <2>1, <2>3 DEF QueryOf, Selecting
  <1> QED
    BY <1>1, Invariant, PTL

===============================================================================
