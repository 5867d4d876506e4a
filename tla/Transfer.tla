------------------------------- MODULE Transfer --------------------------------
(***************************************************************************)
(* From the files of one instance to the memory of the next: an instance   *)
(* loads its data, and then sends messages made of it, and queries typed   *)
(* at its terminal, through the one buffer of its client; the next         *)
(* instance takes them apart.  Which messages, and in which order, is left *)
(* open: the three calculators and both threads send them.                 *)
(*                                                                         *)
(* A send is complete before the next one: see the module's place in the   *)
(* README.                                                                 *)
(***************************************************************************)
EXTENDS DataReader

CONSTANTS Typed,   \* lines that may be typed
          MaxSent  \* bound on the messages sent

Down(p) == IF p = 1 THEN N ELSE p - 1

VARIABLES msgToServer,     \* the buffer of p's client
          targetContainer, targetBrand,
          wire,            \* wire[p]: the frames in the stream to p's server
          received,        \* what p's server has taken out of them
          sent             \* history: the records p has sent

transferVars == <<msgToServer, targetContainer, targetBrand, wire, received,
                  sent>>
vars == <<readerVars, transferVars>>

Init ==
  /\ ReaderInit
  /\ msgToServer = [p \in Procs |-> [i \in 1..BufferSize |-> NUL]]
  /\ targetContainer = [p \in Procs |-> << >>]
  /\ targetBrand = [p \in Procs |-> <<0, 0>>]
  /\ wire = [p \in Procs |-> << >>]
  /\ received = [p \in Procs |-> << >>]
  /\ sent = [p \in Procs |-> << >>]

Message(head, data) == [head |-> head, data |-> data]

SumOfQuantities(os) == FoldLeft(LAMBDA sum, o : sum + o.lQuantity, 0, os)

\* client::send: the whole buffer goes out.  Sending starts when all have
\* loaded, because the two have no state in common but what p loaded.
Send(p, m) ==
  /\ Loaded /\ Len(FlattenSeq(sent)) < MaxSent
  /\ msgToServer' = [msgToServer EXCEPT ![p] = Strcpy(@, SendMsg(m))]
  /\ wire' = [wire EXCEPT ![Down(p)] = Append(@, msgToServer'[p])]
  /\ sent' = [sent EXCEPT ![p] = Append(@, m)]
  /\ UNCHANGED <<readerVars, received>>

\* The counts of a part that has been ordered once, by o.
Counted(part, o) ==
  [id |-> part.pPartkey, brandCode |-> part.pBrandCode,
   saleCount |-> o.lQuantity, totalSales |-> o.lQuantity * o.lExtendedprice,
   container |-> part.pContainer]

\* What the calculators send of an order, of a part, of both, and of all.
DataOf(p) ==
  {Message("order", o) : o \in Range(orders[p])}
  \cup {Message("finalPart", [partid |-> o.lPartkey, orderCount |-> 1,
                              totalSale |-> o.lQuantity, from |-> p]) :
          o \in Range(orders[p])}
  \cup {Message("finalAns", o.lExtendedprice) : o \in Range(orders[p])}
  \cup {Message("part", part) : part \in Range(parts[p])}
  \cup {Message("partKey", part.pPartkey) : part \in Range(parts[p])}
  \cup {Message(head, Counted(part, o)) : head \in {"partData", "underSale"},
          part \in Range(parts[p]), o \in Range(orders[p])}
  \cup {Message("totalData", [from |-> p, partCount |-> Len(parts[p]),
                              totalSale |-> SumOfQuantities(orders[p])])}

SendData(p) ==
  /\ \E m \in DataOf(p) : Send(p, m)
  /\ UNCHANGED <<targetContainer, targetBrand>>

\* sendLoad, and the first token of doAsync
SendSignal(p) ==
  /\ \/ Send(p, Message("load", << >>))
     \/ Send(p, Message("finish",
                 [idx |-> 0, cnt |-> [q \in Procs |-> IF q = p THEN 1 ELSE 0]]))
  /\ UNCHANGED <<targetContainer, targetBrand>>

\* A select typed at p: the query is set if the line is one, and sent anyway.
SendStart(p) ==
  \E line \in Typed :
    /\ \/ /\ IsQuery(line)
          /\ targetContainer' =
               [targetContainer EXCEPT ![p] = QueryContainer(line)]
          /\ targetBrand' = [targetBrand EXCEPT ![p] = QueryBrand(line)]
       \/ /\ ~ IsQuery(line)
          /\ UNCHANGED <<targetContainer, targetBrand>>
    /\ Send(p, Message("start",
                 [idx |-> p, container |-> targetContainer'[p],
                  brand |-> targetBrand'[p]]))

\* read(sock, buffer(msgFromClient)), message m(msgFromClient), unZip...
Receive(p) ==
  /\ wire[p] # << >>
  /\ received' = [received EXCEPT ![p] = Append(@, Parsed(Head(wire[p])))]
  /\ wire' = [wire EXCEPT ![p] = Tail(@)]
  /\ UNCHANGED <<readerVars, msgToServer, targetContainer, targetBrand, sent>>

Next ==
  \E p \in Procs :
    \/ Load(p) /\ UNCHANGED transferVars
    \/ SendData(p) \/ SendSignal(p) \/ SendStart(p)
    \/ Receive(p)

Spec == Init /\ [][Next]_vars

-------------------------------------------------------------------------------
(***************************************************************************)
(* Properties.                                                             *)
(***************************************************************************)

\* A frame has the size the reader expects, so that no message was longer than
\* the buffer, and a target is a query or has never been set.
TypeOK ==
  /\ ReaderTypeOK
  /\ \A p \in Procs :
       /\ Len(msgToServer[p]) = BufferSize
       /\ \A i \in DOMAIN wire[p] : Len(wire[p][i]) = BufferSize
       /\ \/ targetContainer[p] = << >> /\ targetBrand[p] = <<0, 0>>
          \/ /\ targetContainer[p] \in Containers
             /\ targetBrand[p] \in (1..5) \X (1..5)
       /\ \A i \in DOMAIN sent[p] : sent[p][i].head \in DOMAIN HeadChar
  /\ \A p \in Procs : Len(received[Down(p)]) <= Len(sent[p])

\* The total is a long long where it is sent and an int where it is taken out.
FitsInt(m) == m.head = "totalData" => m.data.totalSale < 2^(IntBits - 1)

\* What is taken out is what was put in, record by record, whatever was in the
\* buffer before, and unless the total of the sales does not fit an int.
Delivered ==
  \A p \in Procs : \A i \in DOMAIN received[Down(p)] :
    FitsInt(sent[p][i]) => received[Down(p)][i] = sent[p][i]

===============================================================================
