------------------------------ MODULE DataReader -------------------------------
(***************************************************************************)
(* dataReader: every instance loads its orders and then its parts, from a  *)
(* file of its own if there is one, and else from the common file, of      *)
(* which it takes every N-th line.  A file that cannot be opened sets      *)
(* failbit, which bad() does not test: it is read as one without lines.    *)
(***************************************************************************)
EXTENDS Codec, Functions

CONSTANTS N,          \* as in RingBarrier
          OrderFiles, \* what may be there of lineitem.tbl and div_lineitem_p
          PartFiles   \* what may be there of part.tbl and div_part_p

Procs == 1..N

ASSUME NAssumption == N \in Nat /\ N >= 2

\* A line, as in Codec.
Text == Seq(STRING)

\* The own files of some instances, whether the common file is there, and its
\* lines, none if it is not.
ASSUME FilesAssumption ==
  \A files \in OrderFiles \cup PartFiles :
    /\ DOMAIN files.own \subseteq Procs
    /\ files.own \in [DOMAIN files.own -> Seq(Text)]
    /\ files.there \in BOOLEAN /\ files.common \in Seq(Text)
    /\ ~ files.there => files.common = << >>

VARIABLES orderFiles, partFiles,
          loading,    \* what the instance is loading: orders, parts, nothing
          cnt,        \* the lines it has read of that
          orders,
          parts,
          partIdHash  \* positions in parts, by key

readerVars == <<orderFiles, partFiles, loading, cnt, orders, parts, partIdHash>>

ReaderInit ==
  /\ orderFiles \in OrderFiles
  /\ partFiles \in PartFiles
  /\ loading = [p \in Procs |-> "orders"]
  /\ cnt = [p \in Procs |-> 0]
  /\ orders = [p \in Procs |-> << >>]
  /\ parts = [p \in Procs |-> << >>]
  /\ partIdHash = [p \in Procs |-> << >>]

\* isDiv: p has a file of its own
IsDiv(p, files) == p \in DOMAIN files.own
File(p, files) == IF IsDiv(p, files) THEN files.own[p] ELSE files.common

\* Mutant: the remainder is compared as it is, so that no line is N's.
MineShifted(p, files, n) == IsDiv(p, files) \/ n % N = p

\* Whether p keeps the n-th line: cnt % totalProgramCount + 1 == index
Mine(p, files, n) == IsDiv(p, files) \/ (n % N) + 1 = p

LoadOrders(p) ==
  /\ loading[p] = "orders"
  /\ LET file == File(p, orderFiles)
         n == cnt[p] + 1
     IN \/ /\ n \in DOMAIN file
           /\ cnt' = [cnt EXCEPT ![p] = n]
           /\ orders' = IF Mine(p, orderFiles, n)
                THEN [orders EXCEPT ![p] = Append(@, LoadOrder(file[n]))]
                ELSE orders
           /\ UNCHANGED loading
        \/ /\ n \notin DOMAIN file
           /\ loading' = [loading EXCEPT ![p] = "parts"]
           /\ cnt' = [cnt EXCEPT ![p] = 0]
           /\ UNCHANGED orders
  /\ UNCHANGED <<orderFiles, partFiles, parts, partIdHash>>

LoadParts(p) ==
  /\ loading[p] = "parts"
  /\ LET file == File(p, partFiles)
         n == cnt[p] + 1
     IN \/ /\ n \in DOMAIN file /\ Mine(p, partFiles, n)
           /\ LET part == LoadPart(file[n]) IN
                /\ parts' = [parts EXCEPT ![p] = Append(@, part)]
                /\ partIdHash' = [partIdHash EXCEPT ![p] =
                     [k \in DOMAIN @ \cup {part.pPartkey} |->
                        IF k = part.pPartkey THEN Len(parts[p]) + 1 ELSE @[k]]]
           /\ cnt' = [cnt EXCEPT ![p] = n]
           /\ UNCHANGED loading
        \/ /\ n \in DOMAIN file /\ ~ Mine(p, partFiles, n)
           /\ cnt' = [cnt EXCEPT ![p] = n]
           /\ UNCHANGED <<loading, parts, partIdHash>>
        \/ /\ n \notin DOMAIN file
           /\ loading' = [loading EXCEPT ![p] = "nothing"]
           /\ UNCHANGED <<cnt, parts, partIdHash>>
  /\ UNCHANGED <<orderFiles, partFiles, orders>>

Load(p) == LoadOrders(p) \/ LoadParts(p)

-------------------------------------------------------------------------------
(***************************************************************************)
(* Properties.                                                             *)
(***************************************************************************)

Loaded == \A p \in Procs : loading[p] = "nothing"

\* All have files of their own, or nobody has and the common file is there.
Consistent(files) ==
  DOMAIN files.own = Procs \/ (DOMAIN files.own = {} /\ files.there)

Present(files) ==
  IF DOMAIN files.own = Procs THEN FlattenSeq(files.own) ELSE files.common

Multiplicity(s) == [x \in Range(s) |-> Cardinality({i \in DOMAIN s : s[i] = x})]

SameRecords(loaded, lines, L(_)) ==
  Multiplicity(FlattenSeq(loaded))
    = Multiplicity([i \in DOMAIN lines |-> L(lines[i])])

\* When the files are there (without them the code means to throw and does not,
\* dataReader.cpp:56-60), all of the same layout, the instances have loaded
\* exactly their lines, each line once, whether they were divided in advance or
\* are divided by number.
LinesPartitioned ==
  Loaded /\ Consistent(orderFiles) /\ Consistent(partFiles) =>
    /\ SameRecords(orders, Present(orderFiles), LoadOrder)
    /\ SameRecords(parts, Present(partFiles), LoadPart)

\* The records are what the lines are parsed to, and the hash names parts.
ReaderTypeOK ==
  /\ loading \in [Procs -> {"orders", "parts", "nothing"}]
  /\ cnt \in [Procs -> Nat]
  /\ \A p \in Procs :
       /\ \A o \in Range(orders[p]) : o.lPartkey \in Nat /\ o.lQuantity \in Nat
       /\ \A part \in Range(parts[p]) :
            /\ part.pPartkey \in DOMAIN partIdHash[p]
            /\ part.pBrandCode \in (1..5) \X (1..5)
            /\ part.pContainer \in Containers
       /\ Range(partIdHash[p]) \subseteq DOMAIN parts[p]

===============================================================================
