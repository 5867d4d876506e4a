--------------------------------- MODULE Codec ---------------------------------
(***************************************************************************)
(* The conversions of Utils and message: from a line of a table to a       *)
(* record, from a record to the body of a message and back, from a message *)
(* to the bytes of the send buffer and back, and from a line typed at the  *)
(* terminal to a query.                                                    *)
(*                                                                         *)
(* A text is a sequence of characters, and a character a string of length  *)
(* one, or NUL.  An int has IntBits bits (32 in the program).  A double is *)
(* a number of millionths, what std::to_string keeps of it; its rounding   *)
(* is not modelled.                                                        *)
(***************************************************************************)
EXTENDS Integers, Sequences, SequencesExt, FiniteSetsExt

CONSTANTS IntBits,     \* width of an int
          Containers,  \* Utils::containers, a set of texts
          BufferSize   \* client::bufferSize, server::bufferSize

ASSUME IntBitsAssumption == IntBits \in Nat \ {0}
ASSUME BufferAssumption == BufferSize \in Nat \ {0, 1}
ASSUME ContainersAssumption ==
  \A c \in Containers : \A i \in DOMAIN c : c[i] \notin {"|", ".", "'"}

Bar == <<"|">>
NUL == "NUL"

-------------------------------------------------------------------------------
(***************************************************************************)
(* Numbers.                                                                *)
(***************************************************************************)

Digits == <<"0", "1", "2", "3", "4", "5", "6", "7", "8", "9">>

IsDigit(c) == c \in ToSet(Digits)

\* c - '0', which for other characters is a number that is no digit
Value(c) == IF IsDigit(c) THEN CHOOSE d \in 0..9 : Digits[d + 1] = c ELSE -1

\* What an int holds after the assignment of x.
Wrapped(x) == ((x + 2^(IntBits - 1)) % 2^IntBits) - 2^(IntBits - 1)

Padded(n, k) == [i \in 1..k |-> Digits[((n \div 10^(k - i)) % 10) + 1]]

\* std::to_string of an integer
TextOf(n) ==
  Padded(n, CHOOSE k \in 1..9 : n < 10^k /\ (k = 1 \/ n >= 10^(k - 1)))

\* std::to_string of a double: six decimals
TextOfDouble(x) == TextOf(x \div 10^6) \o <<".">> \o Padded(x % 10^6, 6)

\* x = x * 10 + c - '0' over the digits of an int
Number(text) == FoldLeft(LAMBDA x, c : Wrapped(10 * x + Value(c)), 0, text)

-------------------------------------------------------------------------------
(***************************************************************************)
(* Columns.  All scanners count the separators they have met.              *)
(***************************************************************************)

Columns(text, sep) ==
  FoldLeft(LAMBDA cs, c : IF c = sep THEN Append(cs, << >>)
             ELSE [cs EXCEPT ![Len(cs)] = Append(@, c)],
           << << >> >>, text)

\* Digits before and, if there is a point, after it, to the sixth.
Double(text) ==
  LET halves == Columns(text, ".")
      whole == FoldLeft(LAMBDA x, c : 10 * x + Value(c), 0, halves[1])
      fraction == IF Len(halves) = 1 THEN << >> ELSE halves[2]
  IN 10^6 * whole
     + FoldLeft(LAMBDA x, i : x + 10^(6 - i) * Value(fraction[i]), 0,
                [i \in 1..Min({6, Len(fraction)}) |-> i])

\* The first digit that is not zero goes to the first place, later ones to the
\* second.
Brand(digits) ==
  FoldLeft(LAMBDA b, c : IF b[1] = 0 THEN <<Value(c), b[2]>>
                                     ELSE <<b[1], Value(c)>>,
           <<0, 0>>, digits)

BrandText(b) == TextOf(b[1]) \o TextOf(b[2])

Joined(columns) == FlattenSeq([i \in DOMAIN columns |-> columns[i] \o Bar])

-------------------------------------------------------------------------------
(***************************************************************************)
(* Lines of the tables: loadPart and loadOrder.                            *)
(***************************************************************************)

LoadPart(line) ==
  LET c == Columns(line, "|") IN
    [pPartkey |-> Number(c[1]),
     pBrandCode |-> Brand(SelectSeq(c[4], IsDigit)),
     pContainer |-> c[7]]

LoadOrder(line) ==
  LET c == Columns(line, "|") IN
    [lPartkey |-> Number(c[2]), lQuantity |-> Number(c[5]),
     lExtendedprice |-> Double(c[6])]

-------------------------------------------------------------------------------
(***************************************************************************)
(* Bodies of messages.  unZip... takes the columns of a body; the port     *)
(* that tells where a message started is the number of the instance.       *)
(***************************************************************************)

ZipOrderToString(o) ==
  Joined(<<TextOf(o.lPartkey), TextOf(o.lQuantity),
           TextOfDouble(o.lExtendedprice)>>)

UnZipOrderString(c) ==
  [lPartkey |-> Number(c[1]), lQuantity |-> Number(c[2]),
   lExtendedprice |-> Double(c[3])]

ZipPartToString(part) ==
  Joined(<<TextOf(part.pPartkey), TextOf(part.pBrandCode[1]),
           TextOf(part.pBrandCode[2]), part.pContainer>>)

\* Of a brand code of several digits the last one stays.
UnZipPartString(c) ==
  [pPartkey |-> Number(c[1]),
   pBrandCode |-> <<Value(Last(c[2])), Value(Last(c[3]))>>,
   pContainer |-> c[4]]

ZipTotalData(d) ==
  Joined(<<TextOf(d.from), TextOf(d.partCount), TextOf(d.totalSale)>>)

\* pair<int,pair<int,int>>, although totalSale is a long long
UnZipTotalData(c) ==
  [from |-> Number(c[1]), partCount |-> Number(c[2]),
   totalSale |-> Number(c[3])]

ZipPartData(d) ==
  Joined(<<TextOf(d.id), BrandText(d.brandCode) \o TextOf(d.saleCount),
           TextOfDouble(d.totalSales)>>) \o d.container

\* id|12xxxxx|yyyyy|zzzz: the sales follow the two digits of the brand
UnZipPartData(c) ==
  [id |-> Number(c[1]), brandCode |-> Brand(SubSeq(c[2], 1, 2)),
   saleCount |-> Number(SubSeq(c[2], 3, Len(c[2]))),
   totalSales |-> Double(c[3]), container |-> c[4]]

ZipPartSaleData(d) ==
  Joined(<<TextOf(d.partid), TextOf(d.orderCount), TextOf(d.totalSale),
           TextOf(d.from)>>)

UnZipPartSaleData(c) ==
  [partid |-> Number(c[1]), orderCount |-> Number(c[2]),
   totalSale |-> Number(c[3]), from |-> Number(c[4])]

ZipStart(d) == Joined(<<TextOf(d.idx), d.container, BrandText(d.brand)>>)

UnZipStart(c) ==
  [idx |-> Number(c[1]), container |-> c[2], brand |-> Brand(c[3])]

\* The number of the barrier, and one digit for every instance.
ZipFinish(d) ==
  TextOf(d.idx) \o Bar \o [i \in DOMAIN d.cnt |-> Digits[d.cnt[i] + 1]]

UnZipFinish(c) ==
  [idx |-> Number(c[1]), cnt |-> [i \in DOMAIN c[2] |-> Value(c[2][i])]]

ZipBody(m) ==
  CASE m.head = "order" -> ZipOrderToString(m.data)
    [] m.head = "part" -> ZipPartToString(m.data)
    [] m.head = "totalData" -> ZipTotalData(m.data)
    [] m.head \in {"partData", "underSale"} -> ZipPartData(m.data)
    [] m.head = "finalPart" -> ZipPartSaleData(m.data)
    [] m.head = "start" -> ZipStart(m.data)
    [] m.head = "finish" -> ZipFinish(m.data)
    [] m.head = "partKey" -> TextOf(m.data)
    [] m.head = "finalAns" -> TextOfDouble(m.data)
    [] m.head = "load" -> m.data

UnZipBody(head, body) ==
  LET c == Columns(body, "|") IN
  CASE head = "order" -> UnZipOrderString(c)
    [] head = "part" -> UnZipPartString(c)
    [] head = "totalData" -> UnZipTotalData(c)
    [] head \in {"partData", "underSale"} -> UnZipPartData(c)
    [] head = "finalPart" -> UnZipPartSaleData(c)
    [] head = "start" -> UnZipStart(c)
    [] head = "finish" -> UnZipFinish(c)
    [] head = "partKey" -> Number(c[1])
    [] head = "finalAns" -> Double(c[1])
    [] head = "load" -> body

-------------------------------------------------------------------------------
(***************************************************************************)
(* The class message, and the buffers.                                     *)
(***************************************************************************)

\* setHead
HeadChar ==
  [load |-> "l", start |-> "s", order |-> "o", finish |-> "f",
   totalData |-> "t", part |-> "p", partData |-> "d", partKey |-> "k",
   finalPart |-> "P", finalAns |-> "A", underSale |-> "u"]

\* getHeadEnum
HeadEnum(c) == CHOOSE h \in DOMAIN HeadChar : HeadChar[h] = c

SendMsg(m) == <<HeadChar[m.head]>> \o ZipBody(m)

\* Mutant: memcpy without the terminating zero.
StrcpyNoEnd(buffer, text) ==
  text \o SubSeq(buffer, Len(text) + 1, Len(buffer))

\* strcpy(msgToServer, ...): behind the zero stays what was there
Strcpy(buffer, text) ==
  text \o <<NUL>> \o SubSeq(buffer, Len(text) + 2, Len(buffer))

\* message(const char *s): one byte of head, a body up to the first zero
Parsed(frame) ==
  LET end == Min({i \in DOMAIN frame : frame[i] = NUL})
      head == HeadEnum(frame[1])
  IN [head |-> head, data |-> UnZipBody(head, SubSeq(frame, 2, end - 1))]

-------------------------------------------------------------------------------
(***************************************************************************)
(* split and dealInputParm.                                                *)
(***************************************************************************)

\* Blanks within quotes are part of a token, the quotes are not.
Split(text) ==
  LET step(s, c) ==
        IF c = "'" THEN [s EXCEPT !.quoted = ~ @]
        ELSE IF c # " " \/ s.quoted
          THEN [s EXCEPT !.tokens[Len(s.tokens)] = Append(@, c)]
        ELSE [s EXCEPT !.tokens = Append(@, << >>)]
      end == FoldLeft(step, [tokens |-> << << >> >>, quoted |-> FALSE], text)
  IN SelectSeq(end.tokens, LAMBDA token : token # << >>)

BrandDigits == {"1", "2", "3", "4", "5"}

\* Mutant: the brand is not looked at.
IsQueryAnyBrand(text) ==
  LET token == Split(text) IN
    /\ Len(token) = 3
    /\ Len(token[2]) = 2
    /\ token[3] \in Containers

\* The test of dealInputParm, and what it takes from a line that passes.
IsQuery(text) ==
  LET token == Split(text) IN
    /\ Len(token) = 3
    /\ Len(token[2]) = 2 /\ ToSet(token[2]) \subseteq BrandDigits
    /\ token[3] \in Containers

QueryBrand(text) == <<Value(Split(text)[2][1]), Value(Split(text)[2][2])>>
QueryContainer(text) == Split(text)[3]

===============================================================================
