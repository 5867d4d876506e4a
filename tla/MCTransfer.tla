------------------------------ MODULE MCTransfer ------------------------------
(***************************************************************************)
(* Model-checking instance of Transfer.                                    *)
(***************************************************************************)
EXTENDS Transfer

Chars(s) == [i \in 1..Len(s) |-> SubSeq(s, i, i)]

LgBox == Chars("LG BOX")
SmBag == Chars("SM BAG")
BothContainers == {LgBox, SmBag}

Lines(ss) == [i \in DOMAIN ss |-> Chars(ss[i])]

\* The order of quantity 90 and that of 60 come to 150, more than 127, in the
\* instance that gets both.
Lineitems == Lines(<<"1|105|7|1|90|12.5|0.1|", "1|9|7|2|3|0.07|0|",
                     "2|10|7|1|60|4|0|">>)
PartTbl == Lines(<<"105|a|M#1|Brand#12|t|7|LG BOX|W|",
                   "9|b|M#2|Brand#51|t|7|SM BAG|W|">>)

NoOwn == << >>

\* The common file alone, one file for each instance, or no file at all.  Of
\* parts the second instance alone may have a file.
Common(lines) == [own |-> NoOwn, there |-> TRUE, common |-> lines]
Missed == [own |-> NoOwn, there |-> FALSE, common |-> << >>]
Owned(files) == [own |-> files, there |-> FALSE, common |-> << >>]

Lineitem == {Common(Lineitems), Missed,
             Owned(<<SubSeq(Lineitems, 1, 2), SubSeq(Lineitems, 3, 3)>>)}
Part == {Common(PartTbl), Missed, Owned(<<PartTbl, << >>>>),
         [own |-> [p \in {2} |-> PartTbl], there |-> TRUE, common |-> PartTbl]}

Selects == {Chars("select 12 'LG BOX'"), Chars("select 12 LG BOX"),
            Chars("select 61 'SM BAG'")}

===============================================================================
