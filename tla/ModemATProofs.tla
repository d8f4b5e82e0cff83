--------------------------- MODULE ModemATProofs ---------------------------
(***************************************************************************)
(* Proofs about ModemAT, for every set of quantities, number of rounds and *)
(* number of late answers.                                                 *)
(***************************************************************************)
EXTENDS ModemAT, WellFoundedInduction, TLAPS

----------------------------------------------------------------------------
\* A set of naturals that is not empty has a least element: what a choice of the
\* first place in a text rests on.
LEMMA Least ==
  ASSUME NEW T, T \subseteq Nat, T # {}
  PROVE  \E x \in T : \A y \in T : x <= y
<1>1. PICK x \in T : \A y \in T : ~ (<<y, x>> \in OpToRel(<, Nat))
  BY NatLessThanWellFounded, WFMin, Zenon
<1>2. ASSUME NEW y \in T PROVE x <= y
  <2>1. ~(y < x)
    BY <1>1, Zenon DEF OpToRel
  <2>. QED BY <2>1
<1>. QED BY <1>2

Kinds == {"echo", "value", "head", "OK", "ERROR", "blank", "nothing", "piece", "rest"}
Lines == [kind : Kinds, of : Quantities \cup {"none", "init"}]

----------------------------------------------------------------------------
(* The answers of the modem and what is found in them.                     *)

LEMMA LineTypes ==
  /\ OK \in Lines /\ ERROR \in Lines /\ Blank \in Lines /\ Nothing \in Lines
  /\ \A q \in Quantities \cup {"init"} :
       Echo(q) \in Lines /\ Val(q) \in Lines /\ Line("head", q) \in Lines
  /\ Piece \in Lines /\ \A l \in Lines : Rest(l) \in Lines
BY DEF Lines, Kinds, Line, OK, ERROR, Blank, Nothing, Echo, Val, Piece, Rest

\* The kinds keep lines apart, and values keep apart what they are of.
LEMMA LinesDiffer ==
  /\ OK # ERROR /\ OK # Blank /\ ERROR # Blank
  /\ \A q \in Quantities \cup {"init"}, r \in Quantities :
       /\ Echo(q) # OK /\ Echo(q) # ERROR /\ Echo(q) # Val(r)
       /\ Val(r) # OK /\ Val(r) # ERROR /\ Val(r) # Blank /\ Echo(r) # Blank
       /\ Line("head", r) # OK /\ Line("head", r) # ERROR /\ Line("head", r) # Echo(r)
  /\ \A q, r : Val(q) = Val(r) => q = r
  /\ \A q, r : Echo(q) = Echo(r) => q = r
BY DEF Line, OK, ERROR, Blank, Echo, Val

\* The two shapes of a full answer.
LEMMA Shapes ==
  ASSUME NEW q \in Quantities
  PROVE  /\ q \in {"paTmp", "pcTmp"} => Full(q) = <<Echo(q), Line("head", q), Val(q), Blank, OK>>
         /\ q \notin {"paTmp", "pcTmp"} => Full(q) = <<Echo(q), Val(q), Blank, OK>>
BY DEF Full

\* An answer is a sequence of at most five lines.
LEMMA FullType ==
  ASSUME NEW q \in Quantities
  PROVE  Full(q) \in Seq(Lines) /\ Len(Full(q)) \in 1..5 /\ Len(Full(q)) <= 5
<1>1. CASE q \in {"paTmp", "pcTmp"}
  <2>1. Full(q) = <<Echo(q), Line("head", q), Val(q), Blank, OK>>
    BY <1>1, Shapes
  <2> QED BY <2>1, LineTypes
<1>2. CASE q \notin {"paTmp", "pcTmp"}
  <2>1. Full(q) = <<Echo(q), Val(q), Blank, OK>>
    BY <1>2, Shapes
  <2> QED BY <2>1, LineTypes
<1> QED BY <1>1, <1>2

\* A set of places has a least one.
LEMMA LeastPlace ==
  ASSUME NEW n \in Nat, NEW I \in SUBSET (1..n), I # {}
  PROVE  Min(I) \in I /\ \A i \in I : Min(I) <= i
<1>1. I \subseteq Nat
  OBVIOUS
<1>2. \E x \in I : \A y \in I : x <= y
  BY <1>1, Least
<1> QED BY <1>2 DEF Min

\* A first place chosen by a test passes it.
LEMMA FirstPlace ==
  ASSUME NEW len \in Nat, NEW I \in SUBSET (1..len)
  PROVE  LET n == IF I # {} THEN Min(I) ELSE 0
         IN (n > 0 <=> I # {}) /\ (I # {} => n \in I /\ \A i \in I : n <= i)
<1>1. CASE I = {}
  BY <1>1
<1>2. CASE I # {}
  <2>1. Min(I) \in I /\ \A i \in I : Min(I) <= i
    BY <1>2, LeastPlace
  <2>2. \A i \in I : i > 0
    OBVIOUS
  <2> QED BY <1>2, <2>1, <2>2
<1> QED BY <1>1, <1>2

\* The texts looked for are in the values they belong to, and in no other line.
LEMMA TextsTell ==
  ASSUME NEW l
  PROVE  /\ "jenkins" \in Texts(l) => l = Val("fmwv")
         /\ "CSQ:" \in Texts(l) => l = Val("csq")
         /\ "RAT: " \in Texts(l) => l = Val("rat")
         /\ "+KSREP:" \in Texts(l) => l = Val("slt")
BY DEF Texts

\* What is looked for by a text of its own is found or nothing is.
LEMMA LabelledFinds ==
  ASSUME NEW q, NEW str, \A x : str \in Texts(x) => x = Val(q), NEW l \in Seq(Lines)
  PROVE  Labelled(str, l) = Failure \/ Labelled(str, l) = Returned(0, Val(q))
<1> DEFINE I == {i \in 1..Len(l) : str \in Texts(l[i])}
           n == IF I # {} THEN Min(I) ELSE 0
<1>1. Labelled(str, l) = Got(n > 0, l, n)
  BY DEF Labelled, SelectInSeq
<1>2. n > 0 => n \in I
  <2>1. I \in SUBSET (1..Len(l)) /\ Len(l) \in Nat
    OBVIOUS
  <2> HIDE DEF I
  <2> QED BY <2>1, FirstPlace
<1>3. n > 0 => l[n] = Val(q)
  <2>1. \A i \in I : l[i] = Val(q)
    OBVIOUS
  <2> HIDE DEF I, n
  <2> QED BY <1>2, <2>1
<1> HIDE DEF n
<1> QED BY <1>1, <1>3 DEF Got

LEMMA CcidFound == mdm_get_ccid(Full("ccid")) \in {Failure, Returned(0, Val("ccid"))}
<1> DEFINE l == <<Echo("ccid"), Val("ccid"), Blank, OK>>
           I == {i \in 1..Len(l) : Colon(l[i])}
           n == IF I # {} THEN Min(I) ELSE 0
<1>1. Full("ccid") = l /\ l \in Seq(Lines)
  BY Shapes, FullType DEF Quantities
<1>2. mdm_get_ccid(l) = Got(Len(l) > 2 /\ n > 0, l, n)
  BY DEF mdm_get_ccid, SelectInSeq
<1>3. ~Colon(Echo("ccid")) /\ ~Colon(Blank) /\ ~Colon(OK)
  BY LinesDiffer DEF Colon, Quantities
<1>4. I \subseteq {2}
  BY <1>3
<1>5. n > 0 => n = 2
  BY <1>1, <1>4, FirstPlace
<1>6. l[2] = Val("ccid")
  OBVIOUS
<1> HIDE DEF l, n
<1> QED BY <1>1, <1>2, <1>5, <1>6 DEF Got

LEMMA ImsiFound == mdm_get_imsi(Full("imsi")) \in {Failure, Returned(0, Val("imsi"))}
<1> DEFINE l == <<Echo("imsi"), Val("imsi"), Blank, OK>>
           I == {i \in 1..Len(l) : Long(l[i])}
           n == IF I # {} THEN Min(I) ELSE 0
<1>1. Full("imsi") = l /\ l \in Seq(Lines)
  BY Shapes, FullType DEF Quantities
<1>2. mdm_get_imsi(l) = IF n > 0 THEN Returned(0, l[n]) ELSE Got(Numbers(Last(l)) > 0, l, Len(l))
  BY DEF mdm_get_imsi, SelectInSeq
<1>3. ~Long(Echo("imsi")) /\ ~Long(Blank) /\ ~Long(OK) /\ Long(Val("imsi"))
  BY LinesDiffer DEF Long, Quantities
<1>4. I = {2}
  BY <1>3
<1>5. n = 2
  BY <1>1, <1>4, FirstPlace
<1>6. l[2] = Val("imsi")
  OBVIOUS
<1> HIDE DEF l, n
<1> QED BY <1>1, <1>2, <1>5, <1>6

LEMMA SnFound ==
  /\ mdm_get_sn(Full("sn")) \in {Failure, Returned(0, Val("sn"))}
  /\ SnPlace(Full("sn")) = 2
<1> DEFINE l == <<Echo("sn"), Val("sn"), Blank, OK>>
           I == {i \in 1..Len(l) : l[i] = Echo("sn") \/ Numeric(l[i])}
           n == IF I # {} THEN Min(I) ELSE 0
<1>1. Full("sn") = l /\ l \in Seq(Lines)
  BY Shapes, FullType DEF Quantities
<1>2. SnPlace(l) = IF n = 0 THEN Len(l) + 1 ELSE IF Numeric(l[n]) THEN n ELSE n + 1
  BY DEF SnPlace, SelectInSeq
<1>3. ~Numeric(Echo("sn"))
  BY LinesDiffer DEF Numeric, Quantities
<1>4. 1 \in I
  OBVIOUS
<1>5. n = 1
  <2>1. l \in Seq(Lines) /\ I \in SUBSET (1..Len(l)) /\ Len(l) = 4
    BY <1>1
  <2> HIDE DEF l, I
  <2>2. n \in I /\ n <= 1
    BY <1>4, <2>1, FirstPlace
  <2>3. n \in 1..4
    BY <2>1, <2>2
  <2> QED BY <2>2, <2>3
<1>6. l[1] = Echo("sn") /\ l[2] = Val("sn")
  OBVIOUS
<1>7. SnPlace(l) = 2
  BY <1>2, <1>3, <1>5, <1>6
<1> HIDE DEF l, n
<1> QED BY <1>1, <1>6, <1>7 DEF mdm_get_sn, Got

Labels == {"fmwv", "csq", "rat", "slt"}
Fine(q) == {Failure} \cup {Returned(0, x) : x \in Own(q)}

\* What is looked for by a text of its own, in any lines.
LEMMA FoundByLabel ==
  ASSUME NEW q \in Labels \ {"slt"}, NEW l \in Seq(Lines)
  PROVE  Found(q, l) \in Fine(q)
<1>1. Labelled("jenkins", l) \in {Failure, Returned(0, Val("fmwv"))}
  BY TextsTell, LabelledFinds
<1>2. Labelled("CSQ:", l) \in {Failure, Returned(0, Val("csq"))}
  BY TextsTell, LabelledFinds
<1>3. Labelled("RAT: ", l) \in {Failure, Returned(0, Val("rat"))}
  BY TextsTell, LabelledFinds
<1>4. CASE q = "fmwv"
  BY <1>1, <1>4 DEF Found, mdm_get_fmwv, Fine, Own
<1>5. CASE q = "csq"
  BY <1>2, <1>5 DEF Found, mdm_get_csq, Fine, Own
<1>6. CASE q = "rat"
  BY <1>3, <1>6 DEF Found, mdm_get_rat, Fine, Own
<1> QED BY <1>4, <1>5, <1>6 DEF Labels

LEMMA SltFound ==
  ASSUME NEW text \in Seq(Lines)
  PROVE  mdm_get_Slt_Sts(text) \in Fine("slt")
<1>1. Labelled("+KSREP:", text) \in {Failure, Returned(0, Val("slt"))}
  BY TextsTell, LabelledFinds
<1> QED BY <1>1 DEF mdm_get_Slt_Sts, Fine, Own

\* In the whole answer to its own command a function finds the value or nothing.
LEMMA FoundInFull ==
  ASSUME NEW q \in Quantities \ {"mdl", "slt"}
  PROVE  /\ Found(q, Full(q)) \in {Failure, Returned(0, Val(q))}
         /\ ~ReadsNull(q, Full(q))
<1> DEFINE l == Full(q)
<1>1. l \in Seq(Lines) /\ Len(l) \in 1..5
  <2>1. q \in Quantities
    OBVIOUS
  <2> QED BY <2>1, FullType
<1>2. ~ReadsNull(q, l)
  <2>1. CASE q = "sn"
    <3>1. l = <<Echo("sn"), Val("sn"), Blank, OK>>
      BY <2>1, Shapes
    <3>2. SnPlace(l) = 2 /\ Len(l) = 4
      BY <2>1, <3>1, SnFound
    <3> QED BY <3>2 DEF ReadsNull
  <2> QED BY <2>1 DEF ReadsNull
<1>3. CASE q \in {"fmwv", "csq", "rat"}
  <2>1. Found(q, l) \in Fine(q)
    BY <1>1, <1>3, FoundByLabel DEF Labels
  <2>2. Own(q) = {Val(q)}
    BY <1>3 DEF Own
  <2>3. Fine(q) = {Failure, Returned(0, Val(q))}
    BY <2>2 DEF Fine
  <2> QED BY <1>2, <2>1, <2>3
<1>4. CASE q \in {"mfn", "spn"}
  <2>1. l[2] = Val(q)
    BY <1>4, Shapes
  <2> QED BY <1>1, <1>2, <1>4, <2>1 DEF Found, mdm_get_mfn, mdm_get_spn, Got
<1>5. CASE q \in {"paTmp", "pcTmp"}
  <2>1. l[3] = Val(q)
    BY <1>5, Shapes
  <2> QED BY <1>1, <1>2, <1>5, <2>1 DEF Found, mdm_get_paTmp, mdm_get_pcTmp, Got
<1>6. CASE q = "ccid"
  BY <1>1, <1>2, <1>6, CcidFound DEF Found
<1>7. CASE q = "imsi"
  BY <1>1, <1>2, <1>7, ImsiFound DEF Found
<1>8. CASE q = "sn"
  BY <1>1, <1>2, <1>8, SnFound DEF Found
<1> QED BY <1>3, <1>4, <1>5, <1>6, <1>7, <1>8 DEF Quantities

\* What is read up to OK is the whole answer.
LEMMA WholeAnswer ==
  ASSUME NEW q \in Quantities,
         NEW rd \in Seq(Lines), NEW p \in Seq(Lines), NEW o \in Seq(Lines),
         rd \o p \o o \in Answers(q), Contains(rd, OK)
  PROVE  rd = Full(q)
<1> DEFINE a == rd \o p \o o
<1>1. PICK i \in 1..Len(rd) : rd[i] = OK
  BY DEF Contains
<1>2. a \in Seq(Lines) /\ Len(a) = Len(rd) + Len(p) + Len(o) /\ \A k \in 1..Len(rd) : a[k] = rd[k]
  OBVIOUS
<1>3. a[i] = OK /\ i \in 1..Len(a)
  BY <1>1, <1>2
<1> HIDE DEF a
<1>4. ASSUME a = <<Echo(q), ERROR>> PROVE FALSE
  <2>1. i \in {1, 2} /\ a[1] = Echo(q) /\ a[2] = ERROR
    BY <1>3, <1>4
  <2>2. Echo(q) # OK /\ ERROR # OK
    BY LinesDiffer
  <2> QED BY <1>3, <2>1, <2>2
<1>5. a = Full(q)
  BY <1>4 DEF a, Answers
<1>6. i = Len(a)
  <2>1. CASE q \in {"paTmp", "pcTmp"}
    <3>1. a = <<Echo(q), Line("head", q), Val(q), Blank, OK>>
      BY <1>5, <2>1, Shapes
    <3> QED BY <1>3, <3>1, LinesDiffer
  <2>2. CASE q \notin {"paTmp", "pcTmp"}
    <3>1. a = <<Echo(q), Val(q), Blank, OK>>
      BY <1>5, <2>2, Shapes
    <3> QED BY <1>3, <3>1, LinesDiffer
  <2> QED BY <2>1, <2>2
<1>7. Len(rd) = Len(a)
  BY <1>1, <1>2, <1>6
<1>8. rd = a
  <2>1. Len(p) = 0 /\ Len(o) = 0
    BY <1>2, <1>7
  <2>2. p = <<>> /\ o = <<>>
    BY <2>1
  <2> QED BY <2>2 DEF a
<1> QED BY <1>5, <1>8

----------------------------------------------------------------------------
(* The inductive invariant.                                                *)

\* Another command may be written.
CountInv == pc \in {"drain", "write"} => cnt < RSP_CNT
LinesInv ==
  /\ rd_str \in Seq(Lines) /\ port \in Seq(Lines) /\ owed \in Seq(Lines)
  /\ lns \in Seq(Lines) /\ olds \in Seq(Lines)
SplitInv == pc = "split" => asked # "slt"
TextInv == pc = "parse" => rd_str # <<>>
LabelInv == pc = "done" /\ asked \in Labels => result \in Fine(asked)

\* When nothing was owed, what is read, waiting and owed is the answer to the
\* call's own command, and so is what is cut and still to be cut.
OnlyItsOwn ==
  /\ pc = "write" => rd_str = <<>> /\ port = <<>> /\ owed = <<>>
  /\ pc \in {"read", "parse"} => rd_str \o port \o owed \in Answers(asked)
  /\ pc = "parse" => Ended(asked, rd_str)
  /\ pc = "split" => lns \o olds = Full(asked)
  /\ pc = "done" => result \in Fine(asked)
  /\ pc # "dead"
CleanInv == clean /\ mixed = 0 /\ asked # "mdl" /\ pc # "drain" => OnlyItsOwn

IInv == TypeOK /\ CountInv /\ LinesInv /\ SplitInv /\ TextInv /\ LabelInv /\ CleanInv

LEMMA AnswerType ==
  ASSUME NEW q \in Quantities, NEW a \in Answers(q)
  PROVE  a \in Seq(Lines)
<1>1. Full(q) \in Seq(Lines)
  BY FullType
<1>2. <<Echo(q), ERROR>> \in Seq(Lines)
  BY LineTypes
<1> QED BY <1>1, <1>2 DEF Answers

LEMMA SubSeqType ==
  ASSUME NEW s \in Seq(Lines), NEW m \in Nat \ {0}, NEW n \in 0..Len(s)
  PROVE  SubSeq(s, m, n) \in Seq(Lines)
OBVIOUS

LEMMA EmptyType == <<>> \in Seq(Lines)
OBVIOUS

\* A line that moves from what is owed to what waits stays where it is.
LEMMA Moved ==
  ASSUME NEW rd \in Seq(Lines), NEW p \in Seq(Lines), NEW o \in Seq(Lines), o # <<>>
  PROVE  rd \o Append(p, Head(o)) \o Tail(o) = rd \o p \o o
<1>1. Head(o) \in Lines /\ Tail(o) \in Seq(Lines) /\ Len(Tail(o)) = Len(o) - 1 /\ Len(o) > 0
  OBVIOUS
<1>2. \A i \in 1..Len(o) : o[i] = IF i = 1 THEN Head(o) ELSE Tail(o)[i - 1]
  OBVIOUS
<1> DEFINE a == rd \o Append(p, Head(o)) \o Tail(o)
           b == rd \o p \o o
<1>3. a \in Seq(Lines) /\ b \in Seq(Lines)
  BY <1>1
<1>4. Len(a) = Len(b)
  BY <1>1
<1>5. \A i \in 1..Len(b) : a[i] = b[i]
  BY <1>1, <1>2
<1> HIDE DEF a, b
<1>6. a = b
  BY <1>3, <1>4, <1>5
<1> QED BY <1>6 DEF a, b

LEMMA BufferType ==
  ASSUME LinesInv
  PROVE  Buffer(port) \in Seq(Lines)
<1>1. SubSeq(rd_str, Len(port) + 1, Len(rd_str)) \in Seq(Lines)
  <2>1. Len(port) + 1 \in Nat \ {0} /\ Len(rd_str) \in 0..Len(rd_str)
    BY DEF LinesInv
  <2> QED BY <2>1, SubSeqType DEF LinesInv
<1> QED BY <1>1 DEF Buffer, LinesInv

\* Every function returns -1 or 0.
LEMMA FoundRet ==
  ASSUME NEW q \in Quantities \ {"slt"}, NEW l
  PROVE  Found(q, l).ret \in {-1, 0}
<1> DEFINE R(r) == r.ret \in {-1, 0}
<1>1. \A f, m, n : R(Got(f, m, n))
  BY DEF Got, Failure, Returned
<1>2. \A m : R(Returned(0, m))
  BY DEF Returned
<1> QED BY <1>1, <1>2
      DEF Found, Quantities, Labelled, mdm_get_model, mdm_get_mfn, mdm_get_sn, mdm_get_fmwv,
          mdm_get_csq, mdm_get_rat, mdm_get_paTmp, mdm_get_pcTmp, mdm_get_imsi,
          mdm_get_ccid, mdm_get_spn

LEMMA SltRet ==
  ASSUME NEW text
  PROVE  mdm_get_Slt_Sts(text).ret \in {-1, 0}
BY DEF mdm_get_Slt_Sts, Labelled, Got, Failure, Returned

----------------------------------------------------------------------------
LEMMA InitInv == Init => IInv
<1> SUFFICES ASSUME Init PROVE IInv
  OBVIOUS
<1>1. TypeOK
  <2>1. result.ret \in {-1, 0} /\ asked \in Quantities /\ clean \in BOOLEAN
    BY DEF Init, Quantities, Failure, Returned
  <2>2. tm \in 0..Rounds /\ cnt \in 0..RSP_CNT /\ mixed \in 0..MaxMixed
    BY BoundsAssumption DEF Init, RSP_CNT
  <2> QED BY <2>1, <2>2 DEF Init, TypeOK
<1>2. LinesInv
  BY LineTypes DEF Init, LinesInv
<1> QED BY <1>1, <1>2 DEF Init, IInv, CountInv, SplitInv, TextInv, LabelInv, CleanInv, Labels

LEMMA AskStep ==
  ASSUME IInv, NEW q \in Asked, Ask(q)
  PROVE  IInv'
<1>1. TypeOK'
  BY AskedAssumption, BoundsAssumption
     DEF IInv, TypeOK, Ask, Goto, Failure, Returned, RSP_CNT
<1>2. CountInv' /\ LinesInv' /\ SplitInv' /\ TextInv' /\ LabelInv' /\ CleanInv'
  BY DEF IInv, CountInv, LinesInv, SplitInv, TextInv, LabelInv, CleanInv, Ask, Goto, RSP_CNT
<1> QED BY <1>1, <1>2 DEF IInv

LEMMA DrainStep ==
  ASSUME IInv, Drain
  PROVE  IInv'
<1>1. TypeOK'
  BY BoundsAssumption DEF IInv, TypeOK, Drain, Goto, call, cut
<1>2. CountInv' /\ SplitInv' /\ TextInv' /\ LabelInv'
  BY DEF IInv, CountInv, SplitInv, TextInv, LabelInv, Drain, Goto, call
<1>3. LinesInv'
  <2>1. rd_str' \in Seq(Lines)
    BY FullType, EmptyType, AskedAssumption DEF Drain
  <2>2. port' = <<>> /\ owed' = owed /\ lns' = lns /\ olds' = olds
    BY DEF Drain, cut
  <2> QED BY <2>1, <2>2, EmptyType DEF IInv, LinesInv
<1>4. CleanInv'
  BY DEF CleanInv, OnlyItsOwn, Drain, Goto, call
<1> QED BY <1>1, <1>2, <1>3, <1>4 DEF IInv

LEMMA WriteStep ==
  ASSUME IInv, Write
  PROVE  IInv'
<1> DEFINE ret == IF asked = "slt" THEN mdm_get_Slt_Sts(rd_str) ELSE Failure
<1>1. /\ pc = "write" /\ cnt' = cnt + 1 /\ UNCHANGED <<asked, tm, port, clean>>
      /\ UNCHANGED <<lns, olds, mixed>>
  BY DEF Write, cut
<1>2. \/ /\ \E a \in Answers(asked) : owed' = owed \o a
         /\ pc' = "read" /\ UNCHANGED <<result, rd_str>>
      \/ /\ asked = "slt" /\ cnt' < RSP_CNT
         /\ pc' = "drain" /\ UNCHANGED <<result, rd_str, owed>>
      \/ pc' = "done" /\ result' = ret /\ rd_str' = <<>> /\ UNCHANGED owed
  BY DEF Write, Goto, Return, Again
<1>3. ret \in Fine(asked) /\ ret.ret \in {-1, 0}
  BY SltFound, SltRet DEF IInv, LinesInv, Fine, Failure, Returned
<1> HIDE DEF ret
<1>4. TypeOK'
  BY <1>1, <1>2, <1>3 DEF IInv, TypeOK, CountInv, RSP_CNT
<1>5. CountInv' /\ SplitInv' /\ TextInv' /\ LabelInv'
  BY <1>1, <1>2, <1>3 DEF IInv, CountInv, SplitInv, TextInv, LabelInv
<1>6. LinesInv'
  <2>1. \A a \in Answers(asked) : a \in Seq(Lines)
    BY AnswerType DEF IInv, TypeOK
  <2>2. owed' \in Seq(Lines)
    <3>1. CASE owed' = owed
      BY <3>1 DEF IInv, LinesInv
    <3>2. CASE \E a \in Answers(asked) : owed' = owed \o a
      <4>1. PICK a \in Seq(Lines) : owed' = owed \o a
        BY <2>1, <3>2
      <4> QED BY <4>1 DEF IInv, LinesInv
    <3> QED BY <1>2, <3>1, <3>2
  <2>3. rd_str' \in Seq(Lines) /\ port' \in Seq(Lines)
    BY <1>1, <1>2, EmptyType DEF IInv, LinesInv
  <2> QED BY <1>1, <2>2, <2>3 DEF IInv, LinesInv
<1>7. CleanInv'
  <2>1. SUFFICES ASSUME clean, mixed = 0, asked # "mdl", pc' # "drain" PROVE OnlyItsOwn'
    BY <1>1 DEF CleanInv
  <2>2. rd_str = <<>> /\ port = <<>> /\ owed = <<>>
    BY <1>1, <2>1 DEF IInv, CleanInv, OnlyItsOwn
  <2>3. CASE \E a \in Answers(asked) : owed' = owed \o a /\ pc' = "read" /\ rd_str' = rd_str
    <3>1. PICK a \in Answers(asked) : owed' = owed \o a
      BY <2>3
    <3>2. a \in Seq(Lines)
      BY <3>1, AnswerType DEF IInv, TypeOK
    <3>3. rd_str' \o port' \o owed' = a
      BY <1>1, <2>2, <2>3, <3>1, <3>2
    <3> QED BY <1>1, <2>3, <3>3 DEF OnlyItsOwn
  <2>4. CASE pc' = "done" /\ result' = ret
    BY <1>1, <1>3, <2>4 DEF OnlyItsOwn
  <2> QED BY <1>2, <2>1, <2>3, <2>4
<1> QED BY <1>4, <1>5, <1>6, <1>7 DEF IInv

\* What a text is looked for in is not empty when it is found.
LEMMA NotEmpty ==
  ASSUME NEW s, NEW e, Contains(s, e)
  PROVE  s # <<>>
BY DEF Contains

LEMMA ReadStep ==
  ASSUME IInv, Read
  PROVE  IInv'
<1> USE DEF Read, Goto, call, cut
<1>1. TypeOK'
  BY BoundsAssumption DEF IInv, TypeOK
<1>2. CountInv' /\ SplitInv' /\ LabelInv'
  BY DEF IInv, CountInv, SplitInv, LabelInv
<1>5. TextInv'
  BY NotEmpty DEF TextInv, Ended
<1>3. LinesInv'
  BY BufferType DEF IInv, LinesInv
<1>4. CleanInv'
  <2>1. SUFFICES ASSUME clean, mixed = 0, asked # "mdl" PROVE OnlyItsOwn'
    BY DEF CleanInv
  <2>2. rd_str \o port \o owed \in Answers(asked)
    BY <2>1 DEF IInv, CleanInv, OnlyItsOwn
  <2>3. rd_str' \o port' \o owed' = rd_str \o port \o owed
    BY <2>1 DEF Buffer, IInv, LinesInv
  <2> QED BY <2>2, <2>3 DEF OnlyItsOwn
<1> QED BY <1>1, <1>2, <1>3, <1>4, <1>5 DEF IInv

\* A call that begins again or ends with a result that is fine.
LEMMA EndStep ==
  ASSUME IInv, NEW ret, ret \in Fine(asked) \/ asked = "mdl" \/ ~clean \/ mixed # 0,
         asked \in Labels => ret \in Fine(asked), ret.ret \in {-1, 0},
         IF Again(cnt) THEN pc' = "drain" /\ UNCHANGED <<result, rd_str>>
                       ELSE pc' = "done" /\ result' = ret /\ rd_str' = <<>>,
         UNCHANGED <<asked, cnt, mixed, tm, port, owed, clean>>,
         lns' \in Seq(Lines), olds' \in Seq(Lines)
  PROVE  IInv'
<1>1. TypeOK'
  BY DEF IInv, TypeOK
<1>2. CountInv' /\ SplitInv' /\ TextInv' /\ LabelInv'
  BY DEF IInv, CountInv, SplitInv, TextInv, LabelInv, Again
<1>3. LinesInv'
  <2>1. rd_str' \in {rd_str, <<>>} /\ port' = port /\ owed' = owed
    OBVIOUS
  <2> QED BY <2>1, EmptyType DEF IInv, LinesInv
<1>4. CleanInv'
  BY DEF CleanInv, OnlyItsOwn
<1> QED BY <1>1, <1>2, <1>3, <1>4 DEF IInv

LEMMA GiveUpStep ==
  ASSUME IInv, GiveUp
  PROVE  IInv'
<1> DEFINE ret == CASE asked = "mdl" -> Returned(0, Nothing)
                    [] asked = "slt" -> mdm_get_Slt_Sts(rd_str)
                    [] OTHER -> Failure
<1>1. ret \in Fine(asked) \/ asked = "mdl"
  BY SltFound DEF IInv, LinesInv, Fine
<1>2. ret.ret \in {-1, 0}
  BY SltRet DEF Failure, Returned
<1>3. asked \in Labels => asked # "mdl"
  BY DEF Labels
<1>4. /\ IF Again(cnt) THEN pc' = "drain" /\ UNCHANGED <<result, rd_str>>
                       ELSE pc' = "done" /\ result' = ret /\ rd_str' = <<>>
      /\ UNCHANGED <<asked, cnt, mixed, tm, port, owed, clean>>
      /\ UNCHANGED <<lns, olds>>
  BY DEF GiveUp, Goto, Return, cut
<1>5. lns' \in Seq(Lines) /\ olds' \in Seq(Lines)
  BY <1>4 DEF IInv, LinesInv
<1> HIDE DEF ret
<1> QED BY <1>1, <1>2, <1>3, <1>4, <1>5, EndStep

LEMMA ParseStep ==
  ASSUME IInv, Parse
  PROVE  IInv'
<1> DEFINE ret == CASE asked = "slt" -> mdm_get_Slt_Sts(rd_str)
                    [] asked = "rat" -> Failure
                    [] asked = "sn" -> Returned(0, Nothing)
<1>1. asked \in {"slt", "rat", "sn"}
  BY DEF Parse, Uncut
<1>2. ret.ret \in {-1, 0}
  BY <1>1, SltRet DEF Failure, Returned
<1>3. asked \in {"slt", "rat"} => ret \in Fine(asked)
  BY SltFound DEF IInv, LinesInv, Fine
<1>4. asked \in Labels => ret \in Fine(asked)
  BY <1>1, <1>3 DEF Labels
<1>5. /\ pc = "parse" /\ Uncut
      /\ IF Again(cnt) THEN pc' = "drain" /\ UNCHANGED <<result, rd_str>>
                       ELSE pc' = "done" /\ result' = ret /\ rd_str' = <<>>
      /\ UNCHANGED <<asked, cnt, mixed, tm, port, owed, clean>>
      /\ UNCHANGED <<lns, olds>>
  BY DEF Parse, Goto, Return, cut
<1>6. lns' \in Seq(Lines) /\ olds' \in Seq(Lines)
  BY <1>5 DEF IInv, LinesInv
<1>7. ret \in Fine(asked) \/ ~clean \/ mixed # 0
  <2>1. SUFFICES ASSUME clean, mixed = 0, asked = "sn" PROVE FALSE
    BY <1>1, <1>3
  <2>2. rd_str \o port \o owed \in Answers("sn") /\ Ended("sn", rd_str)
    BY <1>5, <2>1 DEF IInv, CleanInv, OnlyItsOwn
  <2>3. Contains(rd_str, OK) /\ "sn" \in Quantities
    BY <2>2 DEF Ended, Rsp, Quantities
  <2>4. rd_str = Full("sn")
    BY <2>2, <2>3, WholeAnswer DEF IInv, LinesInv
  <2>5. rd_str = <<Echo("sn"), Val("sn"), Blank, OK>>
    BY <2>3, <2>4, Shapes
  <2>6. rd_str[1] = Echo("sn") /\ 1 \in 1..Len(rd_str)
    BY <2>5
  <2>7. Contains(rd_str, Echo("sn"))
    BY <2>6 DEF Contains
  <2> QED BY <1>5, <2>1, <2>7 DEF Uncut
<1> HIDE DEF ret
<1> QED BY <1>2, <1>4, <1>5, <1>6, <1>7, EndStep

\* What is not empty is its first line and the others.
LEMMA HeadTail ==
  ASSUME NEW s \in Seq(Lines), s # <<>>
  PROVE  /\ <<Head(s)>> \in Seq(Lines) /\ Tail(s) \in Seq(Lines)
         /\ <<Head(s)>> \o Tail(s) = s
OBVIOUS

LEMMA SplitFirstStep ==
  ASSUME IInv, SplitFirst
  PROVE  IInv'
<1>1. /\ pc = "parse" /\ ~Uncut /\ pc' = "split" /\ rd_str' = <<>>
      /\ lns' = <<Head(rd_str)>> /\ olds' = Tail(rd_str)
      /\ UNCHANGED <<asked, cnt, result, mixed, tm, port, owed, clean>>
  BY DEF SplitFirst, Goto, call
<1>2. TypeOK'
  BY <1>1 DEF IInv, TypeOK
<1>3. CountInv' /\ SplitInv' /\ LabelInv'
  BY <1>1 DEF CountInv, SplitInv, LabelInv, Uncut
<1>4. rd_str # <<>>
  BY <1>1 DEF IInv, TextInv
<1>5. LinesInv'
  BY <1>1, <1>4, HeadTail, EmptyType DEF IInv, LinesInv
<1>6. CleanInv'
  <2>1. SUFFICES ASSUME clean, mixed = 0, asked # "mdl" PROVE lns' \o olds' = Full(asked)
    BY <1>1 DEF CleanInv, OnlyItsOwn
  <2>2. rd_str \o port \o owed \in Answers(asked) /\ Ended(asked, rd_str)
    BY <1>1, <2>1 DEF IInv, CleanInv, OnlyItsOwn
  <2>3. Contains(rd_str, OK)
    BY <1>1, <2>2 DEF Ended, Uncut, Rsp
  <2>4. rd_str = Full(asked)
    BY <2>2, <2>3, WholeAnswer DEF IInv, TypeOK, LinesInv
  <2> QED BY <1>1, <1>4, <2>4, HeadTail DEF IInv, LinesInv
<1>7. TextInv'
  BY <1>1 DEF TextInv
<1> QED BY <1>2, <1>3, <1>5, <1>6, <1>7 DEF IInv

LEMMA SplitNextStep ==
  ASSUME IInv, SplitNext
  PROVE  IInv'
<1>1. /\ pc = "split" /\ pc' = pc /\ olds # <<>>
      /\ lns' = Append(lns, Head(olds)) /\ olds' = Tail(olds)
      /\ UNCHANGED <<asked, cnt, result, rd_str, mixed, tm, port, owed, clean>>
  BY DEF SplitNext, call
<1>2. TypeOK'
  BY <1>1 DEF IInv, TypeOK
<1>3. CountInv' /\ SplitInv' /\ LabelInv' /\ TextInv'
  BY <1>1 DEF IInv, CountInv, SplitInv, LabelInv, TextInv
<1>4. lns \in Seq(Lines) /\ olds \in Seq(Lines)
  BY DEF IInv, LinesInv
<1>5. Head(olds) \in Lines /\ Tail(olds) \in Seq(Lines)
  BY <1>1, <1>4
<1>6. LinesInv'
  BY <1>1, <1>4, <1>5 DEF IInv, LinesInv
<1>7. lns' \o olds' = lns \o olds
  <2>1. <<>> \o Append(lns, Head(olds)) \o Tail(olds) = <<>> \o lns \o olds
    BY <1>1, <1>4, EmptyType, Moved
  <2>2. <<>> \o lns = lns /\ <<>> \o Append(lns, Head(olds)) = Append(lns, Head(olds))
    BY <1>4, <1>5
  <2> QED BY <1>1, <2>1, <2>2
<1>8. CleanInv'
  BY <1>1, <1>7 DEF IInv, CleanInv, OnlyItsOwn
<1> QED BY <1>2, <1>3, <1>6, <1>8 DEF IInv

LEMMA FindStep ==
  ASSUME IInv, Find
  PROVE  IInv'
<1>1. /\ pc = "split" /\ (Len(lns) = ln_max \/ olds = <<>>)
      /\ lns' = <<>> /\ olds' = <<>>
      /\ UNCHANGED <<asked, cnt, mixed, tm, port, owed, clean>>
  BY DEF Find
<1>2. lns \in Seq(Lines) /\ olds \in Seq(Lines) /\ asked \in Quantities \ {"slt"}
  BY <1>1 DEF IInv, LinesInv, TypeOK, SplitInv
<1>3. ASSUME clean, mixed = 0, asked # "mdl"
      PROVE  Found(asked, lns) \in Fine(asked) /\ ~ReadsNull(asked, lns)
  <2>1. lns \o olds = Full(asked)
    BY <1>1, <1>3 DEF IInv, CleanInv, OnlyItsOwn
  <2>2. Len(lns \o olds) = Len(lns) + Len(olds) /\ Len(Full(asked)) <= 5
    BY <1>2, FullType
  <2>3. olds = <<>>
    <3>1. CASE Len(lns) = ln_max
      <4>1. Len(olds) = 0
        BY <1>2, <2>1, <2>2, <3>1 DEF ln_max
      <4> QED BY <1>2, <4>1
    <3> QED BY <1>1, <3>1
  <2>4. lns = Full(asked)
    BY <1>2, <2>1, <2>3
  <2>5. asked \in Quantities \ {"mdl", "slt"}
    BY <1>2, <1>3
  <2> QED BY <2>4, <2>5, FoundInFull DEF Fine, Own
<1>4. CASE ReadsNull(asked, lns)
  <2>1. pc' = "dead" /\ UNCHANGED <<result, rd_str>>
    BY <1>4 DEF Find, Goto
  <2>2. TypeOK' /\ CountInv' /\ SplitInv' /\ LabelInv' /\ TextInv'
    BY <1>1, <2>1 DEF IInv, TypeOK, CountInv, SplitInv, LabelInv, TextInv
  <2>3. LinesInv'
    BY <1>1, <2>1, EmptyType DEF IInv, LinesInv
  <2>4. CleanInv'
    BY <1>1, <1>3, <1>4 DEF CleanInv
  <2> QED BY <2>2, <2>3, <2>4 DEF IInv
<1>5. CASE ~ReadsNull(asked, lns)
  <2>1. pc' = "done" /\ result' = Found(asked, lns) /\ rd_str' = <<>>
    BY <1>5 DEF Find, Goto, Return
  <2>2. ~Again(cnt)
    BY <1>2 DEF Again
  <2>3. asked \in Labels => Found(asked, lns) \in Fine(asked)
    BY <1>2, FoundByLabel
  <2>4. Found(asked, lns).ret \in {-1, 0}
    BY <1>2, FoundRet
  <2>5. Found(asked, lns) \in Fine(asked) \/ asked = "mdl" \/ ~clean \/ mixed # 0
    BY <1>3
  <2>6. lns' \in Seq(Lines) /\ olds' \in Seq(Lines)
    BY <1>1, EmptyType
  <2> QED BY <1>1, <2>1, <2>2, <2>3, <2>4, <2>5, <2>6, EndStep
<1> QED BY <1>4, <1>5

LEMMA CmdSplitStep ==
  ASSUME IInv, CmdSplit
  PROVE  IInv'
<1>1. /\ pc = "split" /\ pc' = pc /\ mixed < MaxMixed /\ mixed' = mixed + 1
      /\ olds' \in Stirred
      /\ UNCHANGED <<asked, cnt, result, rd_str, lns, tm, port, owed, clean>>
  BY DEF CmdSplit, call
<1>2. TypeOK' /\ mixed' # 0
  BY <1>1, BoundsAssumption DEF IInv, TypeOK
<1>3. CountInv' /\ SplitInv' /\ LabelInv' /\ TextInv'
  BY <1>1 DEF IInv, CountInv, SplitInv, LabelInv, TextInv
<1>4. olds' \in Seq(Lines)
  <2>1. olds \in Seq(Lines)
    BY DEF IInv, LinesInv
  <2>2. \A n \in 1..(Len(olds) + 1) : From(n) \in Seq(Lines)
    BY <2>1, SubSeqType DEF From
  <2>3. \A n \in DOMAIN olds : <<Rest(olds[n])>> \o From(n + 1) \in Seq(Lines)
    <3>1. TAKE n \in DOMAIN olds
    <3>2. Rest(olds[n]) \in Lines
      BY <2>1, LineTypes
    <3>3. From(n + 1) \in Seq(Lines)
      BY <2>1, <2>2
    <3> QED BY <3>2, <3>3
  <2>4. <<Piece>> \in Seq(Lines)
    BY LineTypes
  <2>5. \A n \in DOMAIN olds : From(n) \in Seq(Lines)
    BY <2>1, <2>2
  <2>6. CASE olds' \in {<<>>, <<Piece>>}
    BY <2>4, <2>6, EmptyType
  <2>7. CASE \E n \in DOMAIN olds : olds' \in {From(n), <<Rest(olds[n])>> \o From(n + 1)}
    <3>1. PICK n \in DOMAIN olds : olds' \in {From(n), <<Rest(olds[n])>> \o From(n + 1)}
      BY <2>7
    <3>2. CASE olds' = From(n)
      BY <2>5, <3>2
    <3>3. CASE olds' = <<Rest(olds[n])>> \o From(n + 1)
      BY <2>3, <3>3
    <3> QED BY <3>1, <3>2, <3>3
  <2> QED BY <1>1, <2>6, <2>7 DEF Stirred
<1>5. LinesInv'
  BY <1>1, <1>4 DEF IInv, LinesInv
<1>6. CleanInv'
  BY <1>2 DEF CleanInv
<1> QED BY <1>2, <1>3, <1>5, <1>6 DEF IInv

LEMMA DeliverStep ==
  ASSUME IInv, Deliver
  PROVE  IInv'
<1> USE DEF Deliver, call, cut
<1>1. owed \in Seq(Lines) /\ owed # <<>> /\ port \in Seq(Lines) /\ rd_str \in Seq(Lines)
  BY DEF IInv, LinesInv
<1>2. TypeOK' /\ CountInv' /\ SplitInv' /\ LabelInv' /\ TextInv'
  BY DEF IInv, TypeOK, CountInv, SplitInv, LabelInv, TextInv
<1>3. LinesInv'
  BY <1>1 DEF IInv, LinesInv
<1>4. rd_str' \o port' \o owed' = rd_str \o port \o owed
  BY <1>1, Moved
<1>5. CleanInv'
  BY <1>1, <1>4 DEF IInv, CleanInv, OnlyItsOwn
<1> QED BY <1>2, <1>3, <1>5 DEF IInv

LEMMA StepInv == IInv /\ [Next]_vars => IInv'
<1> SUFFICES ASSUME IInv, [Next]_vars PROVE IInv'
  OBVIOUS
<1>1. CASE UNCHANGED vars
  BY <1>1 DEF IInv, TypeOK, CountInv, LinesInv, SplitInv, TextInv, LabelInv, CleanInv, OnlyItsOwn,
              vars, call, cut
<1>2. CASE Call
  BY <1>2, DrainStep, WriteStep, ReadStep, GiveUpStep, ParseStep, SplitFirstStep, SplitNextStep,
     FindStep DEF Call
<1>3. CASE Deliver
  BY <1>3, DeliverStep
<1>4. CASE \E q \in Asked : Ask(q)
  BY <1>4, AskStep
<1>5. CASE CmdSplit
  BY <1>5, CmdSplitStep
<1> QED BY <1>1, <1>2, <1>3, <1>4, <1>5 DEF Next

LEMMA Invariance == Spec => []IInv
<1>1. Init => IInv
  BY InitInv
<1>2. IInv /\ [Next]_vars => IInv'
  BY StepInv
<1> QED BY <1>1, <1>2, PTL DEF Spec

----------------------------------------------------------------------------
(* Theorems.                                                               *)

\* Every variable keeps its type, and mdm_get_Slt_Sts writes its command three times
\* at most.
THEOREM TypeCorrect == Spec => []TypeOK
<1>1. IInv => TypeOK
  BY DEF IInv
<1> QED BY <1>1, Invariance, PTL

\* A call of an mdm_get_ function whose command is written when the modem owes nothing,
\* and whose answer th_port1 lets alone, returns its own value or fails, for every
\* number of late answers and of rounds.
THEOREM CaughtUp == Spec => []RightWhenCaughtUp
<1>1. ASSUME IInv PROVE RightWhenCaughtUp
  <2>1. clean /\ mixed = 0 /\ asked # "mdl" => pc # "dead"
    BY <1>1 DEF IInv, CleanInv, OnlyItsOwn
  <2>2. clean /\ mixed = 0 /\ asked # "mdl" /\ pc = "done" => result \in Fine(asked)
    BY <1>1 DEF IInv, CleanInv, OnlyItsOwn
  <2>3. result \in Fine(asked) /\ result.ret = 0 => result.line \in Own(asked)
    BY DEF Fine, Failure, Returned
  <2> QED BY <2>1, <2>2, <2>3 DEF RightWhenCaughtUp, Ended_with
<1> QED BY <1>1, Invariance, PTL

\* What is looked for by a text of its own (mdm_get_csq and its like) is never taken
\* from the answer to another command, from an echo or from a command of th_port1,
\* whatever is late and whatever th_port1 takes of the answer.
THEOREM ByLabel == Spec => []RightByLabel
<1>1. ASSUME IInv PROVE RightByLabel
  <2>1. pc = "done" /\ asked \in Labels => result \in Fine(asked)
    BY <1>1 DEF IInv, LabelInv
  <2>2. result \in Fine(asked) /\ result.ret = 0 => result.line \in Own(asked)
    BY DEF Fine, Failure, Returned
  <2> QED BY <2>1, <2>2 DEF RightByLabel, Ended_with, Labels
<1> QED BY <1>1, Invariance, PTL
=============================================================================
