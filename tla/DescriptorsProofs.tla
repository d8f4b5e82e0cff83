------------------------- MODULE DescriptorsProofs -------------------------
(***************************************************************************)
(* Proofs about Descriptors, for every number of descriptors and faults:   *)
(* the type invariant, that no descriptor is lost, that each thread talks  *)
(* over its own connection, and who is ever the first to mistake a number. *)
(*                                                                         *)
(* What is true of a function is read off its body, once for each of the   *)
(* fourteen: every branch closes what has been opened (Leakless), and      *)
(* closes only that (Sound).  The invariant carries both along the frames. *)
(***************************************************************************)
EXTENDS Descriptors, SequenceTheorems, TLAPS

\* The functions that may be the first to close a number of someone else's.
Strays == {"get_fmw_ver", "get_eth_info"}

\* Callers have a lower rank than what they call and variables of other names, so
\* that a thread and a variable name one frame.
Functions == DOMAIN Body
Rank(f) ==
  IF f \in {"pkt_btup", "pkt_prd"} THEN 1
  ELSE IF f \in {"mdm_selSim_ndt", "mdm_selSim", "mdm_get_netSts_withIP", "get_fmw_ver",
                 "mdm_get_rstIntrvl", "get_sys_uptm", "get_ping_sts"} THEN 2
  ELSE 3
VarsOf(r) ==
  IF r = 1 THEN {"ttyFD"}
  ELSE IF r = 2 THEN {"gpio", "sim", "fp", "fs", "fp_snd", "fd_pop", "fd_pop2"}
  ELSE {"fd", "fd0", "fd1", "fd2"}
PortVars == {"fd_srvr", "fd_clnt"}
Below(r) == {f \in Functions : Rank(f) > r}

ElseOps(r) == [op : {"close", "pclose"}, var : VarsOf(r)] \cup [op : {"call"}, fun : Below(r)]
BodyOps(r) ==
  ElseOps(r) \cup [op : {"open", "popen"}, var : VarsOf(r)] \cup [op : {"again"}, fun : Below(r)]
  \cup [op : {"ifBad"}, var : VarsOf(r), else : Seq(ElseOps(r))]
  \cup [op : {"either"}, else : Seq(ElseOps(r))]

Opens(o) == o.op \in {"open", "popen"}
Closes(o) == o.op \in {"close", "pclose"}
Branches(o) == o.op \in {"ifBad", "either"}
ClosesIt(o, s) == Closes(o) /\ o.var = s
OpensIt(o, s) == Opens(o) /\ o.var = s

\* Whatever branches are taken, s is closed at i or later, and not opened before.
Covered(todo, i, s) ==
  \E c \in i..Len(todo) :
    /\ ClosesIt(todo[c], s)
    /\ \A j \in i..c - 1 :
         /\ ~OpensIt(todo[j], s)
         /\ Branches(todo[j]) =>
              \/ todo[j].op = "ifBad" /\ todo[j].var = s
              \/ \E k \in 1..Len(todo[j].else) : ClosesIt(todo[j].else[k], s)

Leakless(todo) ==
  \A i \in 1..Len(todo) : Opens(todo[i]) => Covered(todo, i + 1, todo[i].var)

\* When i is reached, s has been opened and not closed since; R are the variables
\* of which that is true at the beginning.
Ready(todo, i, s, R) ==
  \/ s \in R /\ \A j \in 1..i - 1 : ~ClosesIt(todo[j], s)
  \/ \E j \in 1..i - 1 :
       OpensIt(todo[j], s) /\ \A k \in j + 1..i - 1 : ~ClosesIt(todo[k], s)

Sound(todo, R) ==
  \A i \in 1..Len(todo) :
    /\ Closes(todo[i]) => Ready(todo, i, todo[i].var, R)
    /\ Branches(todo[i]) => \A k \in 1..Len(todo[i].else) :
         Closes(todo[i].else[k]) =>
           /\ Ready(todo, i, todo[i].else[k].var, R)
           /\ \A j \in 1..k - 1 : ~ClosesIt(todo[i].else[j], todo[i].else[k].var)

----------------------------------------------------------------------------
(* Operations.                                                             *)

\* What an operation of a function's body consists of.
LEMMA OpFacts ==
  ASSUME NEW r, NEW o \in BodyOps(r)
  PROVE  /\ o.op \in {"open", "popen", "close", "pclose", "call", "again", "ifBad", "either"}
         /\ Opens(o) \/ Closes(o) \/ o.op = "ifBad" => o.var \in VarsOf(r)
         /\ o.op \in {"call", "again"} => o.fun \in Below(r)
         /\ Branches(o) => o.else \in Seq(ElseOps(r))
  BY DEF BodyOps, ElseOps, Opens, Closes, Branches

\* The branches contain neither branches nor anything that is opened.
LEMMA ElseFacts ==
  ASSUME NEW r, NEW o \in ElseOps(r)
  PROVE  o \in BodyOps(r) /\ ~Opens(o) /\ ~Branches(o)
  BY DEF BodyOps, ElseOps, Opens, Branches

LEMMA ElseSeq ==
  ASSUME NEW r, NEW h \in Seq(ElseOps(r))
  PROVE  h \in Seq(BodyOps(r)) /\ \A k \in 1..Len(h) : h[k] \in ElseOps(r)
<1>1. ElseOps(r) \subseteq BodyOps(r)
  BY DEF BodyOps
<1>. QED BY <1>1

\* The variables of two ranks have different names.
LEMMA OtherNames ==
  /\ \A r, q \in 1..3 : r # q => VarsOf(r) \cap VarsOf(q) = {}
  /\ \A r \in 1..3 : VarsOf(r) \cap PortVars = {}
  /\ \A r \in 1..3 : VarsOf(r) \subseteq Variables
  /\ \A f : Rank(f) \in 1..3
<1>1. \A r \in 1..3 : r = 1 \/ r = 2 \/ r = 3
  OBVIOUS
<1>2. VarsOf(1) \cap VarsOf(2) = {} /\ VarsOf(1) \cap VarsOf(3) = {} /\ VarsOf(2) \cap VarsOf(3) = {}
  BY DEF VarsOf
<1>3. \A r, q \in 1..3 : r # q => VarsOf(r) \cap VarsOf(q) = {}
  BY <1>1, <1>2
<1>a. VarsOf(1) \cap PortVars = {} /\ VarsOf(2) \cap PortVars = {} /\ VarsOf(3) \cap PortVars = {}
  BY DEF VarsOf, PortVars
<1>b. VarsOf(1) \subseteq Variables /\ VarsOf(2) \subseteq Variables /\ VarsOf(3) \subseteq Variables
  BY DEF VarsOf, Variables
<1>4. \A r \in 1..3 : VarsOf(r) \cap PortVars = {} /\ VarsOf(r) \subseteq Variables
  BY <1>1, <1>a, <1>b
<1>5. \A f : Rank(f) \in 1..3
  BY DEF Rank
<1>. QED BY <1>3, <1>4, <1>5

LEMMA TailFacts ==
  ASSUME NEW S, NEW q \in Seq(S), q # <<>>
  PROVE  /\ Head(q) = q[1] /\ q[1] \in S
         /\ Len(q) \in Nat \ {0}
         /\ Tail(q) \in Seq(S) /\ Len(Tail(q)) = Len(q) - 1
         /\ \A i \in 1..Len(q) - 1 : Tail(q)[i] = q[i + 1]
  OBVIOUS

----------------------------------------------------------------------------
(* How what is true of a function's operations passes to what is left.     *)

LEMMA CoveredShift ==
  ASSUME NEW S, NEW q \in Seq(S), q # <<>>, NEW i \in Nat \ {0}, NEW s, Covered(q, i + 1, s)
  PROVE  Covered(Tail(q), i, s)
<1>1. PICK c \in i + 1..Len(q) :
         /\ ClosesIt(q[c], s)
         /\ \A j \in i + 1..c - 1 :
              /\ ~OpensIt(q[j], s)
              /\ Branches(q[j]) =>
                   \/ q[j].op = "ifBad" /\ q[j].var = s
                   \/ \E k \in 1..Len(q[j].else) : ClosesIt(q[j].else[k], s)
  BY DEF Covered
<1>2. c - 1 \in i..Len(Tail(q)) /\ Tail(q)[c - 1] = q[c]
  BY <1>1, TailFacts
<1>3. ASSUME NEW j \in i..c - 1 - 1
      PROVE  /\ ~OpensIt(Tail(q)[j], s)
             /\ Branches(Tail(q)[j]) =>
                   \/ Tail(q)[j].op = "ifBad" /\ Tail(q)[j].var = s
                   \/ \E k \in 1..Len(Tail(q)[j].else) : ClosesIt(Tail(q)[j].else[k], s)
  <2>1. j + 1 \in i + 1..c - 1 /\ Tail(q)[j] = q[j + 1]
    BY <1>2, TailFacts
  <2>. QED BY <1>1, <2>1
<1>. QED BY <1>1, <1>2, <1>3 DEF Covered

LEMMA CoveredBefore ==
  ASSUME NEW q, NEW i \in Nat, NEW s, Covered(q, i + 1, s),
         ~OpensIt(q[i], s),
         Branches(q[i]) => \E k \in 1..Len(q[i].else) : ClosesIt(q[i].else[k], s)
  PROVE  Covered(q, i, s)
<1>1. PICK c \in i + 1..Len(q) :
         /\ ClosesIt(q[c], s)
         /\ \A j \in i + 1..c - 1 :
              /\ ~OpensIt(q[j], s)
              /\ Branches(q[j]) =>
                   \/ q[j].op = "ifBad" /\ q[j].var = s
                   \/ \E k \in 1..Len(q[j].else) : ClosesIt(q[j].else[k], s)
  BY DEF Covered
<1>2. c \in i..Len(q) /\ \A j \in i..c - 1 : j = i \/ j \in i + 1..c - 1
  BY <1>1
<1>. QED BY <1>1, <1>2 DEF Covered

LEMMA CoveredTail ==
  ASSUME NEW S, NEW q \in Seq(S), q # <<>>, NEW s, Covered(q, 1, s), ~ClosesIt(q[1], s)
  PROVE  Covered(Tail(q), 1, s) /\ ~OpensIt(q[1], s)
<1>1. Covered(q, 1 + 1, s) /\ ~OpensIt(q[1], s)
  BY DEF Covered
<1>. QED BY <1>1, CoveredShift

LEMMA LeaklessTail ==
  ASSUME NEW S, NEW q \in Seq(S), q # <<>>, Leakless(q)
  PROVE  Leakless(Tail(q)) /\ (Opens(q[1]) => Covered(Tail(q), 1, q[1].var))
<1>1. ASSUME NEW i \in 1..Len(Tail(q)), Opens(Tail(q)[i])
      PROVE  Covered(Tail(q), i + 1, Tail(q)[i].var)
  <2>1. i + 1 \in 1..Len(q) /\ Tail(q)[i] = q[i + 1] /\ i + 1 \in Nat \ {0}
    BY TailFacts
  <2>2. Covered(q, i + 1 + 1, q[i + 1].var)
    BY <1>1, <2>1 DEF Leakless
  <2>. QED BY <2>1, <2>2, CoveredShift
<1>2. ASSUME Opens(q[1]) PROVE Covered(Tail(q), 1, q[1].var)
  <2>1. Covered(q, 1 + 1, q[1].var)
    BY <1>2, TailFacts DEF Leakless
  <2>. QED BY <2>1, CoveredShift
<1>. QED BY <1>1, <1>2 DEF Leakless

\* A branch closes what would have been closed.
LEMMA CoveredElse ==
  ASSUME NEW r, NEW q \in Seq(BodyOps(r)), q # <<>>, NEW s, Covered(q, 1, s), Branches(q[1]),
         ~(q[1].op = "ifBad" /\ q[1].var = s)
  PROVE  Covered(q[1].else, 1, s)
<1>1. PICK k \in 1..Len(q[1].else) : ClosesIt(q[1].else[k], s)
  BY DEF Covered, ClosesIt, Closes, Branches
<1>2. q[1].else \in Seq(ElseOps(r))
  BY TailFacts, OpFacts
<1>3. \A j \in 1..Len(q[1].else) : ~Opens(q[1].else[j]) /\ ~Branches(q[1].else[j])
  BY <1>2, ElseSeq, ElseFacts
<1>. QED BY <1>1, <1>2, <1>3 DEF Covered, OpensIt

LEMMA LeaklessElse ==
  ASSUME NEW r, NEW h \in Seq(ElseOps(r))
  PROVE  Leakless(h)
  BY ElseSeq, ElseFacts DEF Leakless

LEMMA SoundTail ==
  ASSUME NEW S, NEW q \in Seq(S), q # <<>>, NEW R, NEW Q, Sound(q, R),
         \A s \in R : ~ClosesIt(q[1], s) => s \in Q,
         Opens(q[1]) => q[1].var \in Q
  PROVE  Sound(Tail(q), Q)
<1>1. ASSUME NEW i \in 1..Len(Tail(q)), NEW s, Ready(q, i + 1, s, R) PROVE Ready(Tail(q), i, s, Q)
  <2>1. \A j \in 1..i : j \in 1..Len(Tail(q)) /\ Tail(q)[j] = q[j + 1] /\ j + 1 \in 1..i + 1
    BY TailFacts
  <2>2. CASE s \in R /\ \A j \in 1..i + 1 - 1 : ~ClosesIt(q[j], s)
    <3>1. s \in Q
      BY <2>2
    <3>2. \A j \in 1..i - 1 : ~ClosesIt(Tail(q)[j], s)
      BY <2>1, <2>2
    <3>. QED BY <3>1, <3>2 DEF Ready
  <2>3. CASE \E j \in 1..i + 1 - 1 :
               OpensIt(q[j], s) /\ \A k \in j + 1..i + 1 - 1 : ~ClosesIt(q[k], s)
    <3>1. PICK j \in 1..i : OpensIt(q[j], s) /\ \A k \in j + 1..i : ~ClosesIt(q[k], s)
      BY <2>3
    <3>2. \A k \in j..i - 1 : ~ClosesIt(Tail(q)[k], s)
      BY <2>1, <3>1
    <3>3. CASE j = 1
      <4>1. s \in Q
        BY <3>1, <3>3 DEF OpensIt
      <4>. QED BY <3>2, <3>3, <4>1 DEF Ready
    <3>4. CASE j # 1
      <4>1. j - 1 \in 1..i - 1 /\ OpensIt(Tail(q)[j - 1], s)
        BY <2>1, <3>1, <3>4
      <4>2. \A k \in (j - 1) + 1..i - 1 : ~ClosesIt(Tail(q)[k], s)
        BY <3>2
      <4>. QED BY <4>1, <4>2 DEF Ready
    <3>. QED BY <3>3, <3>4
  <2>. QED BY <1>1, <2>2, <2>3 DEF Ready
<1>2. ASSUME NEW i \in 1..Len(Tail(q)) PROVE i + 1 \in 1..Len(q) /\ Tail(q)[i] = q[i + 1]
  BY TailFacts
<1>3. ASSUME NEW i \in 1..Len(Tail(q)), Closes(Tail(q)[i]) PROVE Ready(Tail(q), i, Tail(q)[i].var, Q)
  <2>1. Ready(q, i + 1, q[i + 1].var, R)
    BY <1>2, <1>3 DEF Sound
  <2>. QED BY <1>1, <1>2, <2>1
<1>4. ASSUME NEW i \in 1..Len(Tail(q)), Branches(Tail(q)[i]), NEW k \in 1..Len(Tail(q)[i].else),
             Closes(Tail(q)[i].else[k])
      PROVE  /\ Ready(Tail(q), i, Tail(q)[i].else[k].var, Q)
             /\ \A j \in 1..k - 1 : ~ClosesIt(Tail(q)[i].else[j], Tail(q)[i].else[k].var)
  <2>1. /\ Ready(q, i + 1, q[i + 1].else[k].var, R)
        /\ \A j \in 1..k - 1 : ~ClosesIt(q[i + 1].else[j], q[i + 1].else[k].var)
    BY <1>2, <1>4 DEF Sound
  <2>. QED BY <1>1, <1>2, <2>1
<1>. QED BY <1>3, <1>4 DEF Sound

LEMMA SoundElse ==
  ASSUME NEW r, NEW q \in Seq(BodyOps(r)), q # <<>>, NEW R, Sound(q, R), Branches(q[1])
  PROVE  Sound(q[1].else, R)
<1>1. 1 \in 1..Len(q) /\ q[1].else \in Seq(ElseOps(r))
  BY TailFacts, OpFacts
<1>2. \A k \in 1..Len(q[1].else) : ~Branches(q[1].else[k])
  BY <1>1, ElseSeq, ElseFacts
<1>3. ASSUME NEW k \in 1..Len(q[1].else), Closes(q[1].else[k])
      PROVE  Ready(q[1].else, k, q[1].else[k].var, R)
  <2>1. /\ Ready(q, 1, q[1].else[k].var, R)
        /\ \A j \in 1..k - 1 : ~ClosesIt(q[1].else[j], q[1].else[k].var)
    BY <1>1, <1>3 DEF Sound
  <2>2. q[1].else[k].var \in R
    BY <2>1 DEF Ready
  <2>. QED BY <2>1, <2>2 DEF Ready
<1>. QED BY <1>2, <1>3 DEF Sound

\* What is closed next has been opened.
LEMMA SoundClose ==
  ASSUME NEW S, NEW q \in Seq(S), q # <<>>, NEW R, Sound(q, R), Closes(q[1])
  PROVE  q[1].var \in R
<1>1. Ready(q, 1, q[1].var, R)
  BY TailFacts DEF Sound
<1>. QED BY <1>1 DEF Ready

LEMMA SoundMore ==
  ASSUME NEW q, NEW R, NEW Q, Sound(q, R), R \subseteq Q
  PROVE  Sound(q, Q)
  BY DEF Sound, Ready

----------------------------------------------------------------------------
(* What is true of each function's body.                                   *)

LEMMA FunctionsAre ==
  Functions = {"read_active_simVal", "read_active_sim", "wr_klog", "mdm_selSim_ndt", "mdm_selSim",
    "mdm_get_netSts_withIP", "get_fmw_ver", "mdm_get_rstIntrvl", "get_eth_info", "read_meminfo",
    "get_sys_uptm", "get_ping_sts", "pkt_btup", "pkt_prd"}
  BY DEF Functions, Body

LEMMA BodyReadActiveSimVal ==
  /\ ReadActiveSimVal \in Seq(BodyOps(3)) /\ Leakless(ReadActiveSimVal) /\
        Sound(ReadActiveSimVal, {})
<1>. DEFINE b == ReadActiveSimVal
<1>1. /\ Len(b) = 4 /\ b[1] = Open("fd2") /\ b[2] = IfBad("fd2", <<>>)
      /\ b[3] = Either(<<Close("fd2")>>) /\ b[4] = Close("fd2")
  BY DEF ReadActiveSimVal
<1>3. b \in Seq(BodyOps(3))
  BY DEF ReadActiveSimVal, BodyOps, ElseOps, VarsOf, Open, Close, IfBad, Either
<1>4. /\ Len(<<>>) = 0 /\ Len(<<Close("fd2")>>) = 1 /\ <<Close("fd2")>>[1] = Close("fd2")
  OBVIOUS
<1>. HIDE DEF b
<1>c1. Covered(b, 2, "fd2")
  BY <1>1, <1>4
     DEF Covered, OpensIt, ClosesIt, Opens, Closes, Branches, Open, Close, IfBad, Either
<1>5. Leakless(b)
  BY <1>1, <1>c1 DEF Leakless, Opens, Open, Close, IfBad, Either
<1>6. /\ Ready(b, 3, "fd2", {}) /\ Ready(b, 4, "fd2", {})
  BY <1>1 DEF Ready, OpensIt, ClosesIt, Opens, Closes, Open, Close, IfBad, Either
<1>7. Sound(b, {})
  BY <1>1, <1>4, <1>6 DEF Sound, Closes, ClosesIt, Branches, Open, Close, IfBad, Either
<1>. QED BY <1>3, <1>5, <1>7 DEF b

LEMMA BodyReadActiveSim ==
  /\ ReadActiveSim \in Seq(BodyOps(3)) /\ Leakless(ReadActiveSim) /\ Sound(ReadActiveSim, {})
<1>. DEFINE b == ReadActiveSim
<1>1. /\ Len(b) = 4 /\ b[1] = Open("fd") /\ b[2] = Open("fd2") /\ b[3] = Close("fd")
      /\ b[4] = Close("fd2")
  BY DEF ReadActiveSim
<1>3. b \in Seq(BodyOps(3))
  BY DEF ReadActiveSim, BodyOps, ElseOps, VarsOf, Open, Close
<1>. HIDE DEF b
<1>c1. Covered(b, 2, "fd")
  BY <1>1 DEF Covered, OpensIt, ClosesIt, Opens, Closes, Branches, Open, Close
<1>c2. Covered(b, 3, "fd2")
  BY <1>1 DEF Covered, OpensIt, ClosesIt, Opens, Closes, Branches, Open, Close
<1>5. Leakless(b)
  BY <1>1, <1>c1, <1>c2 DEF Leakless, Opens, Open, Close
<1>6. /\ Ready(b, 3, "fd", {}) /\ Ready(b, 4, "fd2", {})
  BY <1>1 DEF Ready, OpensIt, ClosesIt, Opens, Closes, Open, Close
<1>7. Sound(b, {})
  BY <1>1, <1>6 DEF Sound, Closes, ClosesIt, Branches, Open, Close
<1>. QED BY <1>3, <1>5, <1>7 DEF b

LEMMA BodyWrKlog ==
  /\ WrKlog \in Seq(BodyOps(3)) /\ Leakless(WrKlog) /\ Sound(WrKlog, {})
<1>. DEFINE b == WrKlog
<1>1. /\ Len(b) = 3 /\ b[1] = Open("fd") /\ b[2] = IfBad("fd", <<Close("fd")>>)
      /\ b[3] = Close("fd")
  BY DEF WrKlog
<1>3. b \in Seq(BodyOps(3))
  BY DEF WrKlog, BodyOps, ElseOps, VarsOf, Open, Close, IfBad
<1>4. /\ Len(<<Close("fd")>>) = 1 /\ <<Close("fd")>>[1] = Close("fd")
  OBVIOUS
<1>. HIDE DEF b
<1>c1. Covered(b, 2, "fd")
  BY <1>1, <1>4 DEF Covered, OpensIt, ClosesIt, Opens, Closes, Branches, Open, Close, IfBad
<1>5. Leakless(b)
  BY <1>1, <1>c1 DEF Leakless, Opens, Open, Close, IfBad
<1>6. /\ Ready(b, 2, "fd", {}) /\ Ready(b, 3, "fd", {})
  BY <1>1 DEF Ready, OpensIt, ClosesIt, Opens, Closes, Open, Close, IfBad
<1>7. Sound(b, {})
  BY <1>1, <1>4, <1>6 DEF Sound, Closes, ClosesIt, Branches, Open, Close, IfBad
<1>. QED BY <1>3, <1>5, <1>7 DEF b

LEMMA BodyGetEthInfo ==
  /\ GetEthInfo \in Seq(BodyOps(3)) /\ Leakless(GetEthInfo)
<1>. DEFINE b == GetEthInfo
<1>1. /\ Len(b) = 13 /\ b[1] = Open("fd0") /\ b[2] = IfBad("fd0", CloseThree)
      /\ b[3] = Open("fd1") /\ b[4] = IfBad("fd1", CloseThree) /\ b[5] = Open("fd2")
      /\ b[6] = IfBad("fd2", CloseThree) /\ b[7] = Either(CloseThree) /\ b[8] = Close("fd0")
      /\ b[9] = Close("fd1") /\ b[10] = Close("fd2") /\ b[11] = Open("fd0")
      /\ b[12] = IfBad("fd0", <<Close("fd0")>>) /\ b[13] = Close("fd0")
  BY DEF GetEthInfo, CloseThree
<1>3. b \in Seq(BodyOps(3))
  BY DEF GetEthInfo, CloseThree, BodyOps, ElseOps, VarsOf, Open, Close, IfBad, Either
<1>4. /\ Len(CloseThree) = 3 /\ CloseThree[1] = Close("fd0") /\ CloseThree[2] = Close("fd1")
      /\ CloseThree[3] = Close("fd2") /\ Len(<<Close("fd0")>>) = 1
      /\ <<Close("fd0")>>[1] = Close("fd0")
  BY DEF CloseThree
<1>. HIDE DEF b
<1>6. \A s \in {"fd0", "fd1", "fd2"} : \E k \in 1..Len(CloseThree) : ClosesIt(CloseThree[k], s)
  <2>1. ClosesIt(Close("fd0"), "fd0") /\ ClosesIt(Close("fd1"), "fd1") /\ ClosesIt(Close("fd2"), "fd2")
    BY DEF ClosesIt, Closes, Close
  <2>2. 1 \in 1..3 /\ 2 \in 1..3 /\ 3 \in 1..3
    OBVIOUS
  <2>. QED BY <1>4, <2>1, <2>2
<1>7. /\ \A i \in {2, 4, 6, 7} : \A s : ~OpensIt(b[i], s) /\ b[i].else = CloseThree
      /\ \A s : s # "fd1" => ~OpensIt(b[3], s)
      /\ \A s : s # "fd2" => ~OpensIt(b[5], s)
      /\ \A i \in {3, 5, 8, 9, 10} : ~Branches(b[i])
      /\ \A i \in {8, 9, 10} : \A s : ~OpensIt(b[i], s)
  BY <1>1 DEF OpensIt, Opens, Branches, Open, Close, IfBad, Either
<1>8. \A i \in {2, 4, 6, 7}, s \in {"fd0", "fd1", "fd2"} : Covered(b, i + 1, s) => Covered(b, i, s)
  BY <1>6, <1>7, CoveredBefore
<1>9. Covered(b, 8, "fd0") /\ Covered(b, 9, "fd1") /\ Covered(b, 10, "fd2")
  <2>1. \A i \in 1..13 : \A s : ClosesIt(b[i], s) => Covered(b, i, s)
    BY <1>1 DEF Covered
  <2>2. ClosesIt(b[8], "fd0") /\ ClosesIt(b[9], "fd1") /\ ClosesIt(b[10], "fd2")
    BY <1>1 DEF ClosesIt, Closes, Close
  <2>. QED BY <2>1, <2>2
<1>10. /\ Covered(b, 8 + 1, "fd1") => Covered(b, 8, "fd1")
       /\ Covered(b, 8 + 1, "fd2") => Covered(b, 8, "fd2")
       /\ Covered(b, 9 + 1, "fd2") => Covered(b, 9, "fd2")
       /\ Covered(b, 3 + 1, "fd0") => Covered(b, 3, "fd0")
       /\ Covered(b, 5 + 1, "fd0") => Covered(b, 5, "fd0")
       /\ Covered(b, 5 + 1, "fd1") => Covered(b, 5, "fd1")
  BY <1>7, CoveredBefore
<1>11. Covered(b, 7, "fd0") /\ Covered(b, 7, "fd1") /\ Covered(b, 7, "fd2")
  BY <1>8, <1>9, <1>10
<1>c5. Covered(b, 6, "fd2")
  BY <1>8, <1>11
<1>c3. Covered(b, 4, "fd1")
  <2>1. Covered(b, 6, "fd1")
    BY <1>8, <1>11
  <2>2. Covered(b, 5, "fd1")
    BY <1>10, <2>1
  <2>. QED BY <1>8, <2>2
<1>c1. Covered(b, 2, "fd0")
  <2>1. Covered(b, 6, "fd0")
    BY <1>8, <1>11
  <2>2. Covered(b, 5, "fd0")
    BY <1>10, <2>1
  <2>3. Covered(b, 4, "fd0")
    BY <1>8, <2>2
  <2>4. Covered(b, 3, "fd0")
    BY <1>10, <2>3
  <2>. QED BY <1>8, <2>4
<1>c11. Covered(b, 12, "fd0")
  BY <1>1, <1>4, SMTT(60)
     DEF Covered, OpensIt, ClosesIt, Opens, Closes, Branches, Open, Close, IfBad, Either
<1>5. Leakless(b)
  BY <1>1, <1>c1, <1>c3, <1>c5, <1>c11 DEF Leakless, Opens, Open, Close, IfBad, Either
<1>. QED BY <1>3, <1>5 DEF b

LEMMA BodyReadMeminfo ==
  /\ ReadMeminfo \in Seq(BodyOps(3)) /\ Leakless(ReadMeminfo) /\ Sound(ReadMeminfo, {})
<1>. DEFINE b == ReadMeminfo
<1>1. /\ Len(b) = 2 /\ b[1] = Open("fd") /\ b[2] = Close("fd")
  BY DEF ReadMeminfo
<1>3. b \in Seq(BodyOps(3))
  BY DEF ReadMeminfo, BodyOps, ElseOps, VarsOf, Open, Close
<1>. HIDE DEF b
<1>c1. Covered(b, 2, "fd")
  BY <1>1 DEF Covered, OpensIt, ClosesIt, Opens, Closes, Branches, Open, Close
<1>5. Leakless(b)
  BY <1>1, <1>c1 DEF Leakless, Opens, Open, Close
<1>6. /\ Ready(b, 2, "fd", {})
  BY <1>1 DEF Ready, OpensIt, ClosesIt, Opens, Closes, Open, Close
<1>7. Sound(b, {})
  BY <1>1, <1>6 DEF Sound, Closes, ClosesIt, Branches, Open, Close
<1>. QED BY <1>3, <1>5, <1>7 DEF b

LEMMA BodyMdmSelSimNdt ==
  /\ MdmSelSimNdt \in Seq(BodyOps(2)) /\ Leakless(MdmSelSimNdt) /\ Sound(MdmSelSimNdt, {})
<1>. DEFINE b == MdmSelSimNdt
<1>1. /\ Len(b) = 9 /\ b[1] = Call("read_active_simVal") /\ b[2] = Either(<<>>)
      /\ b[3] = Open("gpio") /\ b[4] = Open("sim")
      /\ b[5] = IfBad("gpio", <<Call("wr_klog")>> \o CloseBoth)
      /\ b[6] = IfBad("sim", <<Call("wr_klog")>> \o CloseBoth) /\ b[7] = Either(CloseBoth)
      /\ b[8] = Close("gpio") /\ b[9] = Close("sim")
  BY DEF MdmSelSimNdt, CloseBoth
<1>2. {"read_active_simVal", "wr_klog"} \subseteq Below(2)
  BY FunctionsAre DEF Below, Rank
<1>3. b \in Seq(BodyOps(2))
  BY <1>2
     DEF MdmSelSimNdt, CloseBoth, BodyOps, ElseOps, VarsOf, Open, Close, Call, IfBad, Either
<1>4. /\ Len(<<>>) = 0 /\ Len(<<Call("wr_klog")>> \o CloseBoth) = 3
      /\ (<<Call("wr_klog")>> \o CloseBoth)[1] = Call("wr_klog")
      /\ (<<Call("wr_klog")>> \o CloseBoth)[2] = Close("gpio")
      /\ (<<Call("wr_klog")>> \o CloseBoth)[3] = Close("sim") /\ Len(CloseBoth) = 2
      /\ CloseBoth[1] = Close("gpio") /\ CloseBoth[2] = Close("sim")
  BY DEF CloseBoth
<1>. HIDE DEF b
<1>8. /\ b[5].else = <<Call("wr_klog")>> \o CloseBoth /\ b[6].else = <<Call("wr_klog")>> \o CloseBoth
      /\ b[7].else = CloseBoth /\ ~Branches(b[4]) /\ ~Branches(b[8])
      /\ \A i \in {5, 6, 7, 8} : \A s : ~OpensIt(b[i], s)
      /\ ~OpensIt(b[4], "gpio") /\ ClosesIt(b[8], "gpio") /\ ClosesIt(b[9], "sim")
  BY <1>1 DEF OpensIt, Opens, ClosesIt, Closes, Branches, Open, Close, Call, IfBad, Either
<1>9. \A i \in {5, 6, 7} : \A s \in {"gpio", "sim"} :
        \E k \in 1..Len(b[i].else) : ClosesIt(b[i].else[k], s)
  <2>1. ClosesIt(Close("gpio"), "gpio") /\ ClosesIt(Close("sim"), "sim")
    BY DEF ClosesIt, Closes, Close
  <2>2. 1 \in 1..2 /\ 2 \in 1..2 /\ 2 \in 1..3 /\ 3 \in 1..3
    OBVIOUS
  <2>. DEFINE h == <<Call("wr_klog")>> \o CloseBoth
  <2>3. ASSUME NEW i \in {5, 6}, NEW s \in {"gpio", "sim"}
        PROVE  \E k \in 1..Len(b[i].else) : ClosesIt(b[i].else[k], s)
    <3>1. b[i].else = h /\ Len(h) = 3 /\ h[2] = Close("gpio") /\ h[3] = Close("sim")
      BY <1>4, <1>8
    <3>. HIDE DEF h
    <3>2. ClosesIt(h[2], "gpio") /\ ClosesIt(h[3], "sim") /\ 2 \in 1..Len(h) /\ 3 \in 1..Len(h)
      BY <2>1, <2>2, <3>1, Zenon
    <3>. QED BY <3>1, <3>2
  <2>4. \A s \in {"gpio", "sim"} : \E k \in 1..Len(b[7].else) : ClosesIt(b[7].else[k], s)
    BY <1>4, <1>8, <2>1, <2>2, Zenon
  <2>. QED BY <2>3, <2>4
<1>c3. Covered(b, 4, "gpio")
  <2>1. 8 \in 4..Len(b) /\ \A i \in 4..8 - 1 : i = 4 \/ i \in {5, 6, 7}
    BY <1>1
  <2>. QED BY <1>8, <1>9, <2>1 DEF Covered
<1>c4. Covered(b, 5, "sim")
  <2>1. 9 \in 5..Len(b) /\ \A i \in 5..9 - 1 : i = 8 \/ i \in {5, 6, 7}
    BY <1>1
  <2>. QED BY <1>8, <1>9, <2>1 DEF Covered
<1>5. Leakless(b)
  BY <1>1, <1>c3, <1>c4 DEF Leakless, Opens, Open, Close, Call, IfBad, Either
<1>6. /\ Ready(b, 5, "gpio", {}) /\ Ready(b, 5, "sim", {}) /\ Ready(b, 6, "gpio", {})
      /\ Ready(b, 6, "sim", {}) /\ Ready(b, 7, "gpio", {}) /\ Ready(b, 7, "sim", {})
      /\ Ready(b, 8, "gpio", {}) /\ Ready(b, 9, "sim", {})
  BY <1>1 DEF Ready, OpensIt, ClosesIt, Opens, Closes, Open, Close, Call, IfBad, Either
<1>7. Sound(b, {})
  BY <1>1, <1>4, <1>6, SMTT(60)
     DEF Sound, Closes, ClosesIt, Branches, Open, Close, Call, IfBad, Either
<1>. QED BY <1>3, <1>5, <1>7 DEF b

LEMMA BodyMdmSelSim ==
  /\ MdmSelSim \in Seq(BodyOps(2)) /\ Leakless(MdmSelSim) /\ Sound(MdmSelSim, {})
<1>. DEFINE b == MdmSelSim
<1>1. /\ Len(b) = 7 /\ b[1] = Call("read_active_sim") /\ b[2] = Either(<<>>)
      /\ b[3] = Popen("fp_snd") /\ b[4] = IfBad("fp_snd", <<>>)
      /\ b[5] = Call("read_active_sim") /\ b[6] = Again("read_active_sim")
      /\ b[7] = Pclose("fp_snd")
  BY DEF MdmSelSim
<1>2. {"read_active_sim"} \subseteq Below(2)
  BY FunctionsAre DEF Below, Rank
<1>3. b \in Seq(BodyOps(2))
  BY <1>2 DEF MdmSelSim, BodyOps, ElseOps, VarsOf, Popen, Pclose, Call, Again, IfBad, Either
<1>4. /\ Len(<<>>) = 0
  OBVIOUS
<1>. HIDE DEF b
<1>c3. Covered(b, 4, "fp_snd")
  BY <1>1, <1>4
     DEF Covered, OpensIt, ClosesIt, Opens, Closes, Branches, Popen, Pclose, Call, Again, IfBad,
        Either
<1>5. Leakless(b)
  BY <1>1, <1>c3 DEF Leakless, Opens, Popen, Pclose, Call, Again, IfBad, Either
<1>6. /\ Ready(b, 7, "fp_snd", {})
  BY <1>1 DEF Ready, OpensIt, ClosesIt, Opens, Closes, Popen, Pclose, Call, Again, IfBad, Either
<1>7. Sound(b, {})
  BY <1>1, <1>4, <1>6
     DEF Sound, Closes, ClosesIt, Branches, Popen, Pclose, Call, Again, IfBad, Either
<1>. QED BY <1>3, <1>5, <1>7 DEF b

LEMMA BodyNetStsWithIP ==
  /\ NetStsWithIP \in Seq(BodyOps(2)) /\ Leakless(NetStsWithIP) /\ Sound(NetStsWithIP, {})
<1>. DEFINE b == NetStsWithIP
<1>1. /\ Len(b) = 4 /\ b[1] = Popen("fp") /\ b[2] = IfBad("fp", <<Pclose("fp")>>)
      /\ b[3] = Either(<<Pclose("fp")>>) /\ b[4] = Pclose("fp")
  BY DEF NetStsWithIP
<1>3. b \in Seq(BodyOps(2))
  BY DEF NetStsWithIP, BodyOps, ElseOps, VarsOf, Popen, Pclose, IfBad, Either
<1>4. /\ Len(<<Pclose("fp")>>) = 1 /\ <<Pclose("fp")>>[1] = Pclose("fp")
  OBVIOUS
<1>. HIDE DEF b
<1>c1. Covered(b, 2, "fp")
  BY <1>1, <1>4
     DEF Covered, OpensIt, ClosesIt, Opens, Closes, Branches, Popen, Pclose, IfBad, Either
<1>5. Leakless(b)
  BY <1>1, <1>c1 DEF Leakless, Opens, Popen, Pclose, IfBad, Either
<1>6. /\ Ready(b, 2, "fp", {}) /\ Ready(b, 3, "fp", {}) /\ Ready(b, 4, "fp", {})
  BY <1>1 DEF Ready, OpensIt, ClosesIt, Opens, Closes, Popen, Pclose, IfBad, Either
<1>7. Sound(b, {})
  BY <1>1, <1>4, <1>6 DEF Sound, Closes, ClosesIt, Branches, Popen, Pclose, IfBad, Either
<1>. QED BY <1>3, <1>5, <1>7 DEF b

LEMMA BodyGetFmwVer ==
  /\ GetFmwVer \in Seq(BodyOps(2)) /\ Leakless(GetFmwVer)
<1>. DEFINE b == GetFmwVer
<1>1. /\ Len(b) = 13 /\ b[1] = Open("fp") /\ b[2] = IfBad("fp", <<Close("fp")>>)
      /\ b[3] = Either(<<Close("fp")>>) /\ b[4] = Close("fp")
      /\ b[5] = Again("wr_klog") /\ b[6] = Popen("fs")
      /\ b[7] = IfBad("fs", <<Call("wr_klog"), Pclose("fs")>>) /\ b[8] = Call("wr_klog")
      /\ b[9] = Either(<<Pclose("fs"), Close("fp")>>) /\ b[10] = Call("wr_klog")
      /\ b[11] = Either(<<Pclose("fs")>>) /\ b[12] = Pclose("fs") /\ b[13] = Close("fp")
  BY DEF GetFmwVer
<1>2. {"wr_klog"} \subseteq Below(2)
  BY FunctionsAre DEF Below, Rank
<1>3. b \in Seq(BodyOps(2))
  BY <1>2
     DEF GetFmwVer, BodyOps, ElseOps, VarsOf, Open, Popen, Close, Pclose, Call, Again, IfBad, Either
<1>4. /\ Len(<<Close("fp")>>) = 1 /\ <<Close("fp")>>[1] = Close("fp")
      /\ Len(<<Call("wr_klog"), Pclose("fs")>>) = 2
      /\ <<Call("wr_klog"), Pclose("fs")>>[1] = Call("wr_klog")
      /\ <<Call("wr_klog"), Pclose("fs")>>[2] = Pclose("fs") /\ Len(<<Pclose("fs")>>) = 1
      /\ Len(<<Pclose("fs"), Close("fp")>>) = 2
      /\ <<Pclose("fs"), Close("fp")>>[1] = Pclose("fs")
      /\ <<Pclose("fs"), Close("fp")>>[2] = Close("fp")
      /\ <<Pclose("fs")>>[1] = Pclose("fs")
  OBVIOUS
<1>. HIDE DEF b
<1>c1. Covered(b, 2, "fp")
  <2>1. ClosesIt(b[4], "fp")
    BY <1>1 DEF ClosesIt, Closes, Close
  <2>2. /\ \A i \in {2, 3} : ~OpensIt(b[i], "fp")
        /\ b[2].op = "ifBad" /\ b[2].var = "fp" /\ b[3].else = <<Close("fp")>>
    BY <1>1 DEF OpensIt, Opens, IfBad, Either
  <2>3. ClosesIt(b[3].else[1], "fp") /\ 1 \in 1..Len(b[3].else)
    BY <1>4, <2>2 DEF ClosesIt, Closes, Close
  <2>4. 4 \in 2..Len(b) /\ \A i \in 2..4 - 1 : i = 2 \/ i = 3
    BY <1>1
  <2>. QED BY <2>1, <2>2, <2>3, <2>4 DEF Covered
<1>c5. Covered(b, 7, "fs")
  BY <1>1, <1>4, SMTT(60)
     DEF Covered, OpensIt, ClosesIt, Opens, Closes, Branches, Open, Popen, Close, Pclose, Call,
        Again, IfBad, Either
<1>5. Leakless(b)
  BY <1>1, <1>c1, <1>c5 DEF Leakless, Opens, Open, Popen, Close, Pclose, Call, Again, IfBad, Either
<1>. QED BY <1>3, <1>5 DEF b

LEMMA BodyMdmGetRstIntrvl ==
  /\ MdmGetRstIntrvl \in Seq(BodyOps(2)) /\ Leakless(MdmGetRstIntrvl) /\
        Sound(MdmGetRstIntrvl, {})
<1>. DEFINE b == MdmGetRstIntrvl
<1>1. /\ Len(b) = 4 /\ b[1] = Open("fp") /\ b[2] = IfBad("fp", <<Close("fp")>>)
      /\ b[3] = Either(<<Close("fp")>>) /\ b[4] = Close("fp")
  BY DEF MdmGetRstIntrvl
<1>3. b \in Seq(BodyOps(2))
  BY DEF MdmGetRstIntrvl, BodyOps, ElseOps, VarsOf, Open, Close, IfBad, Either
<1>4. /\ Len(<<Close("fp")>>) = 1 /\ <<Close("fp")>>[1] = Close("fp")
  OBVIOUS
<1>. HIDE DEF b
<1>c1. Covered(b, 2, "fp")
  BY <1>1, <1>4
     DEF Covered, OpensIt, ClosesIt, Opens, Closes, Branches, Open, Close, IfBad, Either
<1>5. Leakless(b)
  BY <1>1, <1>c1 DEF Leakless, Opens, Open, Close, IfBad, Either
<1>6. /\ Ready(b, 2, "fp", {}) /\ Ready(b, 3, "fp", {}) /\ Ready(b, 4, "fp", {})
  BY <1>1 DEF Ready, OpensIt, ClosesIt, Opens, Closes, Open, Close, IfBad, Either
<1>7. Sound(b, {})
  BY <1>1, <1>4, <1>6 DEF Sound, Closes, ClosesIt, Branches, Open, Close, IfBad, Either
<1>. QED BY <1>3, <1>5, <1>7 DEF b

LEMMA BodyGetSysUptm ==
  /\ GetSysUptm \in Seq(BodyOps(2)) /\ Leakless(GetSysUptm) /\ Sound(GetSysUptm, {})
<1>. DEFINE b == GetSysUptm
<1>1. /\ Len(b) = 5 /\ b[1] = Popen("fd_pop") /\ b[2] = Popen("fd_pop2")
      /\ b[3] = IfBad("fd_pop2", <<Pclose("fd_pop2"), Pclose("fd_pop")>>)
      /\ b[4] = Pclose("fd_pop") /\ b[5] = Pclose("fd_pop2")
  BY DEF GetSysUptm
<1>3. b \in Seq(BodyOps(2))
  BY DEF GetSysUptm, BodyOps, ElseOps, VarsOf, Popen, Pclose, IfBad
<1>4. /\ Len(<<Pclose("fd_pop2"), Pclose("fd_pop")>>) = 2
      /\ <<Pclose("fd_pop2"), Pclose("fd_pop")>>[1] = Pclose("fd_pop2")
      /\ <<Pclose("fd_pop2"), Pclose("fd_pop")>>[2] = Pclose("fd_pop")
  OBVIOUS
<1>. HIDE DEF b
<1>c1. Covered(b, 2, "fd_pop")
  BY <1>1, <1>4 DEF Covered, OpensIt, ClosesIt, Opens, Closes, Branches, Popen, Pclose, IfBad
<1>c2. Covered(b, 3, "fd_pop2")
  BY <1>1, <1>4 DEF Covered, OpensIt, ClosesIt, Opens, Closes, Branches, Popen, Pclose, IfBad
<1>5. Leakless(b)
  BY <1>1, <1>c1, <1>c2 DEF Leakless, Opens, Popen, Pclose, IfBad
<1>6. /\ Ready(b, 3, "fd_pop2", {}) /\ Ready(b, 3, "fd_pop", {}) /\ Ready(b, 4, "fd_pop", {})
      /\ Ready(b, 5, "fd_pop2", {})
  BY <1>1 DEF Ready, OpensIt, ClosesIt, Opens, Closes, Popen, Pclose, IfBad
<1>7. Sound(b, {})
  BY <1>1, <1>4, <1>6 DEF Sound, Closes, ClosesIt, Branches, Popen, Pclose, IfBad
<1>. QED BY <1>3, <1>5, <1>7 DEF b

LEMMA BodyGetPingSts ==
  /\ GetPingSts \in Seq(BodyOps(2)) /\ Leakless(GetPingSts) /\ Sound(GetPingSts, {})
<1>. DEFINE b == GetPingSts
<1>1. /\ Len(b) = 3 /\ b[1] = Popen("fp_snd") /\ b[2] = IfBad("fp_snd", <<Pclose("fp_snd")>>)
      /\ b[3] = Pclose("fp_snd")
  BY DEF GetPingSts
<1>3. b \in Seq(BodyOps(2))
  BY DEF GetPingSts, BodyOps, ElseOps, VarsOf, Popen, Pclose, IfBad
<1>4. /\ Len(<<Pclose("fp_snd")>>) = 1 /\ <<Pclose("fp_snd")>>[1] = Pclose("fp_snd")
  OBVIOUS
<1>. HIDE DEF b
<1>c1. Covered(b, 2, "fp_snd")
  BY <1>1, <1>4 DEF Covered, OpensIt, ClosesIt, Opens, Closes, Branches, Popen, Pclose, IfBad
<1>5. Leakless(b)
  BY <1>1, <1>c1 DEF Leakless, Opens, Popen, Pclose, IfBad
<1>6. /\ Ready(b, 2, "fp_snd", {}) /\ Ready(b, 3, "fp_snd", {})
  BY <1>1 DEF Ready, OpensIt, ClosesIt, Opens, Closes, Popen, Pclose, IfBad
<1>7. Sound(b, {})
  BY <1>1, <1>4, <1>6 DEF Sound, Closes, ClosesIt, Branches, Popen, Pclose, IfBad
<1>. QED BY <1>3, <1>5, <1>7 DEF b

LEMMA BodyPktBtup ==
  /\ PktBtup \in Seq(BodyOps(1)) /\ Leakless(PktBtup) /\ Sound(PktBtup, {})
<1>. DEFINE b == PktBtup
<1>1. /\ Len(b) = 12 /\ b[1] = Open("ttyFD") /\ b[2] = IfBad("ttyFD", <<Close("ttyFD")>>)
      /\ b[3] = Either(<<Close("ttyFD")>>) /\ b[4] = Call("mdm_selSim_ndt")
      /\ b[5] = Call("read_active_sim") /\ b[6] = Again("read_active_sim")
      /\ b[7] = Call("get_fmw_ver") /\ b[8] = Call("mdm_selSim_ndt")
      /\ b[9] = Call("read_active_sim") /\ b[10] = Again("read_active_sim")
      /\ b[11] = Call("mdm_selSim") /\ b[12] = Close("ttyFD")
  BY DEF PktBtup, MdmInit, SimLabels
<1>2. {"get_fmw_ver", "mdm_selSim", "mdm_selSim_ndt", "read_active_sim"} \subseteq Below(1)
  BY FunctionsAre DEF Below, Rank
<1>3. b \in Seq(BodyOps(1))
  BY <1>2
     DEF PktBtup, MdmInit, SimLabels, BodyOps, ElseOps, VarsOf, Open, Close, Call, Again, IfBad,
        Either
<1>4. /\ Len(<<Close("ttyFD")>>) = 1 /\ <<Close("ttyFD")>>[1] = Close("ttyFD")
  OBVIOUS
<1>. HIDE DEF b
<1>c4. Covered(b, 4, "ttyFD")
  <2>1. \A j \in 4..11 : ~Opens(b[j]) /\ ~Branches(b[j])
    BY <1>1 DEF Opens, Branches, Open, Close, Call, Again, IfBad, Either
  <2>2. ClosesIt(b[12], "ttyFD")
    BY <1>1 DEF ClosesIt, Closes, Close
  <2>. QED BY <1>1, <2>1, <2>2 DEF Covered, OpensIt
<1>c3. Covered(b, 3, "ttyFD")
  <2>1. ~OpensIt(b[3], "ttyFD")
    BY <1>1 DEF OpensIt, Opens, IfBad, Either
  <2>2. 1 \in 1..Len(b[3].else) /\ ClosesIt(b[3].else[1], "ttyFD")
    BY <1>1, <1>4 DEF ClosesIt, Closes, Close, IfBad, Either
  <2>3. Covered(b, 3 + 1, "ttyFD")
    BY <1>c4
  <2>. QED BY <2>1, <2>2, <2>3, CoveredBefore
<1>c1. Covered(b, 2, "ttyFD")
  <2>1. ~OpensIt(b[2], "ttyFD")
    BY <1>1 DEF OpensIt, Opens, IfBad, Either
  <2>2. 1 \in 1..Len(b[2].else) /\ ClosesIt(b[2].else[1], "ttyFD")
    BY <1>1, <1>4 DEF ClosesIt, Closes, Close, IfBad, Either
  <2>3. Covered(b, 2 + 1, "ttyFD")
    BY <1>c3
  <2>. QED BY <2>1, <2>2, <2>3, CoveredBefore
<1>5. Leakless(b)
  BY <1>1, <1>c1 DEF Leakless, Opens, Open, Close, Call, Again, IfBad, Either
<1>6. /\ Ready(b, 2, "ttyFD", {}) /\ Ready(b, 3, "ttyFD", {}) /\ Ready(b, 12, "ttyFD", {})
  BY <1>1 DEF Ready, OpensIt, ClosesIt, Opens, Closes, Open, Close, Call, Again, IfBad, Either
<1>7. Sound(b, {})
  BY <1>1, <1>4, <1>6, SMTT(60)
     DEF Sound, Closes, ClosesIt, Branches, Open, Close, Call, Again, IfBad, Either
<1>. QED BY <1>3, <1>5, <1>7 DEF b

LEMMA BodyPktPrd ==
  /\ PktPrd \in Seq(BodyOps(1)) /\ Leakless(PktPrd) /\ Sound(PktPrd, {})
<1>. DEFINE b == PktPrd
<1>1. /\ Len(b) = 14 /\ b[1] = Open("ttyFD") /\ b[2] = IfBad("ttyFD", <<Close("ttyFD")>>)
      /\ b[3] = Either(<<Close("ttyFD")>>) /\ b[4] = Call("get_sys_uptm")
      /\ b[5] = Call("mdm_get_netSts_withIP") /\ b[6] = Call("read_active_simVal")
      /\ b[7] = Call("get_ping_sts") /\ b[8] = Call("read_active_sim")
      /\ b[9] = Call("get_eth_info") /\ b[10] = Call("read_meminfo")
      /\ b[11] = Call("read_active_sim") /\ b[12] = Call("read_active_sim")
      /\ b[13] = Call("mdm_get_rstIntrvl") /\ b[14] = Close("ttyFD")
  BY DEF PktPrd, MdmInit
<1>2. {"get_eth_info", "get_ping_sts", "get_sys_uptm", "mdm_get_netSts_withIP",
        "mdm_get_rstIntrvl", "read_active_sim", "read_active_simVal", "read_meminfo"} \subseteq Below(1)
  BY FunctionsAre DEF Below, Rank
<1>3. b \in Seq(BodyOps(1))
  BY <1>2 DEF PktPrd, MdmInit, BodyOps, ElseOps, VarsOf, Open, Close, Call, IfBad, Either
<1>4. /\ Len(<<Close("ttyFD")>>) = 1 /\ <<Close("ttyFD")>>[1] = Close("ttyFD")
  OBVIOUS
<1>. HIDE DEF b
<1>c4. Covered(b, 4, "ttyFD")
  <2>1. \A j \in 4..13 : ~Opens(b[j]) /\ ~Branches(b[j])
    BY <1>1 DEF Opens, Branches, Open, Close, Call, IfBad, Either
  <2>2. ClosesIt(b[14], "ttyFD")
    BY <1>1 DEF ClosesIt, Closes, Close
  <2>. QED BY <1>1, <2>1, <2>2 DEF Covered, OpensIt
<1>c3. Covered(b, 3, "ttyFD")
  <2>1. ~OpensIt(b[3], "ttyFD")
    BY <1>1 DEF OpensIt, Opens, IfBad, Either
  <2>2. 1 \in 1..Len(b[3].else) /\ ClosesIt(b[3].else[1], "ttyFD")
    BY <1>1, <1>4 DEF ClosesIt, Closes, Close, IfBad, Either
  <2>3. Covered(b, 3 + 1, "ttyFD")
    BY <1>c4
  <2>. QED BY <2>1, <2>2, <2>3, CoveredBefore
<1>c1. Covered(b, 2, "ttyFD")
  <2>1. ~OpensIt(b[2], "ttyFD")
    BY <1>1 DEF OpensIt, Opens, IfBad, Either
  <2>2. 1 \in 1..Len(b[2].else) /\ ClosesIt(b[2].else[1], "ttyFD")
    BY <1>1, <1>4 DEF ClosesIt, Closes, Close, IfBad, Either
  <2>3. Covered(b, 2 + 1, "ttyFD")
    BY <1>c3
  <2>. QED BY <2>1, <2>2, <2>3, CoveredBefore
<1>5. Leakless(b)
  BY <1>1, <1>c1 DEF Leakless, Opens, Open, Close, Call, IfBad, Either
<1>6. /\ Ready(b, 2, "ttyFD", {}) /\ Ready(b, 3, "ttyFD", {}) /\ Ready(b, 14, "ttyFD", {})
  BY <1>1 DEF Ready, OpensIt, ClosesIt, Opens, Closes, Open, Close, Call, IfBad, Either
<1>7. Sound(b, {})
  BY <1>1, <1>4, <1>6, SMTT(60)
     DEF Sound, Closes, ClosesIt, Branches, Open, Close, Call, IfBad, Either
<1>. QED BY <1>3, <1>5, <1>7 DEF b

\* All of it, for each function.
LEMMA Bodies ==
  ASSUME NEW f \in Functions
  PROVE  /\ Body[f] \in Seq(BodyOps(Rank(f)))
         /\ Leakless(Body[f])
         /\ f \notin Strays => Sound(Body[f], {})
<1>1. /\ Body["read_active_simVal"] = ReadActiveSimVal /\ Body["read_active_sim"] = ReadActiveSim
      /\ Body["wr_klog"] = WrKlog /\ Body["get_eth_info"] = GetEthInfo
      /\ Body["read_meminfo"] = ReadMeminfo
  BY DEF Body
<1>2. /\ Body["mdm_selSim_ndt"] = MdmSelSimNdt /\ Body["mdm_selSim"] = MdmSelSim
      /\ Body["mdm_get_netSts_withIP"] = NetStsWithIP /\ Body["get_fmw_ver"] = GetFmwVer
      /\ Body["mdm_get_rstIntrvl"] = MdmGetRstIntrvl /\ Body["get_sys_uptm"] = GetSysUptm
      /\ Body["get_ping_sts"] = GetPingSts
  BY DEF Body
<1>3. Body["pkt_btup"] = PktBtup /\ Body["pkt_prd"] = PktPrd
  BY DEF Body
<1>4. CASE f \in {"read_active_simVal", "read_active_sim", "wr_klog", "get_eth_info", "read_meminfo"}
  <2>1. Rank(f) = 3
    BY <1>4 DEF Rank
  <2>. QED
    BY <1>1, <1>4, <2>1, BodyReadActiveSimVal, BodyReadActiveSim, BodyWrKlog, BodyGetEthInfo,
       BodyReadMeminfo DEF Strays
<1>5. CASE f \in {"mdm_selSim_ndt", "mdm_selSim", "mdm_get_netSts_withIP", "get_fmw_ver",
                  "mdm_get_rstIntrvl", "get_sys_uptm", "get_ping_sts"}
  <2>1. Rank(f) = 2
    BY <1>5 DEF Rank
  <2>. QED
    BY <1>2, <1>5, <2>1, BodyMdmSelSimNdt, BodyMdmSelSim, BodyNetStsWithIP, BodyGetFmwVer,
       BodyMdmGetRstIntrvl, BodyGetSysUptm, BodyGetPingSts DEF Strays
<1>6. CASE f \in {"pkt_btup", "pkt_prd"}
  <2>1. Rank(f) = 1
    BY <1>6 DEF Rank
  <2>. QED
    BY <1>3, <1>6, <2>1, BodyPktBtup, BodyPktPrd
<1>. QED BY <1>4, <1>5, <1>6, FunctionsAre

----------------------------------------------------------------------------
(* The threads themselves, and the invariant.                              *)

\* What may be left of a thread's own operations.
Loops ==
  {<<Recv>>, <<Send, Recv>>}
  \cup {<<Guarded(f), Send, Recv>> : f \in {"pkt_prd", "pkt_btup", "mdm_selSim"}}
Openings == {StartSrvr(e) : e \in BOOLEAN}
Listenings == {<<Listen(e)>> : e \in BOOLEAN}
Building == <<Guarded("pkt_btup")>> \o StartSrvr(TRUE)
BaseTodos == Loops \cup Openings \cup Listenings \cup {Building, Reopen, Tail(Reopen)}

Values == Numbers \cup {Invalid}
LocalsOf(V) == UNION {[D -> Values] : D \in SUBSET V}
FramesOf(f) == [fun : {f}, todo : Seq(BodyOps(Rank(f))), locals : LocalsOf(VarsOf(Rank(f)))]
FunctionFrames == UNION {FramesOf(f) : f \in Functions}
BaseFrames(t) == [fun : {t}, todo : BaseTodos, locals : LocalsOf(PortVars)]
Frames == FunctionFrames \cup UNION {BaseFrames(t) : t \in Threads}

\* The frame of the thread itself is the last, and frames of functions come before it.
Base(t) == stack[t][Len(stack[t])]
Above(t) == 1..Len(stack[t]) - 1

TableType == fds \in [Numbers -> {Free} \cup (Threads \X Variables \X {0, 40, 41})]

TypeInv ==
  /\ TableType
  /\ deaf \in [Threads -> BOOLEAN] /\ alive \in BOOLEAN
  /\ faults \in 0..MaxFaults

Shape(t) ==
  /\ stack[t] # <<>>
  /\ Base(t) \in BaseFrames(t)
  /\ \A k \in Above(t) : stack[t][k] \in FunctionFrames /\ Leakless(stack[t][k].todo)
  /\ \A j, k \in Above(t) : j < k => Rank(stack[t][j].fun) > Rank(stack[t][k].fun)

Stacks == stack \in [Threads -> Seq(Frames)] /\ \A t \in Threads : Shape(t)

\* n stands for what t has opened for s.
IsFor(n, t, s) == fds[n] # Free /\ fds[n][1] = t /\ fds[n][2] = s

Has(t, s, n) == s \in DOMAIN Base(t).locals /\ Base(t).locals[s] = n
Owns(t, s) == \E n \in Numbers : Has(t, s, n) /\ fds[n] = <<t, s, Port[t]>>
Connected(t) == (Base(t).todo \in Loops /\ ~deaf[t]) \/ Base(t).todo = Reopen

\* The socket and the connection of a thread: nothing stands for them but the value of
\* its own variables, at the places where they are open.
PortInv(t) ==
  /\ deaf[t] => Base(t).todo \in Loops
  /\ Connected(t) => Owns(t, "fd_clnt")
  /\ Connected(t) \/ Base(t).todo = Tail(Reopen) => Owns(t, "fd_srvr")
  /\ Base(t).todo \in Listenings => Has(t, "fd_srvr", Invalid) \/ Owns(t, "fd_srvr")
  /\ \A n \in Numbers : IsFor(n, t, "fd_clnt") => Has(t, "fd_clnt", n) /\ Connected(t)
  /\ \A n \in Numbers : IsFor(n, t, "fd_srvr") =>
       Has(t, "fd_srvr", n) /\ Base(t).todo \notin Openings \cup {Building}

\* What a function has opened it has yet to close.
HeldInv(t) ==
  \A n \in Numbers, s \in Variables \ PortVars : IsFor(n, t, s) =>
    \E k \in Above(t) :
      /\ s \in DOMAIN stack[t][k].locals /\ stack[t][k].locals[s] = n
      /\ Covered(stack[t][k].todo, 1, s)

\* The variables with a number the frame has opened, or with none.
ReadyVars(t, k) ==
  {s \in DOMAIN stack[t][k].locals :
     \/ stack[t][k].locals[s] = Invalid
     \/ \E n \in Numbers : stack[t][k].locals[s] = n /\ IsFor(n, t, s)}

\* What a function closes it has opened.
SoundInv(t) ==
  \A k \in Above(t) : stack[t][k].fun \notin Strays => Sound(stack[t][k].todo, ReadyVars(t, k))

ThreadInv(t) == PortInv(t) /\ HeldInv(t) /\ SoundInv(t)

IInv ==
  /\ TypeInv /\ Stacks
  /\ OnlyTheseStray
  /\ alive /\ culprit = "none" => \A t \in Threads : ThreadInv(t)
  /\ ~alive => \A n \in Numbers : fds[n] = Free

----------------------------------------------------------------------------
(* Frames.                                                                 *)

LEMMA ConstFacts ==
  /\ Invalid \notin Numbers /\ Numbers \subseteq Nat
  /\ Threads \cap Functions = {}
  /\ \A x \in Threads \X Variables \X {0, 40, 41} : x # Free
  /\ "none" \notin Threads \cup Functions /\ "deaf" \notin Threads \cup Functions
  /\ PortVars \subseteq Variables
<1>1. Invalid \notin Numbers /\ Numbers \subseteq Nat
  BY MaxFdAssumption DEF Numbers, Invalid
<1>2. Threads \cap Functions = {} /\ "none" \notin Threads \cup Functions /\ "deaf" \notin Threads \cup Functions
  BY FunctionsAre DEF Threads
<1>3. \A x \in Threads \X Variables \X {0, 40, 41} : x # Free
  BY DEF Threads, Free
<1>4. PortVars \subseteq Variables
  BY DEF PortVars, Variables
<1>. QED BY <1>1, <1>2, <1>3, <1>4

\* Two sequences of operations, one after the other.
LEMMA Joined ==
  ASSUME NEW a, NEW b, NEW c, NEW d
  PROVE  /\ <<a, b>> \o <<c, d>> = <<a, b, c, d>> /\ <<a>> \o <<c, d>> = <<a, c, d>>
<1>. DEFINE S == {a, b, c, d}
<1>1. <<a, b>> \o <<c, d>> = <<a, b, c, d>>
  <2>1. <<a, b>> \in Seq(S) /\ <<c, d>> \in Seq(S) /\ <<a, b, c, d>> \in Seq(S)
    OBVIOUS
  <2>2. Len(<<a, b>> \o <<c, d>>) = 4 /\ <<a, b>> \o <<c, d>> \in Seq(S)
    BY <2>1
  <2>3. \A i \in 1..4 : (<<a, b>> \o <<c, d>>)[i] = <<a, b, c, d>>[i]
    BY <2>1
  <2>. QED BY <2>1, <2>2, <2>3, SeqEqual
<1>2. <<a>> \o <<c, d>> = <<a, c, d>>
  <2>1. <<a>> \in Seq(S) /\ <<c, d>> \in Seq(S) /\ <<a, c, d>> \in Seq(S)
    OBVIOUS
  <2>2. Len(<<a>> \o <<c, d>>) = 3 /\ <<a>> \o <<c, d>> \in Seq(S)
    BY <2>1
  <2>3. \A i \in 1..3 : (<<a>> \o <<c, d>>)[i] = <<a, c, d>>[i]
    BY <2>1
  <2>. QED BY <2>1, <2>2, <2>3, SeqEqual
<1>. QED BY <1>1, <1>2

LEMMA TailOfThree == \A a, b, c : Tail(<<a, b, c>>) = <<b, c>>
  OBVIOUS
LEMMA TailOfFour == \A a, b, c, d : Tail(<<a, b, c, d>>) = <<b, c, d>>
  OBVIOUS

\* What each of a thread's own operations is, and what is left after it.
LEMMA BaseTodoFacts ==
  /\ \A x \in Loops : /\ x # <<>> /\ Head(x).op \in {"recv", "send", "guarded"}
                      /\ Head(x).op # "recv" => Tail(x) \in Loops
                      /\ Head(x).op = "guarded" => Head(x).fun \in {"pkt_prd", "pkt_btup", "mdm_selSim"}
  /\ \A x \in Openings : /\ x # <<>> /\ Head(x).op = "open" /\ Head(x).var = "fd_srvr"
                         /\ Tail(x) \in Listenings
  /\ \A x \in Listenings : x # <<>> /\ Head(x).op = "listen"
  /\ /\ Building # <<>> /\ Head(Building).op = "guarded" /\ Head(Building).fun = "pkt_btup"
     /\ Tail(Building) \in Openings
  /\ Reopen # <<>> /\ Head(Reopen).op = "close" /\ Head(Reopen).var = "fd_clnt"
  /\ /\ Tail(Reopen) # <<>> /\ Head(Tail(Reopen)).op = "close" /\ Head(Tail(Reopen)).var = "fd_srvr"
     /\ Tail(Tail(Reopen)) \in Openings
<1>1. ASSUME NEW x \in Loops
      PROVE  /\ x # <<>> /\ Head(x).op \in {"recv", "send", "guarded"}
             /\ Head(x).op # "recv" => Tail(x) \in Loops
             /\ Head(x).op = "guarded" => Head(x).fun \in {"pkt_prd", "pkt_btup", "mdm_selSim"}
  <2>1. CASE x = <<Recv>>
    BY <2>1 DEF Recv
  <2>2. CASE x = <<Send, Recv>>
    <3>1. x # <<>> /\ Head(x) = Send /\ Tail(x) = <<Recv>>
      BY <2>2
    <3>. QED BY <3>1 DEF Send, Loops
  <2>3. CASE \E f \in {"pkt_prd", "pkt_btup", "mdm_selSim"} : x = <<Guarded(f), Send, Recv>>
    <3>1. PICK f \in {"pkt_prd", "pkt_btup", "mdm_selSim"} : x = <<Guarded(f), Send, Recv>>
      BY <2>3
    <3>2. x # <<>> /\ Head(x) = Guarded(f) /\ Tail(x) = <<Send, Recv>>
      BY <3>1
    <3>. QED BY <3>2 DEF Guarded, Loops
  <2>. QED BY <2>1, <2>2, <2>3 DEF Loops
<1>2. ASSUME NEW x \in Openings
      PROVE  x # <<>> /\ Head(x).op = "open" /\ Head(x).var = "fd_srvr" /\ Tail(x) \in Listenings
  <2>1. PICK e \in BOOLEAN : x = <<Open("fd_srvr"), Listen(e)>>
    BY DEF Openings, StartSrvr
  <2>2. x # <<>> /\ Head(x) = Open("fd_srvr") /\ Tail(x) = <<Listen(e)>>
    BY <2>1
  <2>. QED BY <2>2 DEF Open, Listenings
<1>3. ASSUME NEW x \in Listenings PROVE x # <<>> /\ Head(x).op = "listen"
  BY DEF Listenings, Listen
<1>4. /\ Building # <<>> /\ Head(Building).op = "guarded" /\ Head(Building).fun = "pkt_btup"
      /\ Tail(Building) \in Openings
  <2>. DEFINE b == <<Guarded("pkt_btup"), Open("fd_srvr"), Listen(TRUE)>>
  <2>a. <<Guarded("pkt_btup")>> \o <<Open("fd_srvr"), Listen(TRUE)>> = b
    BY Joined, Zenon
  <2>1. Building = b
    BY <2>a, Zenon DEF Building, StartSrvr
  <2>b. b # <<>> /\ Head(b) = Guarded("pkt_btup") /\ Tail(b) = <<Open("fd_srvr"), Listen(TRUE)>>
    <3>1. b # <<>> /\ Head(b) = Guarded("pkt_btup")
      OBVIOUS
    <3>3. Tail(b) = <<Open("fd_srvr"), Listen(TRUE)>>
      BY TailOfThree, Zenon
    <3>. QED BY <3>1, <3>3
  <2>2. /\ Building # <<>> /\ Head(Building) = Guarded("pkt_btup")
        /\ Tail(Building) = <<Open("fd_srvr"), Listen(TRUE)>>
    BY <2>1, <2>b, Zenon
  <2>3. Tail(Building) \in Openings
    BY <2>2 DEF Openings, StartSrvr
  <2>. QED BY <2>2, <2>3 DEF Guarded
<1>5. /\ Reopen # <<>> /\ Head(Reopen) = Close("fd_clnt")
      /\ Tail(Reopen) = <<Close("fd_srvr"), Open("fd_srvr"), Listen(FALSE)>>
  <2>. DEFINE b == <<Close("fd_clnt"), Close("fd_srvr"), Open("fd_srvr"), Listen(FALSE)>>
  <2>a. <<Close("fd_clnt"), Close("fd_srvr")>> \o <<Open("fd_srvr"), Listen(FALSE)>> = b
    BY Joined, Zenon
  <2>1. Reopen = b
    BY <2>a, Zenon DEF Reopen, StartSrvr
  <2>b. /\ b # <<>> /\ Head(b) = Close("fd_clnt")
        /\ Tail(b) = <<Close("fd_srvr"), Open("fd_srvr"), Listen(FALSE)>>
    <3>1. b # <<>> /\ Head(b) = Close("fd_clnt")
      OBVIOUS
    <3>3. Tail(b) = <<Close("fd_srvr"), Open("fd_srvr"), Listen(FALSE)>>
      BY TailOfFour, Zenon
    <3>. QED BY <3>1, <3>3
  <2>. QED BY <2>1, <2>b, Zenon
<1>7. /\ Tail(Reopen) # <<>> /\ Head(Tail(Reopen)) = Close("fd_srvr")
      /\ Tail(Tail(Reopen)) = <<Open("fd_srvr"), Listen(FALSE)>>
  <2>. DEFINE b == <<Close("fd_srvr"), Open("fd_srvr"), Listen(FALSE)>>
  <2>1. b # <<>> /\ Head(b) = Close("fd_srvr") /\ Tail(b) = <<Open("fd_srvr"), Listen(FALSE)>>
    <3>1. b # <<>> /\ Head(b) = Close("fd_srvr")
      OBVIOUS
    <3>3. Tail(b) = <<Open("fd_srvr"), Listen(FALSE)>>
      BY TailOfThree, Zenon
    <3>. QED BY <3>1, <3>3
  <2>. QED BY <1>5, <2>1, Zenon
<1>8. Tail(Tail(Reopen)) \in Openings
  BY <1>7 DEF Openings, StartSrvr
<1>9. \A s : Close(s).op = "close" /\ Close(s).var = s
  BY DEF Close
<1>. QED BY <1>1, <1>2, <1>3, <1>4, <1>5, <1>7, <1>8, <1>9

\* Different places begin with different operations.
LEMMA BaseTodoDiffer ==
  /\ \A x \in Loops : x \notin Openings \cup Listenings /\ x # Building /\ x # Reopen /\ x # Tail(Reopen)
  /\ \A x \in Openings : x \notin Listenings /\ x # Building /\ x # Reopen /\ x # Tail(Reopen)
  /\ \A x \in Listenings : x # Building /\ x # Reopen /\ x # Tail(Reopen)
  /\ Building # Reopen /\ Building # Tail(Reopen) /\ Reopen # Tail(Reopen)
<1>1. \A x \in Loops : x # Building
  <2>1. Building[2].op = "open"
    BY DEF Building, StartSrvr, Open
  <2>2. \A x \in Loops : Head(x).op = "guarded" => x[2].op = "send"
    BY DEF Loops, Send, Recv, Guarded
  <2>. QED BY <2>1, <2>2, BaseTodoFacts
<1>. QED BY <1>1, BaseTodoFacts

\* Values of local variables.
LEMMA WithType ==
  ASSUME NEW V, NEW l \in LocalsOf(V), NEW s \in V, NEW n \in Values
  PROVE  With(l, s, n) \in LocalsOf(V)
<1>1. PICK D \in SUBSET V : l \in [D -> Values]
  BY DEF LocalsOf
<1>2. With(l, s, n) \in [D \cup {s} -> Values]
  BY <1>1 DEF With
<1>3. D \cup {s} \in SUBSET V
  BY <1>1
<1>. QED BY <1>2, <1>3 DEF LocalsOf

LEMMA LocalsFacts ==
  ASSUME NEW V, NEW l \in LocalsOf(V)
  PROVE  DOMAIN l \subseteq V /\ \A s \in DOMAIN l : l[s] \in Values
  BY DEF LocalsOf

LEMMA NoLocalsFacts == \A V : NoLocals \in LocalsOf(V) /\ DOMAIN NoLocals = {}
<1>1. NoLocals \in [{} -> Values] /\ DOMAIN NoLocals = {}
  BY DEF NoLocals
<1>. QED BY <1>1 DEF LocalsOf

\* The stack after the frame on top has been replaced, pushed upon, or taken off.
LEMMA Replaced ==
  ASSUME stack \in [Threads -> Seq(Frames)], NEW t \in Threads, stack[t] # <<>>, NEW fr \in Frames,
         stack' = [stack EXCEPT ![t][1] = fr]
  PROVE  /\ stack' \in [Threads -> Seq(Frames)]
         /\ Len(stack[t]) \in Nat \ {0} /\ Len(stack'[t]) = Len(stack[t]) /\ stack'[t] # <<>>
         /\ stack'[t][1] = fr
         /\ \A k \in 2..Len(stack[t]) : stack'[t][k] = stack[t][k]
         /\ \A u \in Threads : u # t => stack'[u] = stack[u]
<1>1. stack[t] \in Seq(Frames) /\ Len(stack[t]) \in Nat \ {0}
  OBVIOUS
<1>2. [stack[t] EXCEPT ![1] = fr] \in Seq(Frames) /\ Len([stack[t] EXCEPT ![1] = fr]) = Len(stack[t])
  BY <1>1
<1>3. stack'[t] = [stack[t] EXCEPT ![1] = fr]
  OBVIOUS
<1>. QED BY <1>1, <1>2, <1>3

LEMMA Pushed ==
  ASSUME stack \in [Threads -> Seq(Frames)], NEW t \in Threads, stack[t] # <<>>,
         NEW fr \in Frames, NEW caller \in Frames,
         stack' = [stack EXCEPT ![t] = <<fr, caller>> \o Tail(@)]
  PROVE  /\ stack' \in [Threads -> Seq(Frames)]
         /\ Len(stack[t]) \in Nat \ {0} /\ Len(stack'[t]) = Len(stack[t]) + 1 /\ stack'[t] # <<>>
         /\ stack'[t][1] = fr /\ stack'[t][2] = caller
         /\ \A k \in 2..Len(stack[t]) : stack'[t][k + 1] = stack[t][k]
         /\ \A u \in Threads : u # t => stack'[u] = stack[u]
<1>1. stack[t] \in Seq(Frames) /\ Len(stack[t]) \in Nat \ {0}
  OBVIOUS
<1>2. /\ Tail(stack[t]) \in Seq(Frames) /\ Len(Tail(stack[t])) = Len(stack[t]) - 1
      /\ \A k \in 1..Len(stack[t]) - 1 : Tail(stack[t])[k] = stack[t][k + 1]
  BY <1>1
<1>3. <<fr, caller>> \in Seq(Frames) /\ Len(<<fr, caller>>) = 2
  OBVIOUS
<1>4. stack'[t] = <<fr, caller>> \o Tail(stack[t])
  OBVIOUS
<1>5. /\ stack'[t] \in Seq(Frames) /\ Len(stack'[t]) = Len(stack[t]) + 1
      /\ stack'[t][1] = fr /\ stack'[t][2] = caller
  BY <1>1, <1>2, <1>3, <1>4
<1>6. ASSUME NEW k \in 2..Len(stack[t]) PROVE stack'[t][k + 1] = stack[t][k]
  <2>1. stack'[t][k + 1] = Tail(stack[t])[k + 1 - 2]
    BY <1>1, <1>2, <1>3, <1>4
  <2>2. Tail(stack[t])[k - 1] = stack[t][k - 1 + 1]
    BY <1>1, <1>2
  <2>. QED BY <2>1, <2>2
<1>. QED BY <1>1, <1>5, <1>6

LEMMA Popped ==
  ASSUME stack \in [Threads -> Seq(Frames)], NEW t \in Threads, Len(stack[t]) > 1,
         stack' = [stack EXCEPT ![t] = Tail(@)]
  PROVE  /\ stack' \in [Threads -> Seq(Frames)]
         /\ Len(stack'[t]) = Len(stack[t]) - 1 /\ stack'[t] # <<>>
         /\ \A k \in 1..Len(stack[t]) - 1 : stack'[t][k] = stack[t][k + 1]
         /\ \A u \in Threads : u # t => stack'[u] = stack[u]
<1>1. stack[t] \in Seq(Frames) /\ stack[t] # <<>> /\ stack'[t] = Tail(stack[t])
  OBVIOUS
<1>2. /\ Tail(stack[t]) \in Seq(Frames) /\ Len(Tail(stack[t])) = Len(stack[t]) - 1
      /\ \A k \in 1..Len(stack[t]) - 1 : Tail(stack[t])[k] = stack[t][k + 1]
  BY <1>1, TailFacts
<1>3. Tail(stack[t]) # <<>>
  <2>1. Len(Tail(stack[t])) # 0
    <3>1. Len(stack[t]) \in Nat
      BY <1>1
    <3>2. Len(stack[t]) - 1 # 0
      BY <3>1
    <3>. QED BY <1>2, <3>2
  <2>2. Len(<<>>) = 0
    OBVIOUS
  <2>. QED BY <2>1, <2>2, Zenon
<1>4. stack' \in [Threads -> Seq(Frames)] /\ \A u \in Threads : u # t => stack'[u] = stack[u]
  BY <1>1, <1>2
<1>. QED BY <1>1, <1>2, <1>3, <1>4, Zenon

LEMMA FunctionFrame ==
  ASSUME NEW fr \in FunctionFrames
  PROVE  /\ fr.fun \in Functions /\ fr.todo \in Seq(BodyOps(Rank(fr.fun)))
         /\ fr.locals \in LocalsOf(VarsOf(Rank(fr.fun)))
         /\ DOMAIN fr.locals \subseteq VarsOf(Rank(fr.fun))
         /\ fr \in Frames
<1>1. PICK f \in Functions : fr \in FramesOf(f)
  BY DEF FunctionFrames
<1>2. fr.fun = f /\ fr.todo \in Seq(BodyOps(Rank(f))) /\ fr.locals \in LocalsOf(VarsOf(Rank(f)))
  BY <1>1 DEF FramesOf
<1>3. DOMAIN fr.locals \subseteq VarsOf(Rank(f))
  BY <1>2, LocalsFacts
<1>. QED BY <1>2, <1>3 DEF Frames

LEMMA AFunctionFrame ==
  ASSUME NEW f \in Functions, NEW todo \in Seq(BodyOps(Rank(f))),
         NEW locals \in LocalsOf(VarsOf(Rank(f)))
  PROVE  Frame(f, todo, locals) \in FunctionFrames
<1>1. Frame(f, todo, locals) \in FramesOf(f)
  BY DEF FramesOf, Frame
<1>. QED BY <1>1 DEF FunctionFrames

LEMMA BaseFrame ==
  ASSUME NEW t \in Threads, NEW fr \in BaseFrames(t)
  PROVE  /\ fr.fun = t /\ fr.todo \in BaseTodos /\ fr.locals \in LocalsOf(PortVars) /\ fr.todo # <<>>
         /\ fr \in Frames
<1>1. fr.fun = t /\ fr.todo \in BaseTodos /\ fr.locals \in LocalsOf(PortVars) /\ fr \in Frames
  BY DEF BaseFrames, Frames
<1>2. fr.todo # <<>>
  BY <1>1, BaseTodoFacts DEF BaseTodos
<1>. QED BY <1>1, <1>2

LEMMA ABaseFrame ==
  ASSUME NEW t \in Threads, NEW todo \in BaseTodos, NEW locals \in LocalsOf(PortVars)
  PROVE  Frame(t, todo, locals) \in BaseFrames(t)
  BY DEF BaseFrames, Frame

LEMMA FrameFacts ==
  ASSUME NEW f, NEW todo, NEW locals
  PROVE  /\ Frame(f, todo, locals).fun = f /\ Frame(f, todo, locals).todo = todo
         /\ Frame(f, todo, locals).locals = locals
  BY DEF Frame

LEMMA Depth ==
  ASSUME NEW n \in Nat \ {0}
  PROVE  /\ n # 1 => 1 \in 1..n - 1 /\ n \in 2..n
         /\ \A k \in 1..n - 1 : k \in Nat /\ (k = 1 \/ k \in 2..n)
  OBVIOUS

\* The frame a thread is in.
LEMMA TopFacts ==
  ASSUME Stacks, NEW t \in Threads
  PROVE  /\ stack[t] \in Seq(Frames) /\ stack[t] # <<>> /\ Len(stack[t]) \in Nat \ {0}
         /\ Top(t) = stack[t][1]
         /\ Len(stack[t]) = 1 => Top(t) = Base(t) /\ Top(t) \in BaseFrames(t) /\ Above(t) = {}
         /\ Len(stack[t]) # 1 =>
              /\ 1 \in Above(t) /\ Top(t) \in FunctionFrames /\ Leakless(Top(t).todo)
<1>1. stack[t] \in Seq(Frames) /\ stack[t] # <<>> /\ Len(stack[t]) \in Nat \ {0}
  BY DEF Stacks, Shape
<1>2. Top(t) = stack[t][1]
  BY <1>1 DEF Top
<1>3. CASE Len(stack[t]) = 1
  <2>1. Above(t) = {} /\ Base(t) = stack[t][1]
    <3>1. Above(t) = 1..0 /\ 1..0 = {}
      BY <1>3 DEF Above
    <3>2. Base(t) = stack[t][1]
      BY <1>3, Zenon DEF Base
    <3>. QED BY <3>1, <3>2
  <2>2. Base(t) \in BaseFrames(t)
    BY DEF Stacks, Shape
  <2>. QED BY <1>1, <1>2, <1>3, <2>1, <2>2
<1>4. CASE Len(stack[t]) # 1
  <2>1. 1 \in Above(t)
    BY <1>1, <1>4, Depth, Zenon DEF Above
  <2>2. stack[t][1] \in FunctionFrames /\ Leakless(stack[t][1].todo)
    BY <2>1 DEF Stacks, Shape
  <2>. QED BY <1>1, <1>2, <1>4, <2>1, <2>2
<1>. QED BY <1>1, <1>2, <1>3, <1>4

\* What is done next tells whether the thread is in a function.
LEMMA ThisFacts ==
  ASSUME Stacks, NEW t \in Threads
  PROVE  /\ Top(t).todo = <<>> => Len(stack[t]) # 1
         /\ Top(t).todo # <<>> /\ Len(stack[t]) # 1 =>
              This(t) \in BodyOps(Rank(Top(t).fun)) /\ This(t) = Top(t).todo[1]
         /\ Top(t).todo # <<>> /\ This(t).op \in {"listen", "guarded", "send", "recv"} =>
              Len(stack[t]) = 1
         /\ Top(t).todo # <<>> /\ This(t).op \in {"popen", "pclose", "call", "again", "ifBad", "either"} =>
              Len(stack[t]) # 1
<1>1. CASE Len(stack[t]) = 1
  <2>1. Top(t).todo \in BaseTodos /\ Top(t).todo # <<>>
    BY <1>1, TopFacts, BaseFrame
  <2>2. This(t).op \notin {"popen", "pclose", "call", "again", "ifBad", "either"}
    BY <2>1, BaseTodoFacts DEF BaseTodos, This
  <2>. QED BY <1>1, <2>1, <2>2
<1>2. CASE Len(stack[t]) # 1
  <2>1. Top(t).todo \in Seq(BodyOps(Rank(Top(t).fun)))
    BY <1>2, TopFacts, FunctionFrame
  <2>2. ASSUME Top(t).todo # <<>>
        PROVE  /\ This(t) \in BodyOps(Rank(Top(t).fun)) /\ This(t) = Top(t).todo[1]
               /\ This(t).op \notin {"listen", "guarded", "send", "recv"}
    <3>1. This(t) \in BodyOps(Rank(Top(t).fun)) /\ This(t) = Top(t).todo[1]
      BY <2>1, <2>2, TailFacts DEF This
    <3>. QED BY <3>1, OpFacts
  <2>. QED BY <1>2, <2>2
<1>. QED BY <1>1, <1>2

\* A variable names one frame of a thread.
LEMMA OneFrame ==
  ASSUME Stacks, NEW t \in Threads, NEW j \in Above(t), NEW k \in Above(t), j # k
  PROVE  /\ DOMAIN stack[t][j].locals \cap VarsOf(Rank(stack[t][k].fun)) = {}
         /\ Rank(stack[t][j].fun) # Rank(stack[t][k].fun)
<1>1. stack[t][j] \in FunctionFrames /\ stack[t][k] \in FunctionFrames
  BY DEF Stacks, Shape
<1>2. j \in Nat /\ k \in Nat /\ (j < k \/ k < j)
  BY TopFacts DEF Above
<1>3. Rank(stack[t][j].fun) # Rank(stack[t][k].fun)
  BY <1>2, OtherNames DEF Stacks, Shape
<1>. QED BY <1>1, <1>3, FunctionFrame, OtherNames

----------------------------------------------------------------------------
(* How the frames of a thread change.                                      *)

\* A step within a function.
LEMMA WithinFunction ==
  ASSUME Stacks, NEW t \in Threads, Len(stack[t]) # 1,
         NEW todo \in Seq(BodyOps(Rank(Top(t).fun))), Leakless(todo),
         NEW locals \in LocalsOf(VarsOf(Rank(Top(t).fun))),
         Continue(t, todo, locals)
  PROVE  /\ Stacks' /\ Base(t)' = Base(t) /\ Above(t)' = Above(t)
         /\ stack'[t][1] = Frame(Top(t).fun, todo, locals)
         /\ \A k \in Above(t) : k # 1 => stack'[t][k] = stack[t][k]
         /\ \A u \in Threads : u # t => stack'[u] = stack[u]
<1>. DEFINE fr == Frame(Top(t).fun, todo, locals)
<1>1. fr \in FunctionFrames /\ fr \in Frames /\ Rank(fr.fun) = Rank(stack[t][1].fun) /\ fr.todo = todo
  BY TopFacts, FunctionFrame, AFunctionFrame, FrameFacts
<1>2. stack' = [stack EXCEPT ![t][1] = fr] /\ stack \in [Threads -> Seq(Frames)] /\ stack[t] # <<>>
  BY DEF Continue, Stacks, Shape
<1>. HIDE DEF fr
<1>3. /\ stack' \in [Threads -> Seq(Frames)]
      /\ Len(stack[t]) \in Nat \ {0} /\ Len(stack'[t]) = Len(stack[t]) /\ stack'[t] # <<>>
      /\ stack'[t][1] = fr
      /\ \A k \in 2..Len(stack[t]) : stack'[t][k] = stack[t][k]
      /\ \A u \in Threads : u # t => stack'[u] = stack[u]
  BY <1>1, <1>2, Replaced
<1>4. Len(stack[t]) \in 2..Len(stack[t]) /\ \A k \in Above(t) : k = 1 \/ k \in 2..Len(stack[t])
  BY <1>3, Depth, Zenon DEF Above
<1>5. Base(t)' = Base(t) /\ Above(t)' = Above(t)
  <2>1. Above(t)' = Above(t)
    BY <1>3, Zenon DEF Above
  <2>2. Base(t)' = stack'[t][Len(stack[t])]
    BY <1>3, Zenon DEF Base
  <2>3. Base(t) = stack[t][Len(stack[t])]
    BY DEF Base
  <2>. QED BY <1>3, <1>4, <2>1, <2>2, <2>3, Zenon
<1>6. \A k \in Above(t) : k # 1 => stack'[t][k] = stack[t][k]
  BY <1>3, <1>4
<1>7. ASSUME NEW k \in Above(t)
      PROVE  /\ stack'[t][k] \in FunctionFrames /\ Leakless(stack'[t][k].todo)
             /\ Rank(stack'[t][k].fun) = Rank(stack[t][k].fun)
  <2>1. stack[t][k] \in FunctionFrames /\ Leakless(stack[t][k].todo)
    BY DEF Stacks, Shape
  <2>. QED BY <1>1, <1>3, <1>6, <2>1
<1>8. Shape(t)'
  <2>1. Base(t) \in BaseFrames(t) /\ \A j, k \in Above(t) : j < k => Rank(stack[t][j].fun) > Rank(stack[t][k].fun)
    BY DEF Stacks, Shape
  <2>2. \A j, k \in Above(t)' : j < k => Rank(stack'[t][j].fun) > Rank(stack'[t][k].fun)
    BY <1>5, <1>7, <2>1
  <2>3. (\A k \in Above(t) : stack[t][k] \in FunctionFrames /\ Leakless(stack[t][k].todo))'
    BY <1>5, <1>7
  <2>. QED BY <1>3, <1>5, <2>1, <2>2, <2>3 DEF Shape, BaseFrames
<1>9. \A u \in Threads : u # t => Shape(u)'
  BY <1>3 DEF Stacks, Shape, Base, Above, BaseFrames
<1>. QED BY <1>3, <1>5, <1>6, <1>8, <1>9 DEF Stacks, fr

\* A step of the thread itself.
LEMMA AtBase ==
  ASSUME Stacks, NEW t \in Threads, Len(stack[t]) = 1,
         NEW todo \in BaseTodos, NEW locals \in LocalsOf(PortVars),
         Continue(t, todo, locals)
  PROVE  /\ Stacks' /\ Base(t)' = Frame(t, todo, locals) /\ Above(t)' = {}
         /\ \A u \in Threads : u # t => stack'[u] = stack[u]
<1>. DEFINE fr == Frame(Top(t).fun, todo, locals)
<1>1. fr = Frame(t, todo, locals) /\ fr \in BaseFrames(t) /\ fr \in Frames
  BY TopFacts, BaseFrame, ABaseFrame
<1>2. stack' = [stack EXCEPT ![t][1] = fr] /\ stack \in [Threads -> Seq(Frames)] /\ stack[t] # <<>>
  BY DEF Continue, Stacks, Shape
<1>. HIDE DEF fr
<1>3. /\ stack' \in [Threads -> Seq(Frames)]
      /\ Len(stack'[t]) = Len(stack[t]) /\ stack'[t] # <<>>
      /\ stack'[t][1] = fr
      /\ \A u \in Threads : u # t => stack'[u] = stack[u]
  BY <1>1, <1>2, Replaced
<1>4. Base(t)' = fr /\ Above(t)' = {}
  BY <1>3 DEF Base, Above
<1>5. Shape(t)'
  BY <1>1, <1>3, <1>4 DEF Shape, BaseFrames
<1>6. \A u \in Threads : u # t => Shape(u)'
  BY <1>3 DEF Stacks, Shape, Base, Above, BaseFrames
<1>. QED BY <1>1, <1>3, <1>4, <1>5, <1>6 DEF Stacks

LEMMA Deeper ==
  ASSUME NEW n \in Nat \ {0}
  PROVE  /\ \A j \in 1..n + 1 - 1 : j = 1 \/ (j - 1 \in 1..n - 1 /\ j - 1 # 1 /\ j - 1 + 1 = j) \/ j = 2
         /\ \A j \in 1..n + 1 - 1 : j # 1 => j - 1 \in 1..n - 1 /\ (j - 1 = 1 => j = 2)
         /\ \A k \in 1..n - 1 : k + 1 \in 1..n + 1 - 1 /\ (k # 1 => k \in 2..n)
         /\ 1 \in 1..n + 1 - 1
  OBVIOUS

LEMMA Shallower ==
  ASSUME NEW n \in Nat \ {0}, n # 1
  PROVE  /\ n > 1 /\ n - 1 \in Nat \ {0}
         /\ \A j \in 1..n - 1 - 1 : j + 1 \in 1..n - 1 /\ j \in 1..n - 1
         /\ \A k \in 1..n - 1 : k # 1 => k - 1 \in 1..n - 1 - 1 /\ k - 1 + 1 = k /\ k - 1 \in 1..n - 1
         /\ n - 1 \in 1..n - 1 /\ n - 1 + 1 = n
  OBVIOUS

\* A call from a function.
LEMMA CallFromFunction ==
  ASSUME Stacks, NEW t \in Threads, Len(stack[t]) # 1,
         NEW todo \in Seq(BodyOps(Rank(Top(t).fun))), Leakless(todo),
         NEW f \in Below(Rank(Top(t).fun)), Enter(t, f, todo)
  PROVE  /\ Stacks' /\ Base(t)' = Base(t) /\ f \in Functions
         /\ 1 \in Above(t)' /\ stack'[t][1] = Frame(f, Body[f], NoLocals)
         /\ 2 \in Above(t)' /\ stack'[t][2] = Frame(Top(t).fun, todo, Top(t).locals)
         /\ \A k \in Above(t) : k # 1 => k + 1 \in Above(t)' /\ stack'[t][k + 1] = stack[t][k]
         /\ \A j \in Above(t)' : j = 1 \/ j = 2 \/ (j - 1 \in Above(t) /\ j - 1 # 1 /\ j - 1 + 1 = j)
         /\ \A u \in Threads : u # t => stack'[u] = stack[u]
<1>. DEFINE fr == Frame(f, Body[f], NoLocals)
            caller == Frame(Top(t).fun, todo, Top(t).locals)
<1>1. /\ f \in Functions /\ Rank(f) > Rank(Top(t).fun)
      /\ fr \in FunctionFrames /\ fr \in Frames /\ fr.fun = f /\ Leakless(fr.todo)
  <2>1. f \in Functions /\ Rank(f) > Rank(Top(t).fun)
    BY DEF Below
  <2>2. Body[f] \in Seq(BodyOps(Rank(f))) /\ Leakless(Body[f])
    BY <2>1, Bodies
  <2>. QED BY <2>1, <2>2, NoLocalsFacts, AFunctionFrame, FunctionFrame, FrameFacts
<1>2. /\ caller \in FunctionFrames /\ caller \in Frames /\ Leakless(caller.todo)
      /\ Rank(caller.fun) = Rank(stack[t][1].fun)
  BY TopFacts, FunctionFrame, AFunctionFrame, FrameFacts
<1>3. /\ stack' = [stack EXCEPT ![t] = <<fr, caller>> \o Tail(@)]
      /\ stack \in [Threads -> Seq(Frames)] /\ stack[t] # <<>>
  BY DEF Enter, Stacks, Shape
<1>. HIDE DEF fr, caller
<1>4. /\ stack' \in [Threads -> Seq(Frames)]
      /\ Len(stack[t]) \in Nat \ {0} /\ Len(stack'[t]) = Len(stack[t]) + 1 /\ stack'[t] # <<>>
      /\ stack'[t][1] = fr /\ stack'[t][2] = caller
      /\ \A k \in 2..Len(stack[t]) : stack'[t][k + 1] = stack[t][k]
      /\ \A u \in Threads : u # t => stack'[u] = stack[u]
  BY <1>1, <1>2, <1>3, Pushed
<1>5. Base(t)' = Base(t)
  <2>1. Len(stack[t]) \in 2..Len(stack[t])
    BY <1>4, Depth, Zenon
  <2>2. Base(t)' = stack'[t][Len(stack[t]) + 1]
    BY <1>4, Zenon DEF Base
  <2>3. Base(t) = stack[t][Len(stack[t])]
    BY DEF Base
  <2>. QED BY <1>4, <2>1, <2>2, <2>3, Zenon
<1>6. Above(t)' = 1..Len(stack[t]) + 1 - 1
  <2>1. Len(stack'[t]) = Len(stack[t]) + 1
    BY <1>4
  <2>2. Above(t)' = 1..Len(stack'[t]) - 1
    BY DEF Above
  <2>. QED BY <2>1, <2>2
<1>7. /\ \A j \in Above(t)' : j = 1 \/ (j - 1 \in Above(t) /\ j - 1 # 1 /\ j - 1 + 1 = j) \/ j = 2
      /\ \A j \in Above(t)' : j # 1 => j - 1 \in Above(t) /\ (j - 1 = 1 => j = 2)
      /\ \A k \in Above(t) : k + 1 \in Above(t)' /\ (k # 1 => k \in 2..Len(stack[t]))
      /\ 1 \in Above(t)'
  BY <1>4, <1>6, Deeper, Zenon DEF Above
<1>8. 2 \in Above(t)'
  <2>1. 1 \in Above(t)
    BY TopFacts
  <2>2. 1 + 1 \in Above(t)'
    BY <1>7, <2>1, Zenon
  <2>3. 1 + 1 = 2
    OBVIOUS
  <2>. QED BY <2>2, <2>3, Zenon
<1>9. \A k \in Above(t) : k # 1 => stack'[t][k + 1] = stack[t][k]
  BY <1>4, <1>7, Zenon
<1>10. ASSUME NEW j \in Above(t)', j # 1
       PROVE  /\ j - 1 \in Above(t) /\ stack'[t][j] \in FunctionFrames /\ Leakless(stack'[t][j].todo)
              /\ Rank(stack'[t][j].fun) = Rank(stack[t][j - 1].fun)
  <2>1. j - 1 \in Above(t) /\ (j - 1 = 1 => j = 2) /\ (j # 2 => j - 1 + 1 = j)
    BY <1>7, <1>10, Zenon
  <2>2. CASE j = 2
    BY <1>2, <1>4, <2>1, <2>2
  <2>3. CASE j # 2
    <3>1. stack'[t][j] = stack[t][j - 1]
      BY <1>7, <1>9, <1>10, <2>1, <2>3, Zenon
    <3>. QED BY <2>1, <3>1 DEF Stacks, Shape
  <2>. QED BY <2>2, <2>3
<1>11. Shape(t)'
  <2>1. Base(t)' \in BaseFrames(t)
    BY <1>5 DEF Stacks, Shape
  <2>2. \A j \in Above(t)' : stack'[t][j] \in FunctionFrames /\ Leakless(stack'[t][j].todo)
    BY <1>1, <1>4, <1>10
  <2>3. ASSUME NEW j \in Above(t)', NEW k \in Above(t)', j < k
        PROVE  Rank(stack'[t][j].fun) > Rank(stack'[t][k].fun)
    <3>0. j \in Nat \ {0} /\ k \in Nat \ {0} /\ k # 1
      BY <1>4, <1>6, <2>3
    <3>1. k - 1 \in Above(t) /\ Rank(stack'[t][k].fun) = Rank(stack[t][k - 1].fun)
      BY <1>10, <3>0
    <3>2. CASE j = 1
      <4>1. Rank(stack'[t][j].fun) > Rank(stack[t][1].fun)
        BY <1>1, <1>4, <3>2, TopFacts
      <4>2. CASE k - 1 = 1
        BY <3>1, <4>1, <4>2
      <4>3. CASE k - 1 # 1
        <5>1. 1 \in Above(t) /\ 1 < k - 1
          BY <3>0, <4>3, TopFacts
        <5>2. Rank(stack[t][1].fun) > Rank(stack[t][k - 1].fun)
          BY <3>1, <5>1 DEF Stacks, Shape
        <5>. QED BY <3>1, <4>1, <5>2, OtherNames
      <4>. QED BY <4>2, <4>3
    <3>3. CASE j # 1
      <4>1. j - 1 \in Above(t) /\ Rank(stack'[t][j].fun) = Rank(stack[t][j - 1].fun)
        BY <1>10, <3>3
      <4>2. j - 1 < k - 1
        BY <2>3, <3>0
      <4>3. Rank(stack[t][j - 1].fun) > Rank(stack[t][k - 1].fun)
        BY <3>1, <4>1, <4>2 DEF Stacks, Shape
      <4>. QED BY <3>1, <4>1, <4>3
    <3>. QED BY <3>2, <3>3
  <2>. QED BY <1>4, <2>1, <2>2, <2>3 DEF Shape, BaseFrames
<1>12. \A u \in Threads : u # t => Shape(u)'
  BY <1>4 DEF Stacks, Shape, Base, Above, BaseFrames
<1>13. Stacks'
  BY <1>4, <1>11, <1>12 DEF Stacks
<1>. QED BY <1>1, <1>4, <1>5, <1>7, <1>8, <1>9, <1>13, Zenon DEF fr, caller

\* A call from the thread itself.
LEMMA CallFromBase ==
  ASSUME Stacks, NEW t \in Threads, Len(stack[t]) = 1, NEW todo \in BaseTodos,
         NEW f \in Functions, Enter(t, f, todo)
  PROVE  /\ Stacks' /\ Base(t)' = Frame(t, todo, Base(t).locals) /\ Above(t)' = {1}
         /\ stack'[t][1] = Frame(f, Body[f], NoLocals)
         /\ \A u \in Threads : u # t => stack'[u] = stack[u]
<1>. DEFINE fr == Frame(f, Body[f], NoLocals)
            caller == Frame(Top(t).fun, todo, Top(t).locals)
<1>1. fr \in FunctionFrames /\ fr \in Frames /\ Leakless(fr.todo)
  <2>2. Body[f] \in Seq(BodyOps(Rank(f))) /\ Leakless(Body[f])
    BY Bodies
  <2>. QED BY <2>2, NoLocalsFacts, AFunctionFrame, FunctionFrame, FrameFacts
<1>2. caller = Frame(t, todo, Base(t).locals) /\ caller \in BaseFrames(t) /\ caller \in Frames
  BY TopFacts, BaseFrame, ABaseFrame
<1>3. /\ stack' = [stack EXCEPT ![t] = <<fr, caller>> \o Tail(@)]
      /\ stack \in [Threads -> Seq(Frames)] /\ stack[t] # <<>>
  BY DEF Enter, Stacks, Shape
<1>. HIDE DEF fr, caller
<1>4. /\ stack' \in [Threads -> Seq(Frames)]
      /\ Len(stack'[t]) = Len(stack[t]) + 1 /\ stack'[t] # <<>>
      /\ stack'[t][1] = fr /\ stack'[t][2] = caller
      /\ \A u \in Threads : u # t => stack'[u] = stack[u]
  BY <1>1, <1>2, <1>3, Pushed
<1>5. Base(t)' = caller /\ Above(t)' = 1..1
  BY <1>4 DEF Base, Above
<1>6. Shape(t)'
  BY <1>1, <1>2, <1>4, <1>5 DEF Shape, BaseFrames
<1>7. \A u \in Threads : u # t => Shape(u)'
  BY <1>4 DEF Stacks, Shape, Base, Above, BaseFrames
<1>. QED BY <1>2, <1>4, <1>5, <1>6, <1>7 DEF Stacks, fr

\* The return of a function.
LEMMA ReturnFromFunction ==
  ASSUME Stacks, NEW t \in Threads, Len(stack[t]) # 1,
         stack' = [stack EXCEPT ![t] = Tail(@)]
  PROVE  /\ Stacks' /\ Base(t)' = Base(t)
         /\ \A j \in Above(t)' : j + 1 \in Above(t) /\ stack'[t][j] = stack[t][j + 1]
         /\ \A k \in Above(t) : k # 1 => k - 1 \in Above(t)' /\ stack'[t][k - 1] = stack[t][k]
         /\ \A u \in Threads : u # t => stack'[u] = stack[u]
<1>1. stack \in [Threads -> Seq(Frames)] /\ Len(stack[t]) \in Nat \ {0}
  BY TopFacts DEF Stacks
<1>2. /\ Len(stack[t]) > 1
      /\ \A j \in 1..Len(stack[t]) - 1 - 1 : j + 1 \in 1..Len(stack[t]) - 1 /\ j \in 1..Len(stack[t]) - 1
      /\ \A k \in 1..Len(stack[t]) - 1 :
           k # 1 => /\ k - 1 \in 1..Len(stack[t]) - 1 - 1 /\ k - 1 + 1 = k
                    /\ k - 1 \in 1..Len(stack[t]) - 1
      /\ Len(stack[t]) - 1 \in 1..Len(stack[t]) - 1 /\ Len(stack[t]) - 1 + 1 = Len(stack[t])
  BY <1>1, Shallower, Zenon
<1>3. /\ stack' \in [Threads -> Seq(Frames)]
      /\ Len(stack'[t]) = Len(stack[t]) - 1 /\ stack'[t] # <<>>
      /\ \A k \in 1..Len(stack[t]) - 1 : stack'[t][k] = stack[t][k + 1]
      /\ \A u \in Threads : u # t => stack'[u] = stack[u]
  BY <1>1, <1>2, Popped
<1>4. Base(t)' = Base(t)
  <2>1. Base(t)' = stack'[t][Len(stack[t]) - 1]
    BY <1>3, Zenon DEF Base
  <2>. QED BY <1>2, <1>3, <2>1, Zenon DEF Base
<1>5. Above(t)' = 1..Len(stack[t]) - 1 - 1
  BY <1>3, Zenon DEF Above
<1>6. \A j \in Above(t)' : j + 1 \in Above(t) /\ stack'[t][j] = stack[t][j + 1]
  BY <1>2, <1>3, <1>5, ZenonT(40) DEF Above
<1>7. \A k \in Above(t) : k # 1 => k - 1 \in Above(t)' /\ stack'[t][k - 1] = stack[t][k]
  BY <1>2, <1>3, <1>5, ZenonT(40) DEF Above
<1>8. Shape(t)'
  <2>1. Base(t)' \in BaseFrames(t)
    BY <1>4 DEF Stacks, Shape
  <2>2. \A j \in Above(t)' : stack'[t][j] \in FunctionFrames /\ Leakless(stack'[t][j].todo)
    BY <1>6 DEF Stacks, Shape
  <2>3. ASSUME NEW j \in Above(t)', NEW k \in Above(t)', j < k
        PROVE  Rank(stack'[t][j].fun) > Rank(stack'[t][k].fun)
    <3>1. j + 1 < k + 1
      BY <1>5, <2>3
    <3>2. Rank(stack[t][j + 1].fun) > Rank(stack[t][k + 1].fun)
      BY <1>6, <3>1 DEF Stacks, Shape
    <3>. QED BY <1>6, <3>2
  <2>. QED BY <1>3, <2>1, <2>2, <2>3 DEF Shape, BaseFrames
<1>9. \A u \in Threads : u # t => Shape(u)'
  BY <1>3 DEF Stacks, Shape, Base, Above, BaseFrames
<1>. QED BY <1>3, <1>4, <1>6, <1>7, <1>8, <1>9 DEF Stacks

----------------------------------------------------------------------------
(* How the table changes.                                                  *)

\* Nothing that stands for s of u is opened, closed or given to something else.
Untouched(u, s) == \A n \in Numbers : IsFor(n, u, s) \/ IsFor(n, u, s)' => fds'[n] = fds[n]

\* The number is of no use to anyone else.
Own(n, t, s) == n \in Numbers => fds[n] = Free \/ IsFor(n, t, s)

LEMMA UntouchedFacts ==
  ASSUME NEW u, NEW s, Untouched(u, s)
  PROVE  \A n \in Numbers : IsFor(n, u, s)' <=> IsFor(n, u, s)
  BY DEF Untouched, IsFor

LEMMA UntouchedAll ==
  ASSUME fds' = fds
  PROVE  \A u, s : Untouched(u, s)
  BY DEF Untouched

LEMMA EntryFacts ==
  ASSUME TableType, NEW n \in Numbers, fds[n] # Free
  PROVE  /\ fds[n] \in Threads \X Variables \X {0, 40, 41}
         /\ fds[n][1] \in Threads /\ fds[n][2] \in Variables /\ fds[n][3] \in {0, 40, 41}
         /\ fds[n] = <<fds[n][1], fds[n][2], fds[n][3]>>
  BY DEF TableType

LEMMA Opened ==
  ASSUME TableType, NEW t \in Threads, NEW s \in Variables, NEW p \in {0, 40, 41},
         NEW n \in Numbers, Obtain(n, t, s, p)
  PROVE  /\ TableType' /\ fds[n] = Free /\ fds'[n] = <<t, s, p>>
         /\ IsFor(n, t, s)' /\ \A m \in Numbers : m # n => fds'[m] = fds[m]
         /\ \A u, v : u # t \/ v # s => Untouched(u, v)
<1>1. fds[n] = Free /\ fds' = [fds EXCEPT ![n] = <<t, s, p>>]
  BY DEF Obtain, Lowest, FreeNumbers
<1>2. fds'[n] = <<t, s, p>> /\ \A m \in Numbers : m # n => fds'[m] = fds[m]
  BY <1>1 DEF TableType
<1>3. <<t, s, p>> \in Threads \X Variables \X {0, 40, 41}
  OBVIOUS
<1>4. <<t, s, p>> # Free
  BY <1>3, ConstFacts
<1>5. TableType'
  BY <1>1, <1>3 DEF TableType
<1>6. IsFor(n, t, s)'
  BY <1>2, <1>4 DEF IsFor
<1>7. ASSUME NEW u, NEW v, u # t \/ v # s PROVE Untouched(u, v)
  <2>1. ~IsFor(n, u, v) /\ ~IsFor(n, u, v)'
    BY <1>1, <1>2, <1>7 DEF IsFor
  <2>. QED BY <1>2, <2>1 DEF Untouched
<1>. QED BY <1>1, <1>2, <1>5, <1>6, <1>7

LEMMA Closed ==
  ASSUME TableType, NEW n,
         fds' = IF n \in Numbers THEN [fds EXCEPT ![n] = Free] ELSE fds
  PROVE  /\ TableType'
         /\ \A m \in Numbers : IF m = n THEN fds'[m] = Free ELSE fds'[m] = fds[m]
  BY DEF TableType

LEMMA ClosedUntouched ==
  ASSUME NEW n, \A m \in Numbers : IF m = n THEN fds'[m] = Free ELSE fds'[m] = fds[m],
         NEW t, NEW s, Own(n, t, s), NEW u, NEW v, u # t \/ v # s
  PROVE  Untouched(u, v)
<1>1. ASSUME NEW m \in Numbers, IsFor(m, u, v) \/ IsFor(m, u, v)' PROVE fds'[m] = fds[m]
  <2>1. CASE m = n
    BY <1>1, <2>1 DEF Own, IsFor
  <2>2. CASE m # n
    BY <2>2
  <2>. QED BY <2>1, <2>2
<1>. QED BY <1>1 DEF Untouched

\* Closing is the same for a file and for a program.
LEMMA PcloseIsClose ==
  ASSUME TableType, NEW n
  PROVE  [fds EXCEPT ![n] = Free] = IF n \in Numbers THEN [fds EXCEPT ![n] = Free] ELSE fds
  BY DEF TableType

\* Who is blamed.
LEMMA TouchFacts ==
  ASSUME TableType, NEW t \in Threads, NEW s, NEW n, Touch(t, s, n)
  PROVE  /\ culprit # "none" \/ Own(n, t, s) => culprit' = culprit
         /\ culprit = "none" /\ ~Own(n, t, s) => culprit' = IF deaf[t] THEN "deaf" ELSE Top(t).fun
<1>1. ASSUME n \in Numbers, fds[n] # Free
      PROVE  <<fds[n][1], fds[n][2]>> # <<t, s>> <=> ~IsFor(n, t, s)
  BY <1>1 DEF IsFor
<1>2. n \in Numbers /\ fds[n] # Free /\ <<fds[n][1], fds[n][2]>> # <<t, s>> <=> ~Own(n, t, s)
  BY <1>1 DEF Own
<1>. QED BY <1>2 DEF Touch

\* In the end a thread is blamed only when its port has failed, and a function only
\* if it is one of the two.
LEMMA Blamed ==
  ASSUME TableType, Stacks, OnlyTheseStray, NEW t \in Threads, NEW s, NEW n, Touch(t, s, n),
         culprit = "none" /\ ~deaf[t] /\ Top(t).fun \notin Strays => Own(n, t, s)
  PROVE  /\ OnlyTheseStray'
         /\ culprit' = "none" => culprit = "none" /\ Own(n, t, s)
<1>1. culprit # "none" \/ Own(n, t, s) => culprit' = culprit
  BY TouchFacts, Zenon
<1>2. culprit = "none" /\ ~Own(n, t, s) => culprit' = IF deaf[t] THEN "deaf" ELSE Top(t).fun
  BY TouchFacts, Zenon
<1>3. CASE culprit # "none" \/ Own(n, t, s)
  BY <1>1, <1>3 DEF OnlyTheseStray
<1>4. CASE culprit = "none" /\ ~Own(n, t, s)
  <2>1. culprit' \in {"deaf"} \cup Strays
    BY <1>2, <1>4
  <2>. QED BY <1>4, <2>1 DEF OnlyTheseStray, Strays
<1>. QED BY <1>3, <1>4

----------------------------------------------------------------------------
(* What stays true of a thread.                                            *)

LEMMA OwnsKept ==
  ASSUME TableType, NEW t \in Threads, NEW s \in Variables, Untouched(t, s), Owns(t, s),
         s \in DOMAIN Base(t)'.locals, Base(t)'.locals[s] = Base(t).locals[s]
  PROVE  Owns(t, s)'
<1>1. PICK n \in Numbers : Has(t, s, n) /\ fds[n] = <<t, s, Port[t]>>
  BY DEF Owns
<1>2. IsFor(n, t, s)
  <2>1. <<t, s, Port[t]>> # Free
    BY DEF Free, Threads
  <2>. QED BY <1>1, <2>1 DEF IsFor
<1>3. fds'[n] = <<t, s, Port[t]>>
  BY <1>1, <1>2 DEF Untouched
<1>4. Has(t, s, n)'
  BY <1>1 DEF Has
<1>. QED BY <1>3, <1>4 DEF Owns

LEMMA PortKept ==
  ASSUME TableType, NEW t \in Threads, Base(t)' = Base(t), deaf'[t] = deaf[t],
         Untouched(t, "fd_srvr"), Untouched(t, "fd_clnt"), PortInv(t)
  PROVE  PortInv(t)'
<1>1. \A n \in Numbers : /\ IsFor(n, t, "fd_srvr")' <=> IsFor(n, t, "fd_srvr")
                         /\ IsFor(n, t, "fd_clnt")' <=> IsFor(n, t, "fd_clnt")
  BY UntouchedFacts
<1>2. Connected(t)' <=> Connected(t)
  BY DEF Connected, Loops, Reopen, StartSrvr, Close, Open, Listen, Recv, Send, Guarded
<1>3. \A s, n : Has(t, s, n)' <=> Has(t, s, n)
  BY DEF Has
<1>4. \A s \in {"fd_srvr", "fd_clnt"} : Owns(t, s) => Owns(t, s)'
  <2>1. ASSUME NEW s \in {"fd_srvr", "fd_clnt"}, Owns(t, s) PROVE Owns(t, s)'
    <3>1. s \in Variables /\ Untouched(t, s)
      BY DEF Variables
    <3>2. s \in DOMAIN Base(t).locals
      BY <2>1 DEF Owns, Has
    <3>. QED BY <2>1, <3>1, <3>2, OwnsKept
  <2>. QED BY <2>1
<1>5. deaf[t]' => Base(t)'.todo \in Loops
  BY DEF PortInv
<1>. QED BY <1>1, <1>2, <1>3, <1>4, <1>5 DEF PortInv

\* A thread that does nothing itself.
LEMMA OtherThread ==
  ASSUME TableType, NEW u \in Threads, stack'[u] = stack[u], deaf'[u] = deaf[u],
         \A s : Untouched(u, s), ThreadInv(u)
  PROVE  ThreadInv(u)'
<1>1. Base(u)' = Base(u) /\ Above(u)' = Above(u)
  BY DEF Base, Above
<1>2. PortInv(u)'
  BY <1>1, PortKept, ConstFacts DEF ThreadInv, PortVars
<1>3. \A s : \A n \in Numbers : IsFor(n, u, s)' <=> IsFor(n, u, s)
  BY UntouchedFacts
<1>4. HeldInv(u)'
  BY <1>1, <1>3 DEF ThreadInv, HeldInv
<1>5. \A k \in Above(u) : ReadyVars(u, k)' = ReadyVars(u, k)
  BY <1>3 DEF ReadyVars
<1>6. SoundInv(u)'
  BY <1>1, <1>5 DEF ThreadInv, SoundInv
<1>. QED BY <1>2, <1>4, <1>6 DEF ThreadInv

\* The invariant holds again when it does for the thread that has done something.
LEMMA Together ==
  ASSUME IInv, NEW t \in Threads, alive, alive' = alive, TableType', Stacks', OnlyTheseStray',
         deaf' \in [Threads -> BOOLEAN], faults' \in 0..MaxFaults,
         \A u \in Threads : u # t => stack'[u] = stack[u] /\ deaf'[u] = deaf[u],
         culprit' = "none" =>
           /\ culprit = "none"
           /\ \A u \in Threads : u # t => \A s : Untouched(u, s)
           /\ ThreadInv(t)'
  PROVE  IInv'
<1>1. TypeInv'
  BY DEF TypeInv, IInv
<1>2. ASSUME culprit' = "none", NEW u \in Threads PROVE ThreadInv(u)'
  <2>1. CASE u = t
    BY <1>2, <2>1
  <2>2. CASE u # t
    <3>1. ThreadInv(u) /\ TableType
      BY <1>2 DEF IInv, TypeInv
    <3>2. stack'[u] = stack[u] /\ deaf'[u] = deaf[u] /\ \A s : Untouched(u, s)
      BY <1>2, <2>2
    <3>. QED BY <3>1, <3>2, OtherThread
  <2>. QED BY <2>1, <2>2
<1>. QED BY <1>1, <1>2 DEF IInv

LEMMA Beginning ==
  ASSUME IInv, NEW t \in Threads
  PROVE  /\ TableType /\ Stacks /\ OnlyTheseStray /\ deaf \in [Threads -> BOOLEAN]
         /\ faults \in 0..MaxFaults
         /\ alive /\ culprit = "none" => ThreadInv(t)
  BY DEF IInv, TypeInv

LEMMA FaultFacts ==
  ASSUME faults \in 0..MaxFaults
  PROVE  \A kind : Fault(kind) => faults' \in 0..MaxFaults
  BY MaxFaultsAssumption DEF Fault

----------------------------------------------------------------------------
(* Steps within a function.                                                *)

\* The function a thread is in, and what it does next.
LEMMA InFunction ==
  ASSUME Stacks, NEW t \in Threads, Len(stack[t]) # 1
  PROVE  /\ 1 \in Above(t) /\ Top(t) = stack[t][1] /\ Top(t).fun \in Functions
         /\ Top(t).fun \notin Threads
         /\ Top(t).todo \in Seq(BodyOps(Rank(Top(t).fun))) /\ Leakless(Top(t).todo)
         /\ Top(t).locals \in LocalsOf(VarsOf(Rank(Top(t).fun)))
         /\ DOMAIN Top(t).locals \subseteq VarsOf(Rank(Top(t).fun))
         /\ VarsOf(Rank(Top(t).fun)) \subseteq Variables
         /\ VarsOf(Rank(Top(t).fun)) \cap PortVars = {}
         /\ Top(t).todo # <<>> =>
              /\ This(t) = Top(t).todo[1] /\ This(t) \in BodyOps(Rank(Top(t).fun))
              /\ Rest(t) = Tail(Top(t).todo)
              /\ Rest(t) \in Seq(BodyOps(Rank(Top(t).fun))) /\ Leakless(Rest(t))
<1>1. /\ 1 \in Above(t) /\ Top(t) = stack[t][1] /\ Top(t) \in FunctionFrames
      /\ Leakless(Top(t).todo)
  BY TopFacts
<1>2. /\ Top(t).fun \in Functions
      /\ Top(t).todo \in Seq(BodyOps(Rank(Top(t).fun)))
      /\ Top(t).locals \in LocalsOf(VarsOf(Rank(Top(t).fun)))
      /\ DOMAIN Top(t).locals \subseteq VarsOf(Rank(Top(t).fun))
  BY <1>1, FunctionFrame
<1>3. /\ VarsOf(Rank(Top(t).fun)) \subseteq Variables /\ VarsOf(Rank(Top(t).fun)) \cap PortVars = {}
      /\ Top(t).fun \notin Threads
  BY <1>2, OtherNames, ConstFacts
<1>4. ASSUME Top(t).todo # <<>>
      PROVE  /\ This(t) = Top(t).todo[1] /\ This(t) \in BodyOps(Rank(Top(t).fun))
             /\ Rest(t) = Tail(Top(t).todo)
             /\ Rest(t) \in Seq(BodyOps(Rank(Top(t).fun))) /\ Leakless(Rest(t))
  BY <1>1, <1>2, <1>4, TailFacts, LeaklessTail DEF This, Rest
<1>. QED BY <1>1, <1>2, <1>3, <1>4

\* A number that stands for a variable of the function is the value of that variable.
LEMMA HeldHere ==
  ASSUME Stacks, NEW t \in Threads, Len(stack[t]) # 1, HeldInv(t),
         NEW s \in VarsOf(Rank(Top(t).fun)), NEW n \in Numbers, IsFor(n, t, s)
  PROVE  s \in DOMAIN Top(t).locals /\ Top(t).locals[s] = n /\ Covered(Top(t).todo, 1, s)
<1>1. s \in Variables \ PortVars /\ 1 \in Above(t) /\ Top(t) = stack[t][1]
  BY InFunction
<1>2. PICK k \in Above(t) :
        /\ s \in DOMAIN stack[t][k].locals /\ stack[t][k].locals[s] = n
        /\ Covered(stack[t][k].todo, 1, s)
  BY <1>1 DEF HeldInv
<1>3. k = 1
  <2>1. SUFFICES ASSUME k # 1 PROVE FALSE
    OBVIOUS
  <2>2. DOMAIN stack[t][k].locals \cap VarsOf(Rank(stack[t][1].fun)) = {}
    BY <1>1, <2>1, OneFrame
  <2>. QED BY <1>1, <1>2, <2>2
<1>. QED BY <1>1, <1>2, <1>3

\* The variables that are ready after a step that leaves locals in the frame.
ReadyNext(t, locals) ==
  {s \in DOMAIN locals : locals[s] = Invalid \/ \E n \in Numbers : locals[s] = n /\ IsFor(n, t, s)'}

LEMMA ReadyKept ==
  ASSUME NEW t, NEW k, NEW locals, NEW s \in ReadyVars(t, k), Untouched(t, s),
         s \in DOMAIN locals, locals[s] = stack[t][k].locals[s]
  PROVE  s \in ReadyNext(t, locals)
  BY UntouchedFacts DEF ReadyVars, ReadyNext

\* What holds of the frames below goes on.
LEMMA FramesBelow ==
  ASSUME Stacks, NEW t \in Threads, Len(stack[t]) # 1, SoundInv(t), NEW s \in VarsOf(Rank(Top(t).fun)),
         \A v : v # s => Untouched(t, v), NEW k \in Above(t), k # 1, stack[t][k].fun \notin Strays
  PROVE  Sound(stack[t][k].todo, ReadyNext(t, stack[t][k].locals))
<1>1. 1 \in Above(t) /\ Top(t) = stack[t][1]
  BY InFunction
<1>2. s \notin DOMAIN stack[t][k].locals
  BY <1>1, OneFrame
<1>3. Sound(stack[t][k].todo, ReadyVars(t, k))
  BY DEF SoundInv
<1>4. ReadyVars(t, k) \subseteq ReadyNext(t, stack[t][k].locals)
  <2>1. ASSUME NEW v \in ReadyVars(t, k) PROVE v \in ReadyNext(t, stack[t][k].locals)
    <3>1. v \in DOMAIN stack[t][k].locals
      BY DEF ReadyVars
    <3>2. Untouched(t, v)
      BY <1>2, <3>1
    <3>. QED BY <3>1, <3>2, ReadyKept
  <2>. QED BY <2>1
<1>. QED BY <1>3, <1>4, SoundMore

\* An operation on s.
LEMMA FunctionStep ==
  ASSUME TableType, Stacks, NEW t \in Threads, Len(stack[t]) # 1, ThreadInv(t),
         NEW todo \in Seq(BodyOps(Rank(Top(t).fun))), Leakless(todo),
         NEW locals \in LocalsOf(VarsOf(Rank(Top(t).fun))),
         Continue(t, todo, locals), deaf' = deaf,
         NEW s \in VarsOf(Rank(Top(t).fun)),
         \A v : v # s => Untouched(t, v),
         \A v \in DOMAIN Top(t).locals : v # s => v \in DOMAIN locals /\ locals[v] = Top(t).locals[v],
         \A v : v # s /\ Covered(Top(t).todo, 1, v) => Covered(todo, 1, v),
         \A n \in Numbers : IsFor(n, t, s)' =>
           s \in DOMAIN locals /\ locals[s] = n /\ Covered(todo, 1, s),
         Top(t).fun \notin Strays /\ Sound(Top(t).todo, ReadyVars(t, 1))
         /\ ReadyVars(t, 1) \ {s} \subseteq ReadyNext(t, locals) =>
           Sound(todo, ReadyNext(t, locals))
  PROVE  ThreadInv(t)'
<1>1. /\ Base(t)' = Base(t) /\ Above(t)' = Above(t)
      /\ stack'[t][1] = Frame(Top(t).fun, todo, locals)
      /\ \A k \in Above(t) : k # 1 => stack'[t][k] = stack[t][k]
  BY WithinFunction
<1>2. /\ stack'[t][1].fun = Top(t).fun /\ stack'[t][1].todo = todo /\ stack'[t][1].locals = locals
  BY <1>1, FrameFacts
<1>3. 1 \in Above(t) /\ Top(t) = stack[t][1] /\ s \in Variables \ PortVars
  BY InFunction
<1>4. PortInv(t)'
  <2>1. Untouched(t, "fd_srvr") /\ Untouched(t, "fd_clnt")
    BY <1>3 DEF PortVars
  <2>. QED BY <1>1, <2>1, PortKept DEF ThreadInv
<1>5. HeldInv(t)'
  <2>1. ASSUME NEW n \in Numbers, NEW v \in Variables \ PortVars, IsFor(n, t, v)'
        PROVE  \E k \in Above(t) :
                 /\ v \in DOMAIN stack'[t][k].locals /\ stack'[t][k].locals[v] = n
                 /\ Covered(stack'[t][k].todo, 1, v)
    <3>1. CASE v = s
      BY <1>2, <1>3, <2>1, <3>1
    <3>2. CASE v # s
      <4>1. IsFor(n, t, v)
        BY <2>1, <3>2, UntouchedFacts
      <4>2. PICK k \in Above(t) :
              /\ v \in DOMAIN stack[t][k].locals /\ stack[t][k].locals[v] = n
              /\ Covered(stack[t][k].todo, 1, v)
        BY <4>1 DEF ThreadInv, HeldInv
      <4>3. CASE k = 1
        BY <1>2, <1>3, <3>2, <4>2, <4>3
      <4>4. CASE k # 1
        BY <1>1, <4>2, <4>4
      <4>. QED BY <4>3, <4>4
    <3>. QED BY <3>1, <3>2
  <2>. QED BY <1>1, <2>1 DEF HeldInv
<1>6. SoundInv(t)'
  <2>1. ASSUME NEW k \in Above(t), stack'[t][k].fun \notin Strays
        PROVE  Sound(stack'[t][k].todo, ReadyNext(t, stack'[t][k].locals))
    <3>1. CASE k = 1
      <4>1. Sound(Top(t).todo, ReadyVars(t, 1))
        BY <1>2, <1>3, <2>1, <3>1 DEF ThreadInv, SoundInv
      <4>2. ASSUME NEW v \in ReadyVars(t, 1), v # s PROVE v \in ReadyNext(t, locals)
        <5>1. v \in DOMAIN Top(t).locals
          BY <1>3 DEF ReadyVars
        <5>2. v \in DOMAIN locals /\ locals[v] = stack[t][1].locals[v] /\ Untouched(t, v)
          BY <1>3, <4>2, <5>1
        <5>. QED BY <5>2, ReadyKept
      <4>. QED BY <1>2, <2>1, <3>1, <4>1, <4>2
    <3>2. CASE k # 1
      <4>1. stack'[t][k] = stack[t][k]
        BY <1>1, <3>2
      <4>. QED BY <2>1, <3>2, <4>1, FramesBelow DEF ThreadInv
    <3>. QED BY <3>1, <3>2
  <2>2. \A k : ReadyVars(t, k)' = ReadyNext(t, stack'[t][k].locals)
    BY DEF ReadyVars, ReadyNext
  <2>. QED BY <1>1, <2>1, <2>2 DEF SoundInv
<1>. QED BY <1>4, <1>5, <1>6 DEF ThreadInv

\* open() and popen(): with a number, or without.
LEMMA OpenInFunction ==
  ASSUME IInv, NEW t \in Threads, alive, Len(stack[t]) # 1, Top(t).todo # <<>>,
         This(t).op \in {"open", "popen"}, NEW s, s = This(t).var, NEW n \in Values,
         \/ n \in Numbers /\ Obtain(n, t, s, 0) /\ UNCHANGED faults
         \/ n = Invalid /\ UNCHANGED fds /\ Fault("open"),
         Assign(t, s, n), UNCHANGED <<deaf, alive, culprit>>
  PROVE  IInv'
<1>. DEFINE q == Top(t).todo
            locals == With(Top(t).locals, s, n)
            r == Rank(Top(t).fun)
<1>1. /\ TableType /\ Stacks /\ OnlyTheseStray /\ deaf \in [Threads -> BOOLEAN]
      /\ faults \in 0..MaxFaults
      /\ culprit = "none" => ThreadInv(t)
  BY Beginning
<1>2. /\ q \in Seq(BodyOps(r)) /\ q # <<>> /\ q[1] = This(t) /\ This(t) \in BodyOps(r)
      /\ Rest(t) = Tail(q) /\ Rest(t) \in Seq(BodyOps(r)) /\ Leakless(Rest(t)) /\ Leakless(q)
      /\ Top(t).locals \in LocalsOf(VarsOf(r))
      /\ VarsOf(r) \subseteq Variables
  BY <1>1, InFunction
<1>3. /\ Opens(q[1]) /\ q[1].var = s /\ s \in VarsOf(r) /\ s \in Variables
      /\ \A v : ~ClosesIt(q[1], v)
  <2>1. Opens(q[1]) /\ ~Closes(q[1])
    BY <1>2 DEF Opens, Closes
  <2>. QED BY <1>2, <2>1, OpFacts DEF ClosesIt
<1>4. /\ locals \in LocalsOf(VarsOf(r)) /\ s \in DOMAIN locals /\ locals[s] = n
      /\ \A v \in DOMAIN Top(t).locals : v # s => v \in DOMAIN locals /\ locals[v] = Top(t).locals[v]
  <2>1. Top(t).locals \in LocalsOf(VarsOf(r)) /\ s \in VarsOf(r) /\ n \in Values
    BY <1>2, <1>3
  <2>2. /\ locals \in LocalsOf(VarsOf(r))
        /\ DOMAIN locals = DOMAIN Top(t).locals \cup {s}
        /\ locals[s] = n
        /\ \A v \in DOMAIN Top(t).locals : v # s => locals[v] = Top(t).locals[v]
    <3>1. locals \in LocalsOf(VarsOf(r))
      BY <2>1, WithType
    <3>2. DOMAIN locals = DOMAIN Top(t).locals \cup {s}
      BY DEF With
    <3>3. locals[s] = n
      BY DEF With
    <3>4. \A v \in DOMAIN Top(t).locals : v # s => locals[v] = Top(t).locals[v]
      BY DEF With
    <3>. QED BY <3>1, <3>2, <3>3, <3>4
  <2>. QED BY <2>2
<1>5. Continue(t, Rest(t), locals)
  BY DEF Assign
<1>. HIDE DEF locals
<1>6. /\ TableType' /\ faults' \in 0..MaxFaults
      /\ \A u, v : u # t \/ v # s => Untouched(u, v)
      /\ \A m \in Numbers : IsFor(m, t, s)' => m = n \/ IsFor(m, t, s)
      /\ n = Invalid \/ (n \in Numbers /\ IsFor(n, t, s)')
  <2>1. CASE n \in Numbers /\ Obtain(n, t, s, 0) /\ UNCHANGED faults
    <3>1. /\ TableType' /\ IsFor(n, t, s)' /\ \A m \in Numbers : m # n => fds'[m] = fds[m]
          /\ \A u, v : u # t \/ v # s => Untouched(u, v)
      BY <1>1, <1>3, <2>1, Opened
    <3>. QED BY <1>1, <2>1, <3>1 DEF IsFor
  <2>2. CASE n = Invalid /\ UNCHANGED fds /\ Fault("open")
    BY <1>1, <2>2, UntouchedAll, FaultFacts DEF TableType, IsFor
  <2>. QED BY <2>1, <2>2
<1>7. Stacks' /\ \A u \in Threads : u # t => stack'[u] = stack[u]
  BY <1>1, <1>2, <1>4, <1>5, WithinFunction
<1>8. ASSUME culprit = "none" PROVE ThreadInv(t)'
  <2>1. \A v : v # s /\ Covered(q, 1, v) => Covered(Rest(t), 1, v)
    BY <1>2, <1>3, CoveredTail
  <2>2. ASSUME NEW m \in Numbers, IsFor(m, t, s)'
        PROVE  s \in DOMAIN locals /\ locals[s] = m /\ Covered(Rest(t), 1, s)
    <3>1. m = n
      <4>1. SUFFICES ASSUME IsFor(m, t, s) PROVE FALSE
        BY <1>6, <2>2
      <4>2. Covered(q, 1, s)
        BY <1>1, <1>3, <1>8, <4>1, HeldHere DEF ThreadInv
      <4>. QED BY <1>2, <1>3, <4>2, CoveredTail DEF OpensIt
    <3>2. Covered(Rest(t), 1, s)
      BY <1>2, <1>3, LeaklessTail
    <3>. QED BY <1>4, <3>1, <3>2
  <2>3. ASSUME Sound(q, ReadyVars(t, 1)), ReadyVars(t, 1) \ {s} \subseteq ReadyNext(t, locals)
        PROVE  Sound(Rest(t), ReadyNext(t, locals))
    <3>1. s \in ReadyNext(t, locals)
      BY <1>4, <1>6 DEF ReadyNext
    <3>. QED BY <1>2, <1>3, <2>3, <3>1, SoundTail
  <2>. QED BY <1>1, <1>2, <1>3, <1>4, <1>5, <1>6, <1>8, <2>1, <2>2, <2>3, FunctionStep
<1>9. OnlyTheseStray'
  BY <1>1 DEF OnlyTheseStray
<1>. QED BY <1>1, <1>6, <1>7, <1>8, <1>9, Together

\* close() and pclose().
LEMMA CloseInFunction ==
  ASSUME IInv, NEW t \in Threads, alive, Len(stack[t]) # 1, Top(t).todo # <<>>,
         This(t).op \in {"close", "pclose"}, NEW s, s = This(t).var, NEW n,
         s \in DOMAIN Top(t).locals => n = Top(t).locals[s],
         fds' = IF n \in Numbers THEN [fds EXCEPT ![n] = Free] ELSE fds,
         Touch(t, s, n), Go(t), UNCHANGED <<deaf, alive, faults>>
  PROVE  IInv'
<1>. DEFINE q == Top(t).todo
            r == Rank(Top(t).fun)
<1>1. /\ TableType /\ Stacks /\ OnlyTheseStray /\ deaf \in [Threads -> BOOLEAN]
      /\ faults \in 0..MaxFaults
      /\ culprit = "none" => ThreadInv(t)
  BY Beginning
<1>2. /\ q \in Seq(BodyOps(r)) /\ q # <<>> /\ q[1] = This(t) /\ This(t) \in BodyOps(r)
      /\ Rest(t) = Tail(q) /\ Rest(t) \in Seq(BodyOps(r)) /\ Leakless(Rest(t))
      /\ Top(t).locals \in LocalsOf(VarsOf(r))
      /\ VarsOf(r) \subseteq Variables /\ Top(t) = stack[t][1] /\ 1 \in Above(t)
  BY <1>1, InFunction
<1>3. /\ Closes(q[1]) /\ ~Opens(q[1]) /\ q[1].var = s /\ s \in VarsOf(r) /\ s \in Variables
  <2>1. Closes(q[1]) /\ ~Opens(q[1])
    BY <1>2 DEF Opens, Closes
  <2>. QED BY <1>2, <2>1, OpFacts
<1>4. Continue(t, Rest(t), Top(t).locals)
  BY DEF Go
<1>5. Stacks' /\ \A u \in Threads : u # t => stack'[u] = stack[u]
  BY <1>1, <1>2, <1>4, WithinFunction
<1>6. /\ TableType'
      /\ \A m \in Numbers : IF m = n THEN fds'[m] = Free ELSE fds'[m] = fds[m]
      /\ Own(n, t, s) => \A u, v : u # t \/ v # s => Untouched(u, v)
  <2>1. TableType' /\ \A m \in Numbers : IF m = n THEN fds'[m] = Free ELSE fds'[m] = fds[m]
    BY <1>1, Closed
  <2>2. ASSUME Own(n, t, s), NEW u, NEW v, u # t \/ v # s PROVE Untouched(u, v)
    BY <2>1, <2>2, ClosedUntouched
  <2>. QED BY <2>1, <2>2
<1>7. ASSUME culprit = "none", Top(t).fun \notin Strays PROVE Own(n, t, s)
  <2>1. Sound(q, ReadyVars(t, 1))
    BY <1>1, <1>2, <1>7 DEF ThreadInv, SoundInv
  <2>2. s \in ReadyVars(t, 1)
    BY <1>2, <1>3, <2>1, SoundClose
  <2>3. n = Invalid \/ \E m \in Numbers : n = m /\ IsFor(m, t, s)
    BY <1>2, <2>2 DEF ReadyVars
  <2>. QED BY <2>3, ConstFacts DEF Own
<1>8. OnlyTheseStray' /\ (culprit' = "none" => culprit = "none" /\ Own(n, t, s))
  <2>1. culprit = "none" /\ ~deaf[t] /\ Top(t).fun \notin Strays => Own(n, t, s)
    BY <1>7
  <2>. QED BY <1>1, <2>1, Blamed
<1>9. ASSUME culprit' = "none" PROVE ThreadInv(t)'
  <2>1. \A v : v # s /\ Covered(q, 1, v) => Covered(Rest(t), 1, v)
    BY <1>2, <1>3, CoveredTail DEF ClosesIt
  <2>2. ASSUME NEW m \in Numbers, IsFor(m, t, s)' PROVE FALSE
    <3>1. m # n /\ fds'[m] = fds[m]
      BY <1>6, <2>2 DEF IsFor
    <3>2. IsFor(m, t, s)
      BY <2>2, <3>1 DEF IsFor
    <3>3. s \in DOMAIN Top(t).locals /\ Top(t).locals[s] = m
      BY <1>1, <1>3, <1>8, <1>9, <3>2, HeldHere DEF ThreadInv
    <3>. QED BY <3>1, <3>3
  <2>3. ASSUME Sound(q, ReadyVars(t, 1)), ReadyVars(t, 1) \ {s} \subseteq ReadyNext(t, Top(t).locals)
        PROVE  Sound(Rest(t), ReadyNext(t, Top(t).locals))
    <3>1. \A v \in ReadyVars(t, 1) : ~ClosesIt(q[1], v) => v \in ReadyNext(t, Top(t).locals)
      BY <1>3, <2>3 DEF ClosesIt
    <3>. QED BY <1>2, <1>3, <2>3, <3>1, SoundTail
  <2>4. \A v : v # s => Untouched(t, v)
    BY <1>6, <1>8, <1>9
  <2>5. TableType /\ Stacks /\ ThreadInv(t)
    BY <1>1, <1>8, <1>9
  <2>6. deaf' = deaf
    OBVIOUS
  <2>. QED BY <1>2, <1>3, <1>4, <2>1, <2>2, <2>3, <2>4, <2>5, <2>6, FunctionStep
<1>. QED BY <1>1, <1>5, <1>6, <1>8, <1>9, Together

----------------------------------------------------------------------------
(* Control.                                                                *)

\* Operations that neither open nor close.
LEMMA Passing ==
  ASSUME Stacks, NEW t \in Threads, Len(stack[t]) # 1, Top(t).todo # <<>>,
         This(t).op \in {"call", "again", "ifBad", "either"}
  PROVE  /\ \A v : Covered(Top(t).todo, 1, v) => Covered(Rest(t), 1, v)
         /\ \A R : Sound(Top(t).todo, R) => Sound(Rest(t), R)
<1>. DEFINE q == Top(t).todo
            r == Rank(Top(t).fun)
<1>1. q \in Seq(BodyOps(r)) /\ q # <<>> /\ q[1] = This(t) /\ Rest(t) = Tail(q)
  BY InFunction
<1>2. ~Opens(q[1]) /\ \A v : ~ClosesIt(q[1], v)
  BY <1>1 DEF Opens, Closes, ClosesIt
<1>3. \A v : Covered(q, 1, v) => Covered(Rest(t), 1, v)
  BY <1>1, <1>2, CoveredTail
<1>4. \A R : Sound(q, R) => Sound(Rest(t), R)
  BY <1>1, <1>2, SoundTail
<1>. QED BY <1>3, <1>4

LEMMA ReadyUnchanged ==
  ASSUME fds' = fds, NEW t, NEW k
  PROVE  ReadyNext(t, stack[t][k].locals) = ReadyVars(t, k)
  BY DEF ReadyNext, ReadyVars, IsFor

LEMMA ControlStep ==
  ASSUME IInv, NEW t \in Threads, alive, Len(stack[t]) # 1,
         NEW todo \in Seq(BodyOps(Rank(Top(t).fun))), Leakless(todo),
         Continue(t, todo, Top(t).locals), UNCHANGED <<fds, deaf, alive, faults, culprit>>,
         NEW s \in VarsOf(Rank(Top(t).fun)),
         \A v : Covered(Top(t).todo, 1, v) =>
           Covered(todo, 1, v) \/ (v = s /\ Top(t).locals[s] = Invalid),
         \A R : Sound(Top(t).todo, R) => Sound(todo, R)
  PROVE  IInv'
<1>1. /\ TableType /\ Stacks /\ OnlyTheseStray /\ deaf \in [Threads -> BOOLEAN]
      /\ faults \in 0..MaxFaults
      /\ culprit = "none" => ThreadInv(t)
  BY Beginning
<1>2. /\ Top(t).locals \in LocalsOf(VarsOf(Rank(Top(t).fun)))
      /\ Top(t) = stack[t][1] /\ 1 \in Above(t)
  BY <1>1, InFunction
<1>3. Stacks' /\ \A u \in Threads : u # t => stack'[u] = stack[u]
  BY <1>1, <1>2, WithinFunction
<1>4. TableType' /\ OnlyTheseStray' /\ \A u, v : Untouched(u, v)
  BY <1>1, UntouchedAll DEF TableType, OnlyTheseStray
<1>5. ASSUME culprit = "none" PROVE ThreadInv(t)'
  <2>1. ASSUME NEW n \in Numbers, IsFor(n, t, s)'
        PROVE  s \in DOMAIN Top(t).locals /\ Top(t).locals[s] = n /\ Covered(todo, 1, s)
    <3>1. IsFor(n, t, s)
      BY <2>1 DEF IsFor
    <3>2. s \in DOMAIN Top(t).locals /\ Top(t).locals[s] = n /\ Covered(Top(t).todo, 1, s)
      BY <1>1, <1>5, <3>1, HeldHere DEF ThreadInv
    <3>3. Top(t).locals[s] # Invalid
      BY <3>2, ConstFacts
    <3>. QED BY <3>2, <3>3
  <2>2. ASSUME Sound(Top(t).todo, ReadyVars(t, 1)) PROVE Sound(todo, ReadyNext(t, Top(t).locals))
    BY <1>2, <2>2, ReadyUnchanged
  <2>3. \A v : v # s /\ Covered(Top(t).todo, 1, v) => Covered(todo, 1, v)
    OBVIOUS
  <2>4. deaf' = deaf /\ ThreadInv(t)
    BY <1>1, <1>5
  <2>. QED BY <1>1, <1>2, <1>4, <2>1, <2>2, <2>3, <2>4, FunctionStep
<1>. QED BY <1>1, <1>3, <1>4, <1>5, Together

LEMMA CallStep ==
  ASSUME IInv, NEW t \in Threads, alive, Len(stack[t]) # 1,
         NEW todo \in Seq(BodyOps(Rank(Top(t).fun))), Leakless(todo),
         NEW f \in Below(Rank(Top(t).fun)), Enter(t, f, todo),
         UNCHANGED <<fds, deaf, alive, faults, culprit>>,
         \A v : Covered(Top(t).todo, 1, v) => Covered(todo, 1, v),
         \A R : Sound(Top(t).todo, R) => Sound(todo, R)
  PROVE  IInv'
<1>1. /\ TableType /\ Stacks /\ OnlyTheseStray /\ deaf \in [Threads -> BOOLEAN]
      /\ faults \in 0..MaxFaults
      /\ culprit = "none" => ThreadInv(t)
  BY Beginning
<1>2. /\ Stacks' /\ Base(t)' = Base(t) /\ f \in Functions
      /\ 1 \in Above(t)' /\ stack'[t][1] = Frame(f, Body[f], NoLocals)
      /\ 2 \in Above(t)' /\ stack'[t][2] = Frame(Top(t).fun, todo, Top(t).locals)
      /\ \A k \in Above(t) : k # 1 => k + 1 \in Above(t)' /\ stack'[t][k + 1] = stack[t][k]
      /\ \A j \in Above(t)' : j = 1 \/ j = 2 \/ (j - 1 \in Above(t) /\ j - 1 # 1 /\ j - 1 + 1 = j)
      /\ \A u \in Threads : u # t => stack'[u] = stack[u]
  BY <1>1, CallFromFunction
<1>3. /\ stack'[t][1].fun = f /\ stack'[t][1].todo = Body[f]
      /\ stack'[t][2].fun = Top(t).fun /\ stack'[t][2].todo = todo /\ stack'[t][2].locals = Top(t).locals
      /\ Top(t) = stack[t][1] /\ 1 \in Above(t)
  BY <1>1, <1>2, FrameFacts, InFunction
<1>4. TableType' /\ OnlyTheseStray' /\ \A u, v : Untouched(u, v)
  BY <1>1, UntouchedAll DEF TableType, OnlyTheseStray
<1>5. ASSUME culprit = "none" PROVE ThreadInv(t)'
  <2>1. PortInv(t)'
    BY <1>1, <1>2, <1>4, <1>5, PortKept DEF ThreadInv
  <2>2. ASSUME NEW n \in Numbers, NEW v \in Variables \ PortVars, IsFor(n, t, v)'
        PROVE  \E k \in Above(t)' :
                 /\ v \in DOMAIN stack'[t][k].locals /\ stack'[t][k].locals[v] = n
                 /\ Covered(stack'[t][k].todo, 1, v)
    <3>1. IsFor(n, t, v)
      BY <2>2 DEF IsFor
    <3>2. PICK k \in Above(t) :
            /\ v \in DOMAIN stack[t][k].locals /\ stack[t][k].locals[v] = n
            /\ Covered(stack[t][k].todo, 1, v)
      BY <1>1, <1>5, <3>1 DEF ThreadInv, HeldInv
    <3>3. CASE k = 1
      BY <1>2, <1>3, <3>2, <3>3
    <3>4. CASE k # 1
      BY <1>2, <3>2, <3>4
    <3>. QED BY <3>3, <3>4
  <2>3. ASSUME NEW j \in Above(t)', stack'[t][j].fun \notin Strays
        PROVE  Sound(stack'[t][j].todo, ReadyNext(t, stack'[t][j].locals))
    <3>1. CASE j = 1
      <4>1. Sound(Body[f], {})
        BY <1>2, <1>3, <2>3, <3>1, Bodies
      <4>2. Sound(Body[f], ReadyNext(t, stack'[t][j].locals))
        BY <4>1, SoundMore
      <4>. QED BY <1>3, <3>1, <4>2
    <3>2. CASE j = 2
      <4>1. Sound(Top(t).todo, ReadyVars(t, 1))
        BY <1>1, <1>3, <1>5, <2>3, <3>2 DEF ThreadInv, SoundInv
      <4>. QED BY <1>3, <3>2, <4>1, ReadyUnchanged
    <3>3. CASE j # 1 /\ j # 2
      <4>1. j - 1 \in Above(t) /\ stack'[t][j] = stack[t][j - 1]
        BY <1>2, <3>3
      <4>2. Sound(stack[t][j - 1].todo, ReadyVars(t, j - 1))
        BY <1>1, <1>5, <2>3, <4>1 DEF ThreadInv, SoundInv
      <4>. QED BY <4>1, <4>2, ReadyUnchanged
    <3>. QED BY <3>1, <3>2, <3>3
  <2>4. \A k : ReadyVars(t, k)' = ReadyNext(t, stack'[t][k].locals)
    BY DEF ReadyVars, ReadyNext
  <2>5. HeldInv(t)'
    BY <2>2 DEF HeldInv
  <2>6. SoundInv(t)'
    BY <2>3, <2>4 DEF SoundInv
  <2>. QED BY <2>1, <2>5, <2>6 DEF ThreadInv
<1>6. deaf' \in [Threads -> BOOLEAN] /\ faults' \in 0..MaxFaults
      /\ \A u \in Threads : deaf'[u] = deaf[u]
  BY <1>1
<1>. QED BY <1>1, <1>2, <1>4, <1>5, <1>6, Together

LEMMA ReturnStep ==
  ASSUME IInv, NEW t \in Threads, DoReturn(t), UNCHANGED <<fds, deaf, alive, faults, culprit>>
  PROVE  IInv'
<1>1. /\ TableType /\ Stacks /\ OnlyTheseStray /\ deaf \in [Threads -> BOOLEAN]
      /\ faults \in 0..MaxFaults
      /\ alive /\ culprit = "none" => ThreadInv(t)
  BY Beginning
<1>2. alive /\ Top(t).todo = <<>> /\ stack' = [stack EXCEPT ![t] = Tail(@)]
  BY DEF DoReturn
<1>3. Len(stack[t]) # 1 /\ Top(t) = stack[t][1]
  BY <1>1, <1>2, ThisFacts, TopFacts
<1>4. /\ Stacks' /\ Base(t)' = Base(t)
      /\ \A j \in Above(t)' : j + 1 \in Above(t) /\ stack'[t][j] = stack[t][j + 1]
      /\ \A k \in Above(t) : k # 1 => k - 1 \in Above(t)' /\ stack'[t][k - 1] = stack[t][k]
      /\ \A u \in Threads : u # t => stack'[u] = stack[u]
  BY <1>1, <1>2, <1>3, ReturnFromFunction
<1>5. TableType' /\ OnlyTheseStray' /\ \A u, v : Untouched(u, v)
  BY <1>1, UntouchedAll DEF TableType, OnlyTheseStray
<1>6. ASSUME culprit = "none" PROVE ThreadInv(t)'
  <2>0. ThreadInv(t) /\ deaf' = deaf
    BY <1>1, <1>2, <1>6
  <2>1. PortInv(t)'
    BY <1>1, <1>4, <1>5, <2>0, PortKept DEF ThreadInv
  <2>2. ASSUME NEW n \in Numbers, NEW v \in Variables \ PortVars, IsFor(n, t, v)'
        PROVE  \E k \in Above(t)' :
                 /\ v \in DOMAIN stack'[t][k].locals /\ stack'[t][k].locals[v] = n
                 /\ Covered(stack'[t][k].todo, 1, v)
    <3>1. IsFor(n, t, v)
      BY <2>2 DEF IsFor
    <3>2. PICK k \in Above(t) :
            /\ v \in DOMAIN stack[t][k].locals /\ stack[t][k].locals[v] = n
            /\ Covered(stack[t][k].todo, 1, v)
      BY <2>0, <3>1 DEF ThreadInv, HeldInv
    <3>3. ~Covered(<<>>, 1, v)
      BY DEF Covered
    <3>4. k # 1
      BY <1>2, <1>3, <3>2, <3>3
    <3>. QED BY <1>4, <3>2, <3>4
  <2>3. ASSUME NEW j \in Above(t)', stack'[t][j].fun \notin Strays
        PROVE  Sound(stack'[t][j].todo, ReadyNext(t, stack'[t][j].locals))
    <3>1. j + 1 \in Above(t) /\ stack'[t][j] = stack[t][j + 1]
      BY <1>4
    <3>2. Sound(stack[t][j + 1].todo, ReadyVars(t, j + 1))
      BY <2>0, <2>3, <3>1 DEF ThreadInv, SoundInv
    <3>. QED BY <3>1, <3>2, ReadyUnchanged
  <2>4. \A k : ReadyVars(t, k)' = ReadyNext(t, stack'[t][k].locals)
    BY DEF ReadyVars, ReadyNext
  <2>5. HeldInv(t)'
    BY <2>2 DEF HeldInv
  <2>6. SoundInv(t)'
    BY <2>3, <2>4 DEF SoundInv
  <2>. QED BY <2>1, <2>5, <2>6 DEF ThreadInv
<1>7. deaf' \in [Threads -> BOOLEAN] /\ faults' \in 0..MaxFaults
      /\ \A u \in Threads : deaf'[u] = deaf[u]
  BY <1>1
<1>. QED BY <1>1, <1>2, <1>4, <1>5, <1>6, <1>7, Together

LEMMA ControlInv ==
  ASSUME IInv, NEW t \in Threads, Control(t)
  PROVE  IInv'
<1>0. UNCHANGED <<fds, deaf, alive, faults, culprit>> /\ Stacks
  BY Beginning DEF Control
<1>1. CASE DoReturn(t)
  BY <1>0, <1>1, ReturnStep
<1>2. ASSUME alive, Top(t).todo # <<>>, NEW o, o = This(t), o.op \in {"call", "again", "ifBad", "either"}
      PROVE  /\ Len(stack[t]) # 1
             /\ \E r : /\ r = Rank(Top(t).fun) /\ o \in BodyOps(r) /\ Top(t).todo \in Seq(BodyOps(r))
                       /\ Rest(t) \in Seq(BodyOps(r)) /\ Leakless(Rest(t)) /\ Leakless(Top(t).todo)
             /\ Top(t).todo[1] = o
  <2>1. Len(stack[t]) # 1
    BY <1>0, <1>2, ThisFacts
  <2>. QED BY <1>0, <1>2, <2>1, InFunction
<1>3. CASE DoCall(t)
  <2>1. PICK o : o = This(t)
    OBVIOUS
  <2>2. alive /\ Top(t).todo # <<>> /\ o.op = "call" /\ Enter(t, o.fun, Rest(t))
    BY <1>3, <2>1 DEF DoCall, Doing, This
  <2>3. o.fun \in Below(Rank(Top(t).fun))
    BY <1>2, <2>1, <2>2, OpFacts
  <2>. QED BY <1>0, <1>2, <2>1, <2>2, <2>3, Passing, CallStep
<1>4. CASE DoIfBad(t)
  <2>1. PICK o : o = This(t)
    OBVIOUS
  <2>2. alive /\ Top(t).todo # <<>> /\ o.op = "ifBad"
    BY <1>4, <2>1 DEF DoIfBad, Doing, This
  <2>3. o.var \in VarsOf(Rank(Top(t).fun)) /\ Len(stack[t]) # 1
    BY <1>2, <2>1, <2>2, OpFacts
  <2>4. CASE Top(t).locals[o.var] = Invalid
    <3>1. Continue(t, o.else, Top(t).locals)
      BY <1>4, <2>1, <2>4 DEF DoIfBad
    <3>2. Branches(o) /\ o.else \in Seq(ElseOps(Rank(Top(t).fun)))
      BY <1>2, <2>1, <2>2, OpFacts DEF Branches
    <3>3. o.else \in Seq(BodyOps(Rank(Top(t).fun))) /\ Leakless(o.else)
      BY <3>2, ElseSeq, LeaklessElse
    <3>4. \A v : Covered(Top(t).todo, 1, v) => Covered(o.else, 1, v) \/ (v = o.var /\ Top(t).locals[o.var] = Invalid)
      BY <1>2, <2>1, <2>2, <2>4, <3>2, CoveredElse
    <3>5. \A R : Sound(Top(t).todo, R) => Sound(o.else, R)
      BY <1>2, <2>1, <2>2, <3>2, SoundElse
    <3>. QED BY <1>0, <2>2, <2>3, <3>1, <3>3, <3>4, <3>5, ControlStep
  <2>5. CASE Top(t).locals[o.var] # Invalid
    <3>1. Continue(t, Rest(t), Top(t).locals)
      BY <1>4, <2>1, <2>5 DEF DoIfBad, Go
    <3>. QED BY <1>0, <1>2, <2>1, <2>2, <2>3, <3>1, Passing, ControlStep
  <2>. QED BY <2>4, <2>5
<1>5. PICK s : s \in VarsOf(Rank(Top(t).fun))
  BY OtherNames DEF VarsOf
<1>6. CASE DoEither(t)
  <2>1. PICK o : o = This(t)
    OBVIOUS
  <2>2. alive /\ Top(t).todo # <<>> /\ o.op = "either"
    BY <1>6, <2>1 DEF DoEither, Doing, This
  <2>3. Len(stack[t]) # 1
    BY <1>2, <2>1, <2>2
  <2>4. CASE Continue(t, o.else, Top(t).locals)
    <3>2. Branches(o) /\ o.else \in Seq(ElseOps(Rank(Top(t).fun)))
      BY <1>2, <2>1, <2>2, OpFacts DEF Branches
    <3>3. o.else \in Seq(BodyOps(Rank(Top(t).fun))) /\ Leakless(o.else)
      BY <3>2, ElseSeq, LeaklessElse
    <3>4. \A v : Covered(Top(t).todo, 1, v) => Covered(o.else, 1, v)
      BY <1>2, <2>1, <2>2, <3>2, CoveredElse
    <3>5. \A R : Sound(Top(t).todo, R) => Sound(o.else, R)
      BY <1>2, <2>1, <2>2, <3>2, SoundElse
    <3>. QED BY <1>0, <1>5, <2>2, <2>3, <2>4, <3>3, <3>4, <3>5, ControlStep
  <2>5. CASE Go(t)
    <3>1. Continue(t, Rest(t), Top(t).locals)
      BY <2>5 DEF Go
    <3>. QED BY <1>0, <1>2, <1>5, <2>1, <2>2, <2>3, <3>1, Passing, ControlStep
  <2>. QED BY <1>6, <2>1, <2>4, <2>5 DEF DoEither
<1>7. CASE DoAgain(t)
  <2>1. PICK o : o = This(t)
    OBVIOUS
  <2>2. alive /\ Top(t).todo # <<>> /\ o.op = "again"
    BY <1>7, <2>1 DEF DoAgain, Doing, This
  <2>3. Len(stack[t]) # 1 /\ o.fun \in Below(Rank(Top(t).fun))
    BY <1>2, <2>1, <2>2, OpFacts
  <2>4. CASE Go(t)
    <3>1. Continue(t, Rest(t), Top(t).locals)
      BY <2>4 DEF Go
    <3>. QED BY <1>0, <1>2, <1>5, <2>1, <2>2, <2>3, <3>1, Passing, ControlStep
  <2>5. CASE Enter(t, o.fun, Top(t).todo)
    BY <1>0, <1>2, <2>1, <2>2, <2>3, <2>5, CallStep
  <2>. QED BY <1>7, <2>1, <2>4, <2>5 DEF DoAgain
<1>. QED BY <1>1, <1>3, <1>4, <1>6, <1>7 DEF Control

----------------------------------------------------------------------------
(* Steps of a thread itself.                                               *)

\* The place a thread is at.
LEMMA Places ==
  ASSUME Stacks, NEW t \in Threads, Len(stack[t]) = 1
  PROVE  /\ Top(t) = Base(t) /\ Top(t).todo \in BaseTodos /\ Top(t).todo # <<>>
         /\ Top(t).locals \in LocalsOf(PortVars) /\ DOMAIN Top(t).locals \subseteq PortVars
         /\ Top(t).fun = t
         /\ This(t).op = "open" =>
              Top(t).todo \in Openings /\ This(t).var = "fd_srvr" /\ Rest(t) \in Listenings
         /\ This(t).op = "listen" => Top(t).todo \in Listenings
         /\ This(t).op = "guarded" =>
              /\ This(t).fun \in {"pkt_prd", "pkt_btup", "mdm_selSim"}
              /\ \/ Top(t).todo \in Loops /\ Rest(t) \in Loops
                 \/ Top(t).todo = Building /\ Rest(t) \in Openings
         /\ This(t).op \in {"send", "recv"} => Top(t).todo \in Loops
         /\ This(t).op = "send" => Rest(t) \in Loops
         /\ This(t).op = "close" =>
              \/ Top(t).todo = Reopen /\ This(t).var = "fd_clnt" /\ Rest(t) = Tail(Reopen)
              \/ Top(t).todo = Tail(Reopen) /\ This(t).var = "fd_srvr" /\ Rest(t) \in Openings
         /\ This(t).op # "pclose" /\ This(t).op # "popen"
<1>1. /\ Top(t) = Base(t) /\ Top(t).todo \in BaseTodos /\ Top(t).todo # <<>> /\ Top(t).fun = t
      /\ Top(t).locals \in LocalsOf(PortVars) /\ DOMAIN Top(t).locals \subseteq PortVars
  BY TopFacts, BaseFrame, LocalsFacts
<1>2. /\ Top(t).todo \in Loops \/ Top(t).todo \in Openings \/ Top(t).todo \in Listenings
         \/ Top(t).todo = Building \/ Top(t).todo = Reopen \/ Top(t).todo = Tail(Reopen)
  BY <1>1 DEF BaseTodos
<1>. QED BY <1>1, <1>2, BaseTodoFacts DEF This, Rest

\* What is open for a thread when it is there.
LEMMA PortNow ==
  ASSUME NEW t \in Threads, PortInv(t), NEW todo, NEW locals,
         Base(t).todo = todo, Base(t).locals = locals
  PROVE  /\ \A n \in Numbers : IsFor(n, t, "fd_clnt") =>
              /\ "fd_clnt" \in DOMAIN locals /\ locals.fd_clnt = n
              /\ (todo \in Loops /\ ~deaf[t]) \/ todo = Reopen
         /\ \A n \in Numbers : IsFor(n, t, "fd_srvr") =>
              /\ "fd_srvr" \in DOMAIN locals /\ locals.fd_srvr = n
              /\ todo \notin Openings \cup {Building}
         /\ deaf[t] => todo \in Loops
         /\ (todo \in Loops /\ ~deaf[t]) \/ todo = Reopen =>
              \E n \in Numbers : /\ "fd_clnt" \in DOMAIN locals /\ locals.fd_clnt = n
                                 /\ fds[n] = <<t, "fd_clnt", Port[t]>>
         /\ (todo \in Loops /\ ~deaf[t]) \/ todo = Reopen \/ todo = Tail(Reopen) =>
              \E n \in Numbers : /\ "fd_srvr" \in DOMAIN locals /\ locals.fd_srvr = n
                                 /\ fds[n] = <<t, "fd_srvr", Port[t]>>
         /\ todo \in Listenings =>
              \/ "fd_srvr" \in DOMAIN locals /\ locals.fd_srvr = Invalid
              \/ \E n \in Numbers : /\ "fd_srvr" \in DOMAIN locals /\ locals.fd_srvr = n
                                    /\ fds[n] = <<t, "fd_srvr", Port[t]>>
  BY DEF PortInv, Connected, Owns, Has

LEMMA PortAfter ==
  ASSUME NEW t \in Threads, NEW todo, NEW locals, Base(t)' = Frame(t, todo, locals),
         \A n \in Numbers : IsFor(n, t, "fd_clnt")' =>
              /\ "fd_clnt" \in DOMAIN locals /\ locals.fd_clnt = n
              /\ (todo \in Loops /\ ~deaf'[t]) \/ todo = Reopen,
         \A n \in Numbers : IsFor(n, t, "fd_srvr")' =>
              /\ "fd_srvr" \in DOMAIN locals /\ locals.fd_srvr = n
              /\ todo \notin Openings \cup {Building},
         deaf'[t] => todo \in Loops,
         (todo \in Loops /\ ~deaf'[t]) \/ todo = Reopen =>
              \E n \in Numbers : /\ "fd_clnt" \in DOMAIN locals /\ locals.fd_clnt = n
                                 /\ fds'[n] = <<t, "fd_clnt", Port[t]>>,
         (todo \in Loops /\ ~deaf'[t]) \/ todo = Reopen \/ todo = Tail(Reopen) =>
              \E n \in Numbers : /\ "fd_srvr" \in DOMAIN locals /\ locals.fd_srvr = n
                                 /\ fds'[n] = <<t, "fd_srvr", Port[t]>>,
         todo \in Listenings =>
              \/ "fd_srvr" \in DOMAIN locals /\ locals.fd_srvr = Invalid
              \/ \E n \in Numbers : /\ "fd_srvr" \in DOMAIN locals /\ locals.fd_srvr = n
                                    /\ fds'[n] = <<t, "fd_srvr", Port[t]>>
  PROVE  PortInv(t)'
<1>1. Base(t)'.todo = todo /\ Base(t)'.locals = locals
  BY FrameFacts
<1>2. Connected(t)' <=> (todo \in Loops /\ ~deaf'[t]) \/ todo = Reopen
  BY <1>1 DEF Connected
<1>3. \A s, n : Has(t, s, n)' <=> s \in DOMAIN locals /\ locals[s] = n
  BY <1>1 DEF Has
<1>4. \A s : Owns(t, s)' <=> \E n \in Numbers : /\ s \in DOMAIN locals /\ locals[s] = n
                                                /\ fds'[n] = <<t, s, Port[t]>>
  BY <1>3 DEF Owns
<1>. QED BY <1>1, <1>2, <1>3, <1>4 DEF PortInv

LEMMA NoFunction ==
  ASSUME Stacks, NEW t \in Threads, Len(stack[t]) = 1, ThreadInv(t), Above(t)' = {},
         \A s : s \notin PortVars => Untouched(t, s)
  PROVE  HeldInv(t)' /\ SoundInv(t)'
<1>1. Above(t) = {}
  BY TopFacts
<1>2. \A n \in Numbers, s \in Variables \ PortVars : ~IsFor(n, t, s)'
  BY <1>1, UntouchedFacts DEF ThreadInv, HeldInv
<1>. QED BY <1>2 DEF HeldInv, SoundInv

\* One step of it.
LEMMA BaseStep ==
  ASSUME IInv, NEW t \in Threads, alive, alive' = alive, Len(stack[t]) = 1,
         NEW todo \in BaseTodos, NEW locals \in LocalsOf(PortVars), Continue(t, todo, locals),
         TableType', OnlyTheseStray', deaf' \in [Threads -> BOOLEAN], faults' \in 0..MaxFaults,
         \A u \in Threads : u # t => deaf'[u] = deaf[u],
         culprit' = "none" =>
           culprit = "none" /\ \A u, s : u # t \/ s \notin PortVars => Untouched(u, s),
         culprit' = "none" /\ ThreadInv(t) /\ Base(t)' = Frame(t, todo, locals) => PortInv(t)'
  PROVE  IInv'
<1>1. Stacks /\ (culprit = "none" => ThreadInv(t))
  BY Beginning
<1>2. /\ Stacks' /\ Base(t)' = Frame(t, todo, locals) /\ Above(t)' = {}
      /\ \A u \in Threads : u # t => stack'[u] = stack[u]
  BY <1>1, AtBase
<1>3. ASSUME culprit' = "none" PROVE ThreadInv(t)'
  <2>1. HeldInv(t)' /\ SoundInv(t)'
    BY <1>1, <1>2, <1>3, NoFunction
  <2>2. PortInv(t)'
    BY <1>1, <1>2, <1>3
  <2>. QED BY <2>1, <2>2 DEF ThreadInv
<1>. QED BY <1>2, <1>3, Together

LEMMA PortFacts ==
  \A t \in Threads : Port[t] \in {0, 40, 41}
  BY DEF Threads, Port

LEMMA OpenAtBase ==
  ASSUME IInv, NEW t \in Threads, DoOpen(t), Len(stack[t]) = 1
  PROVE  IInv'
<1>1. /\ TableType /\ Stacks /\ OnlyTheseStray /\ deaf \in [Threads -> BOOLEAN]
      /\ faults \in 0..MaxFaults
  BY Beginning
<1>2. alive /\ This(t).op = "open" /\ UNCHANGED <<deaf, alive, culprit>>
  BY DEF DoOpen, Doing, This
<1>3. /\ Top(t) = Base(t) /\ Top(t).todo \in Openings /\ This(t).var = "fd_srvr" /\ Rest(t) \in Listenings
      /\ Top(t).locals \in LocalsOf(PortVars) /\ Rest(t) \in BaseTodos
  BY <1>1, <1>2, Places DEF BaseTodos
<1>4. PICK n \in Values :
        /\ \/ n \in Numbers /\ Obtain(n, t, "fd_srvr", Port[t]) /\ UNCHANGED faults
           \/ n = Invalid /\ UNCHANGED fds /\ Fault("open")
        /\ Assign(t, "fd_srvr", n)
  BY <1>3 DEF DoOpen, Values
<1>. DEFINE locals == With(Top(t).locals, "fd_srvr", n)
<1>5. locals \in LocalsOf(PortVars) /\ "fd_srvr" \in DOMAIN locals /\ locals.fd_srvr = n
  <2>1. locals \in LocalsOf(PortVars)
    BY <1>3, WithType DEF PortVars
  <2>. QED BY <2>1 DEF With
<1>6. Continue(t, Rest(t), locals)
  BY <1>4 DEF Assign
<1>. HIDE DEF locals
<1>7. /\ TableType' /\ faults' \in 0..MaxFaults
      /\ \A u, v : u # t \/ v # "fd_srvr" => Untouched(u, v)
      /\ \A m \in Numbers : IsFor(m, t, "fd_srvr")' => m = n \/ IsFor(m, t, "fd_srvr")
      /\ n = Invalid \/ (n \in Numbers /\ fds'[n] = <<t, "fd_srvr", Port[t]>>)
  <2>1. CASE n \in Numbers /\ Obtain(n, t, "fd_srvr", Port[t]) /\ UNCHANGED faults
    <3>1. /\ TableType' /\ fds'[n] = <<t, "fd_srvr", Port[t]>>
          /\ \A m \in Numbers : m # n => fds'[m] = fds[m]
          /\ \A u, v : u # t \/ v # "fd_srvr" => Untouched(u, v)
      BY <1>1, <2>1, Opened, PortFacts DEF Variables
    <3>. QED BY <1>1, <2>1, <3>1 DEF IsFor
  <2>2. CASE n = Invalid /\ UNCHANGED fds /\ Fault("open")
    BY <1>1, <2>2, UntouchedAll, FaultFacts DEF TableType, IsFor
  <2>. QED BY <1>4, <2>1, <2>2
<1>8. ASSUME ThreadInv(t), Base(t)' = Frame(t, Rest(t), locals) PROVE PortInv(t)'
  <2>1. /\ ~deaf[t]
        /\ \A m \in Numbers : ~IsFor(m, t, "fd_srvr") /\ ~IsFor(m, t, "fd_clnt")
    BY <1>3, <1>8, PortNow, BaseTodoDiffer DEF ThreadInv
  <2>2. \A m \in Numbers : ~IsFor(m, t, "fd_clnt")'
    BY <1>7, <2>1, UntouchedFacts
  <2>3. \A m \in Numbers : IsFor(m, t, "fd_srvr")' => m = n
    BY <1>7, <2>1
  <2>4. Rest(t) \notin Loops /\ Rest(t) # Reopen /\ Rest(t) # Tail(Reopen)
        /\ Rest(t) \notin Openings \cup {Building}
    BY <1>3, BaseTodoDiffer
  <2>5. ~deaf'[t]
    BY <1>2, <2>1
  <2>. QED BY <1>5, <1>7, <1>8, <2>2, <2>3, <2>4, <2>5, PortAfter
<1>9. OnlyTheseStray' /\ deaf' \in [Threads -> BOOLEAN] /\ \A u \in Threads : deaf'[u] = deaf[u]
  BY <1>1, <1>2 DEF OnlyTheseStray
<1>10. culprit' = "none" =>
         culprit = "none" /\ \A u, s : u # t \/ s \notin PortVars => Untouched(u, s)
  BY <1>2, <1>7 DEF PortVars
<1>. QED BY <1>2, <1>3, <1>5, <1>6, <1>7, <1>8, <1>9, <1>10, BaseStep

\* close() in the loop of a thread: of its connection, then of its socket.
LEMMA CloseAtBase ==
  ASSUME IInv, NEW t \in Threads, DoClose(t), Len(stack[t]) = 1
  PROVE  IInv'
<1>1. /\ TableType /\ Stacks /\ OnlyTheseStray /\ deaf \in [Threads -> BOOLEAN]
      /\ faults \in 0..MaxFaults
      /\ alive /\ culprit = "none" => ThreadInv(t)
  BY Beginning
<1>2. alive /\ This(t).op = "close" /\ UNCHANGED <<deaf, alive, faults>>
      /\ Continue(t, Rest(t), Top(t).locals)
  BY DEF DoClose, Doing, This, Go
<1>3. /\ Top(t) = Base(t) /\ Top(t).locals \in LocalsOf(PortVars) /\ Rest(t) \in BaseTodos
      /\ \/ Top(t).todo = Reopen /\ This(t).var = "fd_clnt" /\ Rest(t) = Tail(Reopen)
         \/ Top(t).todo = Tail(Reopen) /\ This(t).var = "fd_srvr" /\ Rest(t) \in Openings
  BY <1>1, <1>2, Places DEF BaseTodos
<1>4. PICK s \in PortVars : s = This(t).var
  BY <1>3 DEF PortVars
<1>5. PICK n \in Value(t, s) :
        /\ fds' = IF n \in Numbers THEN [fds EXCEPT ![n] = Free] ELSE fds
        /\ Touch(t, s, n)
  BY <1>4 DEF DoClose
<1>6. /\ TableType'
      /\ \A m \in Numbers : IF m = n THEN fds'[m] = Free ELSE fds'[m] = fds[m]
  BY <1>1, <1>5, Closed
<1>7. ASSUME culprit = "none"
      PROVE  /\ n \in Numbers /\ s \in DOMAIN Top(t).locals /\ Top(t).locals[s] = n
             /\ IsFor(n, t, s) /\ Own(n, t, s)
  <2>1. PICK m \in Numbers : /\ s \in DOMAIN Top(t).locals /\ Top(t).locals[s] = m
                             /\ fds[m] = <<t, s, Port[t]>>
    <3>1. PortInv(t)
      BY <1>1, <1>2, <1>7 DEF ThreadInv
    <3>2. CASE Top(t).todo = Reopen /\ s = "fd_clnt"
      BY <1>3, <3>1, <3>2 DEF PortInv, Connected, Owns, Has
    <3>3. CASE Top(t).todo = Tail(Reopen) /\ s = "fd_srvr"
      BY <1>3, <3>1, <3>3 DEF PortInv, Connected, Owns, Has
    <3>. QED BY <1>3, <1>4, <3>2, <3>3
  <2>2. n = m
    BY <1>5, <2>1 DEF Value
  <2>3. <<t, s, Port[t]>> # Free
    BY DEF Threads, Free
  <2>. QED BY <2>1, <2>2, <2>3 DEF IsFor, Own
<1>8. OnlyTheseStray' /\ (culprit' = "none" => culprit = "none" /\ Own(n, t, s))
  BY <1>1, <1>5, <1>7, Blamed
<1>9. ASSUME culprit' = "none", NEW u, NEW v, u # t \/ v # s PROVE Untouched(u, v)
  BY <1>6, <1>8, <1>9, ClosedUntouched
<1>10. ASSUME culprit' = "none", ThreadInv(t), Base(t)' = Frame(t, Rest(t), Top(t).locals)
       PROVE  PortInv(t)'
  <2>1. culprit = "none"
    BY <1>8, <1>10
  <2>2. ~deaf[t] /\ ~deaf'[t]
    <3>1. Top(t).todo \notin Loops
      BY <1>3, BaseTodoDiffer
    <3>2. ~deaf[t]
      BY <1>3, <1>10, <3>1 DEF ThreadInv, PortInv
    <3>. QED BY <1>2, <3>2
  <2>3. \A m \in Numbers : ~IsFor(m, t, s)'
    <3>1. ASSUME NEW m \in Numbers, IsFor(m, t, s)' PROVE FALSE
      <4>1. m # n /\ IsFor(m, t, s)
        BY <1>6, <3>1 DEF IsFor
      <4>2. Top(t).locals[s] = m
        BY <1>3, <1>4, <1>10, <4>1, PortNow DEF ThreadInv
      <4>. QED BY <1>7, <2>1, <4>1, <4>2
    <3>. QED BY <3>1
  <2>4. CASE Top(t).todo = Reopen /\ s = "fd_clnt" /\ Rest(t) = Tail(Reopen)
    <3>1. Untouched(t, "fd_srvr")
      BY <1>9, <1>10, <2>4
    <3>2. PICK m \in Numbers : /\ "fd_srvr" \in DOMAIN Top(t).locals /\ Top(t).locals.fd_srvr = m
                               /\ fds[m] = <<t, "fd_srvr", Port[t]>>
      BY <1>3, <1>10, <2>4, PortNow DEF ThreadInv
    <3>3. m # n
      BY <1>7, <2>1, <2>4, <3>2 DEF IsFor
    <3>4. fds'[m] = <<t, "fd_srvr", Port[t]>>
      BY <1>6, <3>2, <3>3
    <3>5. Rest(t) \notin Loops /\ Rest(t) # Reopen /\ Rest(t) \notin Listenings
          /\ Rest(t) \notin Openings \cup {Building}
      BY <2>4, BaseTodoDiffer
    <3>6. \A k \in Numbers : IsFor(k, t, "fd_srvr")' =>
            "fd_srvr" \in DOMAIN Top(t).locals /\ Top(t).locals.fd_srvr = k
      BY <1>3, <1>10, <3>1, PortNow, UntouchedFacts DEF ThreadInv
    <3>. QED BY <1>10, <2>2, <2>3, <2>4, <3>2, <3>4, <3>5, <3>6, PortAfter
  <2>5. CASE Top(t).todo = Tail(Reopen) /\ s = "fd_srvr" /\ Rest(t) \in Openings
    <3>1. Untouched(t, "fd_clnt")
      BY <1>9, <1>10, <2>5
    <3>2. Top(t).todo \notin Loops /\ Top(t).todo # Reopen
      BY <2>5, BaseTodoDiffer
    <3>3. \A k \in Numbers : ~IsFor(k, t, "fd_clnt")'
      BY <1>3, <1>10, <3>1, <3>2, PortNow, UntouchedFacts DEF ThreadInv
    <3>4. Rest(t) \notin Loops /\ Rest(t) # Reopen /\ Rest(t) # Tail(Reopen) /\ Rest(t) \notin Listenings
      BY <2>5, BaseTodoDiffer
    <3>. QED BY <1>10, <2>2, <2>3, <2>5, <3>3, <3>4, PortAfter
  <2>. QED BY <1>3, <1>4, <2>4, <2>5
<1>11. deaf' \in [Threads -> BOOLEAN] /\ faults' \in 0..MaxFaults
       /\ \A u \in Threads : deaf'[u] = deaf[u]
  BY <1>1, <1>2
<1>12. culprit' = "none" =>
         culprit = "none" /\ \A u, v : u # t \/ v \notin PortVars => Untouched(u, v)
  BY <1>4, <1>8, <1>9
<1>. QED BY <1>2, <1>3, <1>6, <1>8, <1>10, <1>11, <1>12, BaseStep

\* The rounds of the loop differ in what is done, not in what is open.
LEMMA LoopKept ==
  ASSUME NEW t \in Threads, PortInv(t), fds' = fds, deaf'[t] = deaf[t], Base(t).todo \in Loops,
         NEW todo, todo \in Loops \/ (todo = Reopen /\ ~deaf[t]),
         Base(t)' = Frame(t, todo, Base(t).locals)
  PROVE  PortInv(t)'
<1>. DEFINE locals == Base(t).locals
<1>1. /\ todo \notin Openings \cup {Building} \cup Listenings /\ todo # Tail(Reopen)
      /\ deaf[t] => todo \in Loops
  BY BaseTodoDiffer
<1>2. \A n \in Numbers : \A s : IsFor(n, t, s)' <=> IsFor(n, t, s)
  BY DEF IsFor
<1>3. \A n \in Numbers : IsFor(n, t, "fd_clnt") =>
        "fd_clnt" \in DOMAIN locals /\ locals.fd_clnt = n /\ ~deaf[t]
  BY BaseTodoDiffer DEF PortInv, Connected, Has
<1>4. \A n \in Numbers : IsFor(n, t, "fd_srvr") => "fd_srvr" \in DOMAIN locals /\ locals.fd_srvr = n
  BY DEF PortInv, Has
<1>5. ~deaf[t] => \E n \in Numbers : /\ "fd_clnt" \in DOMAIN locals /\ locals.fd_clnt = n
                                     /\ fds'[n] = <<t, "fd_clnt", Port[t]>>
  BY DEF PortInv, Connected, Owns, Has
<1>6. ~deaf[t] => \E n \in Numbers : /\ "fd_srvr" \in DOMAIN locals /\ locals.fd_srvr = n
                                     /\ fds'[n] = <<t, "fd_srvr", Port[t]>>
  BY DEF PortInv, Connected, Owns, Has
<1>7. PICK l : l = locals
  OBVIOUS
<1>8. \A n \in Numbers : IsFor(n, t, "fd_clnt")' =>
        /\ "fd_clnt" \in DOMAIN l /\ l.fd_clnt = n
        /\ (todo \in Loops /\ ~deaf'[t]) \/ todo = Reopen
  BY <1>2, <1>3, <1>7
<1>9. \A n \in Numbers : IsFor(n, t, "fd_srvr")' =>
        "fd_srvr" \in DOMAIN l /\ l.fd_srvr = n /\ todo \notin Openings \cup {Building}
  BY <1>1, <1>2, <1>4, <1>7
<1>10. (todo \in Loops /\ ~deaf'[t]) \/ todo = Reopen => ~deaf[t]
  BY BaseTodoDiffer
<1>. QED BY <1>1, <1>5, <1>6, <1>7, <1>8, <1>9, <1>10, PortAfter

LEMMA GuardedInv ==
  ASSUME IInv, NEW t \in Threads, DoGuarded(t)
  PROVE  IInv'
<1>1. /\ TableType /\ Stacks /\ OnlyTheseStray /\ deaf \in [Threads -> BOOLEAN]
      /\ faults \in 0..MaxFaults
      /\ alive /\ culprit = "none" => ThreadInv(t)
  BY Beginning
<1>2. alive /\ This(t).op = "guarded" /\ Len(stack[t]) = 1 /\ Enter(t, This(t).fun, Rest(t))
      /\ UNCHANGED <<fds, deaf, alive, faults, culprit>>
  BY DEF DoGuarded, Doing, This
<1>3. PICK f \in Functions, todo \in BaseTodos : f = This(t).fun /\ todo = Rest(t)
  BY <1>1, <1>2, Places, FunctionsAre DEF BaseTodos
<1>4. \/ Base(t).todo \in Loops /\ todo \in Loops
      \/ Base(t).todo = Building /\ todo \in Openings
  BY <1>1, <1>2, <1>3, Places
<1>5. /\ Stacks' /\ Base(t)' = Frame(t, todo, Base(t).locals) /\ Above(t)' = {1}
      /\ stack'[t][1] = Frame(f, Body[f], NoLocals)
      /\ \A u \in Threads : u # t => stack'[u] = stack[u]
  BY <1>1, <1>2, <1>3, CallFromBase
<1>6. TableType' /\ OnlyTheseStray' /\ \A u, v : Untouched(u, v)
  BY <1>1, <1>2, UntouchedAll DEF TableType, OnlyTheseStray
<1>7. ASSUME culprit = "none" PROVE ThreadInv(t)'
  <2>1. PortInv(t) /\ HeldInv(t) /\ Above(t) = {}
    BY <1>1, <1>2, <1>7, TopFacts DEF ThreadInv
  <2>2. PortInv(t)'
    <3>1. CASE Base(t).todo \in Loops /\ todo \in Loops
      BY <1>2, <1>5, <2>1, <3>1, LoopKept
    <3>2. CASE Base(t).todo = Building /\ todo \in Openings
      <4>1. ~deaf[t] /\ \A n \in Numbers : ~IsFor(n, t, "fd_srvr") /\ ~IsFor(n, t, "fd_clnt")
        BY <2>1, <3>2, BaseTodoDiffer DEF PortInv, Connected
      <4>2. ~deaf'[t] /\ \A n \in Numbers : ~IsFor(n, t, "fd_srvr")' /\ ~IsFor(n, t, "fd_clnt")'
        BY <1>2, <4>1 DEF IsFor
      <4>3. todo \notin Loops /\ todo # Reopen /\ todo # Tail(Reopen) /\ todo \notin Listenings
        BY <3>2, BaseTodoDiffer
      <4>4. PICK l : l = Base(t).locals
        OBVIOUS
      <4>. QED BY <1>5, <4>2, <4>3, <4>4, PortAfter
    <3>. QED BY <1>4, <3>1, <3>2
  <2>3. HeldInv(t)'
    <3>1. \A n \in Numbers, s \in Variables \ PortVars : ~IsFor(n, t, s)'
      BY <1>6, <2>1, UntouchedFacts DEF HeldInv
    <3>. QED BY <3>1 DEF HeldInv
  <2>4. SoundInv(t)'
    <3>1. stack'[t][1].fun = f /\ stack'[t][1].todo = Body[f]
      BY <1>5, FrameFacts
    <3>2. f \notin Strays => Sound(Body[f], ReadyVars(t, 1)')
      BY Bodies, SoundMore
    <3>. QED BY <1>5, <3>1, <3>2 DEF SoundInv
  <2>. QED BY <2>2, <2>3, <2>4 DEF ThreadInv
<1>8. /\ alive' = alive /\ deaf' \in [Threads -> BOOLEAN] /\ faults' \in 0..MaxFaults
      /\ \A u \in Threads : deaf'[u] = deaf[u]
      /\ culprit' = culprit
  BY <1>1, <1>2
<1>. QED BY <1>2, <1>5, <1>6, <1>7, <1>8, Together

\* What a thread talks over is its own, unless it is deaf.
LEMMA TalkIsOwn ==
  ASSUME NEW t \in Threads, PortInv(t), Base(t).todo \in Loops, ~deaf[t],
         Top(t) = Base(t), NEW n \in Value(t, "fd_clnt")
  PROVE  Own(n, t, "fd_clnt")
<1>1. PICK m \in Numbers : /\ "fd_clnt" \in DOMAIN Base(t).locals /\ Base(t).locals.fd_clnt = m
                           /\ fds[m] = <<t, "fd_clnt", Port[t]>>
  BY DEF PortInv, Connected, Owns, Has
<1>2. n = m
  BY <1>1 DEF Value
<1>. QED BY <1>1, <1>2 DEF Own, IsFor, Free, Threads

LEMMA RoundsAreLoops ==
  \A t \in Threads : Round(t) \subseteq Loops /\ Received(t) \subseteq Loops
<1>1. \A t \in Threads : Round(t) \subseteq Loops
  BY DEF Round, Loops
<1>2. {<<Recv>>, <<Guarded("mdm_selSim"), Send, Recv>>} \subseteq Loops
  BY DEF Loops
<1>. QED BY <1>1, <1>2 DEF Received

\* send() and recv().
LEMMA TalkInv ==
  ASSUME IInv, NEW t \in Threads, DoSend(t) \/ DoRecv(t)
  PROVE  IInv'
<1>1. /\ TableType /\ Stacks /\ OnlyTheseStray /\ deaf \in [Threads -> BOOLEAN]
      /\ faults \in 0..MaxFaults
      /\ alive /\ culprit = "none" => ThreadInv(t)
  BY Beginning
<1>2. /\ alive /\ Top(t).todo # <<>> /\ This(t).op \in {"send", "recv"}
      /\ UNCHANGED <<fds, deaf, alive>>
  BY DEF DoSend, DoRecv, Doing, This
<1>3. Len(stack[t]) = 1
  BY <1>1, <1>2, ThisFacts
<1>4. /\ Top(t) = Base(t) /\ Top(t).todo \in Loops /\ Top(t).locals \in LocalsOf(PortVars)
      /\ This(t).op = "send" => Rest(t) \in Loops
  BY <1>1, <1>2, <1>3, Places
<1>5. PICK n \in Value(t, "fd_clnt"), todo \in BaseTodos :
        /\ Touch(t, "fd_clnt", n) /\ faults' \in 0..MaxFaults
        /\ todo \in Loops \/ (todo = Reopen /\ Connection(n))
        /\ Continue(t, todo, Top(t).locals)
  <2>1. CASE DoSend(t)
    <3>1. Rest(t) \in Loops /\ Rest(t) \in BaseTodos /\ Continue(t, Rest(t), Top(t).locals)
      BY <1>4, <2>1 DEF DoSend, Doing, This, Go, BaseTodos
    <3>. QED BY <1>1, <2>1, <3>1 DEF DoSend
  <2>2. CASE DoRecv(t)
    <3>1. PICK n \in Value(t, "fd_clnt") :
            /\ Touch(t, "fd_clnt", n)
            /\ \/ Loop(t, Round(t), Top(t).locals) /\ UNCHANGED faults
               \/ Connection(n) /\ Loop(t, Received(t), Top(t).locals) /\ UNCHANGED faults
               \/ /\ Connection(n) /\ Fault("hangup")
                  /\ Continue(t, Reopen, Top(t).locals)
      BY <2>2 DEF DoRecv
    <3>2. ASSUME Loop(t, Round(t), Top(t).locals) \/ Loop(t, Received(t), Top(t).locals)
          PROVE  \E todo \in Loops : todo \in BaseTodos /\ Continue(t, todo, Top(t).locals)
      BY <3>2, RoundsAreLoops DEF Loop, BaseTodos
    <3>3. Reopen \in BaseTodos
      BY DEF BaseTodos
    <3>. QED BY <1>1, <3>1, <3>2, <3>3, FaultFacts
  <2>. QED BY <2>1, <2>2
<1>6. culprit = "none" /\ ~deaf[t] => Own(n, t, "fd_clnt")
  BY <1>1, <1>2, <1>4, TalkIsOwn DEF ThreadInv
<1>7. OnlyTheseStray' /\ (culprit' = "none" => culprit = "none" /\ Own(n, t, "fd_clnt"))
  BY <1>1, <1>5, <1>6, Blamed
<1>8. PICK l \in LocalsOf(PortVars) : l = Top(t).locals
  BY <1>4
<1>9. ASSUME culprit' = "none", ThreadInv(t), Base(t)' = Frame(t, todo, l)
      PROVE  PortInv(t)'
  <2>1. todo = Reopen => ~deaf[t]
    <3>1. SUFFICES ASSUME Connection(n) PROVE ~deaf[t]
      BY <1>5, BaseTodoDiffer
    <3>2. n \in Numbers /\ IsFor(n, t, "fd_clnt")
      BY <1>1, <1>7, <1>9, <3>1 DEF Connection, Own, Free
    <3>. QED BY <1>4, <1>9, <3>2, BaseTodoDiffer DEF ThreadInv, PortInv, Connected
  <2>. QED BY <1>2, <1>4, <1>5, <1>8, <1>9, <2>1, LoopKept DEF ThreadInv
<1>10. TableType' /\ \A u, v : Untouched(u, v)
  BY <1>1, <1>2, UntouchedAll DEF TableType
<1>11. deaf' \in [Threads -> BOOLEAN] /\ \A u \in Threads : deaf'[u] = deaf[u]
  BY <1>1, <1>2
<1>. QED BY <1>2, <1>3, <1>5, <1>7, <1>8, <1>9, <1>10, <1>11, BaseStep

\* A connection: the socket is the thread's own, and the connection is to its port.
LEMMA AcceptInv ==
  ASSUME IInv, NEW t \in Threads, DoAccept(t)
  PROVE  IInv'
<1>1. /\ TableType /\ Stacks /\ OnlyTheseStray /\ deaf \in [Threads -> BOOLEAN]
      /\ faults \in 0..MaxFaults
      /\ alive /\ culprit = "none" => ThreadInv(t)
  BY Beginning
<1>2. alive /\ Top(t).todo # <<>> /\ This(t).op = "listen" /\ deaf' = [deaf EXCEPT ![t] = FALSE]
      /\ UNCHANGED <<alive, faults>>
  BY DEF DoAccept, Doing, This
<1>3. Len(stack[t]) = 1
  BY <1>1, <1>2, ThisFacts
<1>4. Top(t) = Base(t) /\ Top(t).todo \in Listenings /\ Top(t).locals \in LocalsOf(PortVars)
  BY <1>1, <1>2, <1>3, Places
<1>5. PICK l \in LocalsOf(PortVars) : l = Top(t).locals
  BY <1>4
<1>6. PICK n \in Numbers, k \in Numbers, todo \in Loops :
        /\ n = l.fd_srvr /\ fds[n][2] = "fd_srvr"
        /\ Obtain(k, t, "fd_clnt", fds[n][3]) /\ Touch(t, "fd_srvr", n)
        /\ Continue(t, todo, With(l, "fd_clnt", k))
  BY <1>5, RoundsAreLoops DEF DoAccept, Loop
<1>7. fds[n] # Free /\ fds[n][3] \in {0, 40, 41}
  BY <1>1, <1>6, EntryFacts DEF Free
<1>8. PICK p \in {0, 40, 41} : p = fds[n][3]
  BY <1>7
<1>9. /\ TableType' /\ fds[k] = Free /\ fds'[k] = <<t, "fd_clnt", p>>
      /\ IsFor(k, t, "fd_clnt")' /\ \A m \in Numbers : m # k => fds'[m] = fds[m]
      /\ \A u, v : u # t \/ v # "fd_clnt" => Untouched(u, v)
  BY <1>1, <1>6, <1>8, Opened DEF Variables
<1>10. ASSUME ThreadInv(t)
       PROVE  "fd_srvr" \in DOMAIN l /\ fds[n] = <<t, "fd_srvr", Port[t]>> /\ Own(n, t, "fd_srvr")
  <2>1. Has(t, "fd_srvr", Invalid) \/ Owns(t, "fd_srvr")
    BY <1>4, <1>10 DEF ThreadInv, PortInv
  <2>2. PICK m \in Numbers : Has(t, "fd_srvr", m) /\ fds[m] = <<t, "fd_srvr", Port[t]>>
    BY <1>4, <1>5, <1>6, <2>1, ConstFacts DEF Owns, Has
  <2>. QED BY <1>4, <1>5, <1>6, <1>7, <2>2 DEF Has, Own, IsFor
<1>11. OnlyTheseStray' /\ (culprit' = "none" => culprit = "none" /\ Own(n, t, "fd_srvr"))
  BY <1>1, <1>2, <1>6, <1>10, Blamed
<1>. DEFINE locals == With(l, "fd_clnt", k)
<1>12. /\ locals \in LocalsOf(PortVars) /\ "fd_clnt" \in DOMAIN locals /\ locals.fd_clnt = k
       /\ "fd_srvr" \in DOMAIN l => "fd_srvr" \in DOMAIN locals /\ locals.fd_srvr = l.fd_srvr
  <2>1. locals \in LocalsOf(PortVars)
    BY <1>6, WithType DEF PortVars, Values
  <2>. QED BY <2>1 DEF With
<1>13. Continue(t, todo, locals) /\ todo \in BaseTodos
  BY <1>6 DEF BaseTodos
<1>. HIDE DEF locals
<1>14. ASSUME culprit' = "none", ThreadInv(t), Base(t)' = Frame(t, todo, locals)
       PROVE  PortInv(t)'
  <2>1. "fd_srvr" \in DOMAIN locals /\ locals.fd_srvr = n /\ fds[n] = <<t, "fd_srvr", Port[t]>>
        /\ p = Port[t]
    BY <1>6, <1>8, <1>10, <1>12, <1>14
  <2>2. fds'[n] = <<t, "fd_srvr", Port[t]>> /\ fds'[k] = <<t, "fd_clnt", Port[t]>>
    BY <1>7, <1>9, <2>1
  <2>3. \A m \in Numbers : IsFor(m, t, "fd_clnt")' => m = k
    <3>1. ASSUME NEW m \in Numbers, IsFor(m, t, "fd_clnt")', m # k PROVE FALSE
      <4>1. IsFor(m, t, "fd_clnt")
        BY <1>9, <3>1 DEF IsFor
      <4>. QED BY <1>4, <1>14, <4>1, BaseTodoDiffer DEF ThreadInv, PortInv, Connected
    <3>. QED BY <3>1
  <2>4. \A m \in Numbers : IsFor(m, t, "fd_srvr")' => m = n
    <3>1. ASSUME NEW m \in Numbers, IsFor(m, t, "fd_srvr")' PROVE m = n
      <4>1. Untouched(t, "fd_srvr")
        BY <1>9
      <4>2. IsFor(m, t, "fd_srvr")
        BY <3>1, <4>1, UntouchedFacts
      <4>. QED BY <1>4, <1>5, <1>6, <1>14, <4>2 DEF ThreadInv, PortInv, Has
    <3>. QED BY <3>1
  <2>5. ~deaf'[t]
    BY <1>1, <1>2
  <2>6. todo \notin Openings \cup {Building} \cup Listenings
    BY BaseTodoDiffer
  <2>. QED BY <1>12, <1>14, <2>1, <2>2, <2>3, <2>4, <2>5, <2>6, PortAfter
<1>15. deaf' \in [Threads -> BOOLEAN] /\ \A u \in Threads : u # t => deaf'[u] = deaf[u]
  BY <1>1, <1>2
<1>16. culprit' = "none" =>
         culprit = "none" /\ \A u, v : u # t \/ v \notin PortVars => Untouched(u, v)
  BY <1>9, <1>11 DEF PortVars
<1>17. faults' \in 0..MaxFaults /\ alive' = alive
  BY <1>1, <1>2
<1>. QED BY <1>2, <1>3, <1>9, <1>11, <1>12, <1>13, <1>14, <1>15, <1>16, <1>17, BaseStep

\* The port has failed: the thread has no connection, and may have a socket.
LEMMA DeafInv ==
  ASSUME IInv, NEW t \in Threads, DoDeaf(t)
  PROVE  IInv'
<1>1. /\ TableType /\ Stacks /\ OnlyTheseStray /\ deaf \in [Threads -> BOOLEAN]
      /\ faults \in 0..MaxFaults
  BY Beginning
<1>2. alive /\ Top(t).todo # <<>> /\ This(t).op = "listen" /\ deaf' = [deaf EXCEPT ![t] = TRUE]
      /\ UNCHANGED <<fds, alive, faults, culprit>>
  BY DEF DoDeaf, Doing, This
<1>3. Len(stack[t]) = 1
  BY <1>1, <1>2, ThisFacts
<1>4. Top(t) = Base(t) /\ Top(t).todo \in Listenings /\ Top(t).locals \in LocalsOf(PortVars)
  BY <1>1, <1>2, <1>3, Places
<1>5. PICK l \in LocalsOf(PortVars) : l = Top(t).locals
  BY <1>4
<1>6. PICK todo \in Loops : Continue(t, todo, l)
  BY <1>5, RoundsAreLoops DEF DoDeaf, Loop
<1>7. ASSUME ThreadInv(t), Base(t)' = Frame(t, todo, l) PROVE PortInv(t)'
  <2>1. \A n \in Numbers : \A s : IsFor(n, t, s)' <=> IsFor(n, t, s)
    BY <1>2 DEF IsFor
  <2>2. \A n \in Numbers : ~IsFor(n, t, "fd_clnt")'
    BY <1>4, <1>7, <2>1, BaseTodoDiffer DEF ThreadInv, PortInv, Connected
  <2>3. \A n \in Numbers : IsFor(n, t, "fd_srvr")' => "fd_srvr" \in DOMAIN l /\ l.fd_srvr = n
    BY <1>4, <1>5, <1>7, <2>1 DEF ThreadInv, PortInv, Has
  <2>4. deaf'[t]
    BY <1>1, <1>2
  <2>5. todo \notin Openings \cup {Building} \cup Listenings /\ todo # Reopen /\ todo # Tail(Reopen)
    BY BaseTodoDiffer
  <2>. QED BY <1>7, <2>2, <2>3, <2>4, <2>5, PortAfter
<1>8. TableType' /\ OnlyTheseStray' /\ \A u, v : Untouched(u, v)
  BY <1>1, <1>2, UntouchedAll DEF TableType, OnlyTheseStray
<1>9. /\ deaf' \in [Threads -> BOOLEAN] /\ \A u \in Threads : u # t => deaf'[u] = deaf[u]
      /\ faults' \in 0..MaxFaults /\ alive' = alive /\ culprit' = culprit /\ todo \in BaseTodos
  BY <1>1, <1>2 DEF BaseTodos
<1>. QED BY <1>2, <1>3, <1>6, <1>7, <1>8, <1>9, BaseStep

\* The beginning of a thread, and the end of the process.
LEMMA Fresh ==
  ASSUME NEW todos \in [Threads -> BaseTodos], NEW st,
         st = [t \in Threads |-> <<Frame(t, todos[t], NoLocals)>>]
  PROVE  /\ st \in [Threads -> Seq(Frames)]
         /\ \A t \in Threads :
              /\ st[t] # <<>> /\ 1..Len(st[t]) - 1 = {}
              /\ st[t][Len(st[t])] = Frame(t, todos[t], NoLocals)
              /\ st[t][Len(st[t])] \in BaseFrames(t)
<1>1. ASSUME NEW t \in Threads
      PROVE  /\ Frame(t, todos[t], NoLocals) \in BaseFrames(t)
             /\ Frame(t, todos[t], NoLocals) \in Frames
  <2>1. Frame(t, todos[t], NoLocals) \in BaseFrames(t)
    BY NoLocalsFacts, ABaseFrame
  <2>. QED BY <2>1, BaseFrame
<1>2. ASSUME NEW t \in Threads
      PROVE  st[t] = <<Frame(t, todos[t], NoLocals)>> /\ st[t] \in Seq(Frames)
  <2>1. st[t] = <<Frame(t, todos[t], NoLocals)>>
    BY Zenon
  <2>. QED BY <1>1, <2>1
<1>3. st \in [Threads -> Seq(Frames)]
  BY <1>2
<1>4. ASSUME NEW t \in Threads
      PROVE  /\ st[t] # <<>> /\ 1..Len(st[t]) - 1 = {}
             /\ st[t][Len(st[t])] = Frame(t, todos[t], NoLocals)
  <2>. DEFINE fr == Frame(t, todos[t], NoLocals)
  <2>1. st[t] = <<fr>>
    BY <1>2
  <2>. HIDE DEF fr
  <2>2. Len(<<fr>>) = 1 /\ <<fr>>[1] = fr /\ 1..1 - 1 = {} /\ <<fr>> # <<>>
    OBVIOUS
  <2>3. Len(st[t]) = 1 /\ st[t] # <<>> /\ st[t][1] = fr
    BY <2>1, <2>2, Zenon
  <2>. QED BY <2>2, <2>3, Zenon DEF fr
<1>. QED BY <1>1, <1>3, <1>4, Zenon

LEMMA EndInv ==
  ASSUME IInv, End
  PROVE  IInv'
<1>. DEFINE todos == [t \in Threads |-> <<Recv>>]
<1>1. todos \in [Threads -> BaseTodos]
  BY DEF BaseTodos, Loops
<1>2. stack' = [t \in Threads |-> <<Frame(t, todos[t], NoLocals)>>]
  BY DEF End
<1>. HIDE DEF todos
<1>3. /\ stack' \in [Threads -> Seq(Frames)]
      /\ \A t \in Threads :
           /\ stack'[t] # <<>> /\ 1..Len(stack'[t]) - 1 = {}
           /\ stack'[t][Len(stack'[t])] \in BaseFrames(t)
  BY <1>1, <1>2, Fresh, Zenon
<1>4. \A t \in Threads : Shape(t)'
  BY <1>3 DEF Shape, Base, Above
<1>5. Stacks'
  BY <1>3, <1>4 DEF Stacks
<1>6. TypeInv' /\ OnlyTheseStray' /\ ~alive' /\ \A n \in Numbers : fds'[n] = Free
  BY DEF End, IInv, TypeInv, TableType, OnlyTheseStray
<1>. QED BY <1>5, <1>6 DEF IInv

----------------------------------------------------------------------------
(* Every step.                                                             *)

LEMMA OpenInv ==
  ASSUME IInv, NEW t \in Threads, DoOpen(t)
  PROVE  IInv'
<1>1. Stacks /\ Top(t).todo # <<>> /\ This(t).op = "open" /\ alive
      /\ UNCHANGED <<deaf, alive, culprit>>
  BY Beginning DEF DoOpen, Doing, This
<1>2. CASE Len(stack[t]) = 1
  BY <1>2, OpenAtBase
<1>3. CASE Len(stack[t]) # 1
  <2>1. PICK s : s = This(t).var
    OBVIOUS
  <2>2. s \in VarsOf(Rank(Top(t).fun))
    BY <1>1, <1>3, <2>1, InFunction, OpFacts DEF Opens
  <2>3. s # "fd_srvr"
    BY <1>1, <1>3, <2>2, InFunction DEF PortVars
  <2>4. PICK n \in Values :
          /\ \/ n \in Numbers /\ Obtain(n, t, s, 0) /\ UNCHANGED faults
             \/ n = Invalid /\ UNCHANGED fds /\ Fault("open")
          /\ Assign(t, s, n)
    BY <2>1, <2>3 DEF DoOpen, Values
  <2>. QED BY <1>1, <1>3, <2>1, <2>4, OpenInFunction
<1>. QED BY <1>2, <1>3

LEMMA PopenInv ==
  ASSUME IInv, NEW t \in Threads, DoPopen(t)
  PROVE  IInv'
<1>1. Stacks /\ Top(t).todo # <<>> /\ This(t).op = "popen" /\ alive
      /\ UNCHANGED <<deaf, alive, culprit>>
  BY Beginning DEF DoPopen, Doing, This
<1>2. Len(stack[t]) # 1
  BY <1>1, ThisFacts
<1>3. PICK s : s = This(t).var
  OBVIOUS
<1>4. PICK n \in Values :
        /\ \/ n \in Numbers /\ Obtain(n, t, s, 0) /\ UNCHANGED faults
           \/ n = Invalid /\ UNCHANGED fds /\ Fault("open")
        /\ Assign(t, s, n)
  BY <1>3 DEF DoPopen, Values
<1>. QED BY <1>1, <1>2, <1>3, <1>4, OpenInFunction

LEMMA CloseInv ==
  ASSUME IInv, NEW t \in Threads, DoClose(t)
  PROVE  IInv'
<1>1. Stacks /\ Top(t).todo # <<>> /\ This(t).op = "close" /\ alive
      /\ UNCHANGED <<deaf, alive, faults>> /\ Go(t)
  BY Beginning DEF DoClose, Doing, This
<1>2. CASE Len(stack[t]) = 1
  BY <1>2, CloseAtBase
<1>3. CASE Len(stack[t]) # 1
  <2>1. PICK s : s = This(t).var
    OBVIOUS
  <2>2. PICK n \in Value(t, s) :
          /\ fds' = IF n \in Numbers THEN [fds EXCEPT ![n] = Free] ELSE fds
          /\ Touch(t, s, n)
    BY <2>1 DEF DoClose
  <2>3. s \in DOMAIN Top(t).locals => n = Top(t).locals[s]
    BY <2>2 DEF Value
  <2>. QED BY <1>1, <1>3, <2>1, <2>2, <2>3, CloseInFunction
<1>. QED BY <1>2, <1>3

LEMMA PcloseInv ==
  ASSUME IInv, NEW t \in Threads, DoPclose(t)
  PROVE  IInv'
<1>1. TableType /\ Stacks /\ Top(t).todo # <<>> /\ This(t).op = "pclose" /\ alive
  BY Beginning DEF DoPclose, Doing, This
<1>2. Len(stack[t]) # 1
  BY <1>1, ThisFacts
<1>3. PICK s : s = This(t).var
  OBVIOUS
<1>4. PICK n : n = Top(t).locals[s]
  OBVIOUS
<1>5. CASE n = Invalid
  <2>1. End
    BY <1>3, <1>4, <1>5 DEF DoPclose
  <2>. QED BY <2>1, EndInv
<1>6. CASE n # Invalid
  <2>1. /\ fds' = [fds EXCEPT ![n] = Free]
        /\ Touch(t, s, n) /\ Go(t) /\ UNCHANGED <<deaf, alive, faults>>
    BY <1>3, <1>4, <1>6 DEF DoPclose
  <2>2. fds' = IF n \in Numbers THEN [fds EXCEPT ![n] = Free] ELSE fds
    BY <1>1, <2>1, PcloseIsClose
  <2>. QED BY <1>1, <1>2, <1>3, <1>4, <2>1, <2>2, CloseInFunction
<1>. QED BY <1>5, <1>6

LEMMA StepInv ==
  ASSUME IInv, [Next]_vars
  PROVE  IInv'
<1>1. CASE Next
  <2>1. PICK t \in Threads : Control(t) \/ Operation(t)
    BY <1>1 DEF Next
  <2>2. CASE Control(t)
    BY <2>2, ControlInv
  <2>3. CASE DoOpen(t)
    BY <2>3, OpenInv
  <2>4. CASE DoPopen(t)
    BY <2>4, PopenInv
  <2>5. CASE DoClose(t)
    BY <2>5, CloseInv
  <2>6. CASE DoPclose(t)
    BY <2>6, PcloseInv
  <2>7. CASE DoGuarded(t)
    BY <2>7, GuardedInv
  <2>8. CASE DoAccept(t)
    BY <2>8, AcceptInv
  <2>9. CASE DoDeaf(t)
    BY <2>9, DeafInv
  <2>10. CASE DoExit(t)
    BY <2>10, EndInv DEF DoExit
  <2>11. CASE DoSend(t) \/ DoRecv(t)
    BY <2>11, TalkInv
  <2>. QED
    BY <2>1, <2>2, <2>3, <2>4, <2>5, <2>6, <2>7, <2>8, <2>9, <2>10, <2>11 DEF Operation
<1>2. CASE UNCHANGED vars
  <2>1. UNCHANGED <<fds, stack, deaf, alive, faults, culprit>>
    BY <1>2 DEF vars, table
  <2>2. TypeInv' /\ OnlyTheseStray' /\ (~alive' => \A n \in Numbers : fds'[n] = Free)
    BY <2>1 DEF IInv, TypeInv, TableType, OnlyTheseStray
  <2>3. \A t \in Threads : Shape(t)'
    BY <2>1 DEF IInv, Stacks, Shape, Base, Above
  <2>4. Stacks'
    BY <2>1, <2>3 DEF IInv, Stacks
  <2>5. ASSUME NEW t \in Threads, ThreadInv(t) PROVE ThreadInv(t)'
    <3>1. \A s : Untouched(t, s)
      BY <2>1, UntouchedAll
    <3>. QED BY <2>1, <2>5, <3>1, OtherThread DEF IInv, TypeInv
  <2>6. alive' = alive /\ culprit' = culprit
    BY <2>1
  <2>. QED BY <2>2, <2>4, <2>5, <2>6 DEF IInv
<1>. QED BY <1>1, <1>2

LEMMA Firsts ==
  \A t \in Threads : First(t) \in Openings \cup {Building}
<1>1. ASSUME NEW t \in Threads, t = "th_port2" PROVE First(t) = Building
  BY <1>1 DEF First, Building
<1>2. ASSUME NEW t \in Threads, t # "th_port2" PROVE First(t) \in Openings
  <2>1. First(t) = <<>> \o StartSrvr(TRUE)
    BY <1>2 DEF First
  <2>2. StartSrvr(TRUE) = <<Open("fd_srvr"), Listen(TRUE)>>
    BY DEF StartSrvr
  <2>3. \A a, b : <<>> \o <<a, b>> = <<a, b>>
    OBVIOUS
  <2>4. First(t) = StartSrvr(TRUE)
    BY <2>1, <2>2, <2>3, Zenon
  <2>. QED BY <2>4 DEF Openings
<1>. QED BY <1>1, <1>2

LEMMA InitInv ==
  ASSUME Init
  PROVE  IInv
<1>. DEFINE todos == [t \in Threads |-> First(t)]
<1>1. todos \in [Threads -> BaseTodos]
  BY Firsts DEF BaseTodos
<1>2. stack = [t \in Threads |-> <<Frame(t, todos[t], NoLocals)>>]
  BY DEF Init
<1>3. \A t \in Threads : todos[t] \in Openings \cup {Building}
  BY Firsts
<1>. HIDE DEF todos
<1>4. /\ stack \in [Threads -> Seq(Frames)]
      /\ \A t \in Threads :
           /\ stack[t] # <<>> /\ 1..Len(stack[t]) - 1 = {}
           /\ stack[t][Len(stack[t])] = Frame(t, todos[t], NoLocals)
           /\ stack[t][Len(stack[t])] \in BaseFrames(t)
  BY <1>1, <1>2, Fresh, Zenon
<1>5. \A t \in Threads : Shape(t)
  BY <1>4 DEF Shape, Base, Above
<1>6. Stacks
  BY <1>4, <1>5 DEF Stacks
<1>7. TypeInv /\ OnlyTheseStray /\ alive /\ (\A n \in Numbers : fds[n] = Free)
      /\ \A t \in Threads : ~deaf[t]
  BY MaxFaultsAssumption DEF Init, TypeInv, TableType, OnlyTheseStray
<1>8. ASSUME NEW t \in Threads PROVE ThreadInv(t)
  <2>1. Base(t).todo \in Openings \cup {Building} /\ Above(t) = {}
    BY <1>3, <1>4, FrameFacts DEF Base, Above
  <2>2. Base(t).todo \notin Loops \cup Listenings \cup {Reopen, Tail(Reopen)}
    BY <2>1, BaseTodoDiffer
  <2>3. \A n \in Numbers : \A s : ~IsFor(n, t, s)
    BY <1>7 DEF IsFor
  <2>4. PortInv(t)
    BY <1>7, <2>2, <2>3 DEF PortInv, Connected
  <2>. QED BY <2>1, <2>3, <2>4 DEF ThreadInv, HeldInv, SoundInv
<1>. QED BY <1>6, <1>7, <1>8 DEF IInv

LEMMA Invariance == Spec => []IInv
<1>1. IInv /\ [Next]_vars => IInv'
  BY StepInv
<1>. QED BY InitInv, <1>1, PTL DEF Spec

----------------------------------------------------------------------------
(* What follows from it.                                                   *)

\* Ranks that fall along the frames leave room for three functions.
LEMMA Ranked ==
  ASSUME NEW n \in Nat \ {0}, NEW r, \A k \in 1..n - 1 : r[k] \in 1..3,
         \A j, k \in 1..n - 1 : j < k => r[j] > r[k]
  PROVE  n \in 1..4
<1>1. SUFFICES ASSUME n > 4 PROVE FALSE
  OBVIOUS
<1>2. 1 \in 1..n - 1 /\ 2 \in 1..n - 1 /\ 3 \in 1..n - 1 /\ 4 \in 1..n - 1
  BY <1>1
<1>3. r[1] > r[2] /\ r[2] > r[3] /\ r[3] > r[4]
  BY <1>2
<1>. QED BY <1>2, <1>3

\* A thread is in three functions at most, and whoever has been first to mistake a
\* number is one of those named.
LEMMA TypeFollows ==
  ASSUME IInv
  PROVE  TypeOK
<1>1. ASSUME NEW t \in Threads PROVE Len(stack[t]) \in 1..4
  <2>. DEFINE r == [k \in Above(t) |-> Rank(stack[t][k].fun)]
  <2>1. PICK n \in Nat \ {0} : n = Len(stack[t])
    BY TopFacts DEF IInv
  <2>2. \A k \in Above(t) : r[k] \in 1..3
    BY OtherNames
  <2>3. \A j, k \in Above(t) : j < k => r[j] > r[k]
    BY DEF IInv, Stacks, Shape
  <2>4. Above(t) = 1..n - 1
    BY <2>1 DEF Above
  <2>. HIDE DEF r
  <2>. QED BY <2>1, <2>2, <2>3, <2>4, Ranked
<1>2. DOMAIN stack = Threads
  BY DEF IInv, Stacks
<1>3. culprit \in {"none", "deaf"} \cup Threads \cup DOMAIN Body
  BY FunctionsAre DEF IInv, OnlyTheseStray, Functions
<1>. QED BY <1>1, <1>2, <1>3 DEF IInv, TypeInv, TableType, TypeOK

LEMMA NothingLostHere ==
  ASSUME IInv
  PROVE  NoLeak
<1>1. SUFFICES ASSUME culprit = "none", NEW n \in Numbers, fds[n] # Free
               PROVE  \E k \in DOMAIN stack[fds[n][1]] :
                        LET locals == stack[fds[n][1]][k].locals
                        IN fds[n][2] \in DOMAIN locals /\ locals[fds[n][2]] = n
  BY DEF NoLeak
<1>2. TableType /\ Stacks /\ alive
  BY <1>1 DEF IInv, TypeInv
<1>3. PICK t \in Threads, s \in Variables : t = fds[n][1] /\ s = fds[n][2]
  BY <1>1, <1>2, EntryFacts
<1>4. IsFor(n, t, s) /\ ThreadInv(t)
  BY <1>1, <1>2, <1>3 DEF IsFor, IInv
<1>5. stack[t] \in Seq(Frames) /\ Len(stack[t]) \in Nat \ {0}
  BY <1>2, TopFacts
<1>6. Len(stack[t]) \in DOMAIN stack[t] /\ Above(t) \subseteq DOMAIN stack[t]
  BY <1>5 DEF Above
<1>7. CASE s \in PortVars
  <2>1. s \in DOMAIN Base(t).locals /\ Base(t).locals[s] = n
    BY <1>4, <1>7 DEF ThreadInv, PortInv, PortVars, Has
  <2>. QED BY <1>3, <1>6, <2>1 DEF Base
<1>8. CASE s \notin PortVars
  <2>1. \E k \in Above(t) : s \in DOMAIN stack[t][k].locals /\ stack[t][k].locals[s] = n
    BY <1>4, <1>8 DEF ThreadInv, HeldInv
  <2>. QED BY <1>3, <1>6, <2>1
<1>. QED BY <1>7, <1>8

LEMMA OwnHere ==
  ASSUME IInv
  PROVE  OwnConnection
<1>1. SUFFICES ASSUME culprit = "none", NEW t \in Threads, Doing(t, "send") \/ Doing(t, "recv"),
                      ~deaf[t]
               PROVE  fds[Top(t).locals.fd_clnt] = <<t, "fd_clnt", Port[t]>>
  BY DEF OwnConnection
<1>2. alive /\ Top(t).todo # <<>> /\ This(t).op \in {"send", "recv"} /\ Stacks
  BY <1>1 DEF Doing, This, IInv
<1>3. Len(stack[t]) = 1
  BY <1>2, ThisFacts
<1>4. Top(t) = Base(t) /\ Top(t).todo \in Loops
  BY <1>2, <1>3, Places
<1>5. PortInv(t)
  BY <1>1, <1>2 DEF IInv, ThreadInv
<1>6. Owns(t, "fd_clnt")
  BY <1>1, <1>4, <1>5 DEF PortInv, Connected
<1>. QED BY <1>4, <1>6 DEF Owns, Has

----------------------------------------------------------------------------
(* The theorems.                                                           *)

\* The type invariant, for any number of descriptors and faults.  A number stands for
\* something one of the two threads has opened for one of the C variables; and no
\* thread is ever in more than three functions at once.
THEOREM TypeCorrect == Spec => []TypeOK
BY Invariance, TypeFollows, PTL

\* No descriptor is lost: whichever calls fail and wherever the two threads interleave,
\* every descriptor of the process is the value of a variable of a function that has
\* not returned, until a function has mistaken a number.
THEOREM NothingLost == Spec => []NoLeak
BY Invariance, NothingLostHere, PTL

\* As long as no function has mistaken a number, a thread that sends or receives does
\* so on a connection to its own port.
THEOREM OwnTalk == Spec => []OwnConnection
BY Invariance, OwnHere, PTL

\* However many descriptors and faults there are, the first to mistake a number is
\* get_fmw_ver, get_eth_info or a thread whose port has failed: the other functions
\* and the threads themselves never are.
THEOREM FewStray == Spec => []OnlyTheseStray
<1>1. IInv => OnlyTheseStray
  BY DEF IInv
<1>. QED BY Invariance, <1>1, PTL
=============================================================================
